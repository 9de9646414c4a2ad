---------------------------- MODULE ContractProofs ----------------------------
(***************************************************************************)
(* Proofs about the contracts beside the registry's own entries: state     *)
(* channels, the roots of rollup batches, the decay of trust, and, for any *)
(* roles, actions, delays and number of proposals, that nothing reaches    *)
(* the registry around its timelock.                                       *)
(***************************************************************************)
EXTENDS TrustDecay, StateChannel, RollupRoots, Governance, DataTheorems, SequenceTheorems

-----------------------------------------------------------------------------
(* State channels.                                                         *)

Channel ==
    [partyA : Parties, partyB : Parties, balanceA : Int, balanceB : Int,
     status : {"Open", "Disputed", "Closed"}, window : Nat, startedAt : Nat,
     disputer : Parties \cup {NoParty}, nonce : Nat, latestA : Int, latestB : Int]

ChannelTypeOK ==
    /\ channels \in Seq(Channel)
    /\ submitted \in Seq(SUBSET (Nat \X Int \X Int))
    /\ Len(submitted) = Len(channels)
    /\ held \in Int
    /\ channelNow \in Nat

\* No state names a negative balance.
Debtless(states) == \A s \in states : s[2] >= 0 /\ s[3] >= 0

\* One state has the nonce, and no state a higher one; no two states have the same.
NewestIs(nonce, states) ==
    /\ \E s \in states : s[1] = nonce
    /\ \A s \in states : s[1] <= nonce
    /\ \A s, t \in states : s[1] = t[1] => s = t

\* The latest state of a channel distributes what was locked, is one that was accepted,
\* as the opening one was, and no other accepted state is as new.  Only a party disputes, and
\* a channel closed with no
\* negative balance on record has paid what was locked.
StandsAt(ch, states) ==
    /\ ch.status # "Closed" => /\ ch.latestA + ch.latestB = Collateral(ch)
                              /\ <<ch.nonce, ch.latestA, ch.latestB>> \in states
    /\ ch.status = "Disputed" => ch.disputer \in {ch.partyA, ch.partyB}
    /\ ch.status = "Closed" /\ Debtless(states) => Paid(ch) = Locked(ch)
    /\ <<0, ch.balanceA, ch.balanceB>> \in states
    /\ NewestIs(ch.nonce, states)

ChannelInv ==
    /\ ChannelTypeOK
    /\ CollateralIsHeld
    /\ \A c \in 1 .. Len(channels) : StandsAt(channels[c], submitted[c])

\* What was locked in a channel, what is paid and what is left are numbers; while a channel
\* is not closed all of it is left.
LEMMA LeftType ==
    ASSUME NEW ch \in Channel
    PROVE  /\ Collateral(ch) \in Int /\ Left(ch) \in Int /\ Locked(ch) \in Nat /\ Paid(ch) \in Nat
           /\ ch.status # "Closed" => Left(ch) = Locked(ch)
           /\ ch.status = "Closed" => Left(ch) = Locked(ch) - Paid(ch)
BY DEF Channel, Left, Collateral, Locked, Paid, Transferred

\* With no negative balance on record, what was locked is the collateral.
LEMMA DebtlessLocks ==
    ASSUME NEW ch \in Channel, NEW states, StandsAt(ch, states), Debtless(states)
    PROVE  Locked(ch) = Collateral(ch) /\ Transferred(Collateral(ch)) = Locked(ch)
<1>1. ch.balanceA >= 0 /\ ch.balanceB >= 0
  BY DEF StandsAt, Debtless
<1>2. ch.balanceA \in Int /\ ch.balanceB \in Int
  BY DEF Channel
<1> QED BY <1>1, <1>2 DEF Locked, Collateral, Transferred

\* What is left of a new channel is added to what is left of the others.
LEMMA LeftAppended ==
    ASSUME NEW chs \in Seq(Channel), NEW ch \in Channel
    PROVE  SumFunction([c \in 1 .. Len(Append(chs, ch)) |-> Left(Append(chs, ch)[c])])
             = SumFunction([c \in 1 .. Len(chs) |-> Left(chs[c])]) + Left(ch)
<1> DEFINE n == Len(chs)
           more == Append(chs, ch)
           w == [c \in 1 .. n |-> Left(chs[c])]
           v == [c \in 1 .. n + 1 |-> Left(more[c])]
<1>1. /\ n \in Nat /\ Len(more) = n + 1 /\ more[n + 1] = ch
      /\ \A c \in 1 .. n : more[c] = chs[c] /\ chs[c] \in Channel
  BY AppendProperties, ElementOfSeq
<1>2. \A x \in Channel : Left(x) \in Int
  BY LeftType
<1>3. \A c \in 1 .. n : w[c] = v[c] /\ w[c] \in Int
  BY <1>1, <1>2
<1>4. v[n + 1] = Left(ch) /\ Left(ch) \in Int
  BY <1>1, <1>2
<1>5. IsFiniteSet(1 .. n) /\ 1 .. n + 1 = (1 .. n) \cup {n + 1} /\ n + 1 \notin 1 .. n
  <2>1. IsFiniteSet(1 .. n)
    BY <1>1, FS_Interval
  <2>2. 1 .. n + 1 = (1 .. n) \cup {n + 1} /\ n + 1 \notin 1 .. n
    BY <1>1
  <2> QED BY <2>1, <2>2
<1>6. SumFunction(w) = SumFunctionOnSet(w, 1 .. n) /\ SumFunction(v) = SumFunctionOnSet(v, 1 .. n + 1)
  BY DEF SumFunction
<1>7. SumFunctionOnSet(w, 1 .. n) \in Int
  <2> HIDE DEF w
  <2> QED BY <1>3, <1>5, SumType
<1>8. SumFunctionOnSet(v, 1 .. n) = SumFunctionOnSet(w, 1 .. n)
  <2> HIDE DEF v, w
  <2> QED BY <1>3, <1>5, SumAgree
<1>9. SumFunctionOnSet(v, (1 .. n) \cup {n + 1}) = v[n + 1] + SumFunctionOnSet(v, 1 .. n)
  <2>1. \A c \in (1 .. n) \cup {n + 1} : v[c] \in Int
    BY <1>3, <1>4
  <2> HIDE DEF v
  <2> QED BY <1>5, <2>1, SumAdd
<1>10. SumFunction(v) = SumFunction(w) + Left(ch)
  <2> HIDE DEF v, w
  <2>1. SumFunctionOnSet(v, 1 .. n + 1) = v[n + 1] + SumFunctionOnSet(w, 1 .. n)
    BY <1>5, <1>8, <1>9
  <2> QED BY <1>4, <1>6, <1>7, <2>1
<1> QED BY <1>1, <1>10

\* A channel that changes changes the sum of what is left by as much.
LEMMA LeftUpdated ==
    ASSUME NEW chs \in Seq(Channel), NEW c \in 1 .. Len(chs), NEW ch \in Channel
    PROVE  SumFunction([d \in 1 .. Len([chs EXCEPT ![c] = ch]) |-> Left([chs EXCEPT ![c] = ch][d])])
             = SumFunction([d \in 1 .. Len(chs) |-> Left(chs[d])]) + Left(ch) - Left(chs[c])
<1> DEFINE n == Len(chs)
           now == [chs EXCEPT ![c] = ch]
           w == [d \in 1 .. n |-> Left(chs[d])]
           v == [d \in 1 .. n |-> Left(now[d])]
<1>1. /\ n \in Nat /\ Len(now) = n /\ now[c] = ch
      /\ \A d \in 1 .. n : chs[d] \in Channel
      /\ \A d \in (1 .. n) \ {c} : now[d] = chs[d]
  BY ExceptSeq, ElementOfSeq
<1>2. \A x \in Channel : Left(x) \in Int
  BY LeftType
<1>3. \A d \in 1 .. n : w[d] = Left(chs[d]) /\ w[d] \in Int
  BY <1>1, <1>2
<1>4. v[c] = Left(ch) /\ v[c] \in Int /\ \A d \in (1 .. n) \ {c} : v[d] = w[d]
  BY <1>1, <1>2
<1>5. IsFiniteSet(1 .. n)
  BY <1>1, FS_Interval
<1>6. SumFunctionOnSet(v, 1 .. n) = SumFunctionOnSet(w, 1 .. n) + v[c] - w[c]
  <2> HIDE DEF v, w
  <2> QED BY <1>3, <1>4, <1>5, SumUpdate
<1>7. SumFunction(w) = SumFunctionOnSet(w, 1 .. n) /\ SumFunction(v) = SumFunctionOnSet(v, 1 .. n)
  BY DEF SumFunction
<1>8. SumFunction(v) = SumFunction(w) + Left(ch) - Left(chs[c])
  <2> HIDE DEF v, w
  <2> QED BY <1>3, <1>4, <1>6, <1>7
<1> QED BY <1>1, <1>8

\* At first there are no channels.
LEMMA ChannelStart == ChannelInit => ChannelInv
<1> SUFFICES ASSUME ChannelInit PROVE ChannelInv
  OBVIOUS
<1>1. channels \in Seq(Channel) /\ submitted \in Seq(SUBSET (Nat \X Int \X Int))
      /\ Len(channels) = 0 /\ Len(submitted) = 0 /\ held = 0 /\ channelNow = 0
  BY DEF ChannelInit
<1>2. 1 .. Len(channels) = {}
  BY <1>1
<1>3. CollateralIsHeld
  BY <1>1, <1>2, SumEmpty DEF CollateralIsHeld, SumFunction
<1> QED BY <1>1, <1>2, <1>3 DEF ChannelInv, ChannelTypeOK

\* A step of a channel leaves the others alone and pays what it has less left.
LEMMA OneChannelChanges ==
    ASSUME ChannelInv, NEW c \in 1 .. Len(channels), NEW ch \in Channel,
           NEW states \in SUBSET (Nat \X Int \X Int),
           channels' = [channels EXCEPT ![c] = ch],
           submitted' = [submitted EXCEPT ![c] = states],
           held' = held + Left(ch) - Left(channels[c]), held' >= 0,
           channelNow' = channelNow,
           StandsAt(ch, states)
    PROVE  ChannelInv'
<1>1. /\ channels \in Seq(Channel) /\ channels' \in Seq(Channel) /\ Len(channels') = Len(channels)
      /\ channels'[c] = ch /\ \A d \in 1 .. Len(channels) : d # c => channels'[d] = channels[d]
  BY ExceptSeq DEF ChannelInv, ChannelTypeOK
<1>2. /\ submitted' \in Seq(SUBSET (Nat \X Int \X Int)) /\ Len(submitted') = Len(submitted)
      /\ submitted'[c] = states /\ \A d \in 1 .. Len(channels) : d # c => submitted'[d] = submitted[d]
  BY ExceptSeq DEF ChannelInv, ChannelTypeOK
<1>3. Left(ch) \in Int /\ Left(channels[c]) \in Int /\ held \in Int
  <2>1. channels[c] \in Channel
    BY <1>1, ElementOfSeq
  <2> QED BY <2>1, LeftType DEF ChannelInv, ChannelTypeOK
<1>4. CollateralIsHeld'
  <2>1. held = SumFunction([d \in 1 .. Len(channels) |-> Left(channels[d])])
    BY DEF ChannelInv, CollateralIsHeld
  <2>2. SumFunction([d \in 1 .. Len(channels') |-> Left(channels'[d])])
          = held + Left(ch) - Left(channels[c])
    <3> DEFINE now == [channels EXCEPT ![c] = ch]
    <3>1. SumFunction([d \in 1 .. Len(now) |-> Left(now[d])])
            = SumFunction([d \in 1 .. Len(channels) |-> Left(channels[d])]) + Left(ch) - Left(channels[c])
      BY <1>1, LeftUpdated
    <3>2. channels' = now
      OBVIOUS
    <3> HIDE DEF now
    <3> QED BY <2>1, <3>1, <3>2
  <2> QED BY <2>2 DEF CollateralIsHeld, Left, Locked, Paid, Transferred
<1>5. ChannelTypeOK'
  BY <1>1, <1>2, <1>3 DEF ChannelInv, ChannelTypeOK
<1>6. \A d \in 1 .. Len(channels) : StandsAt(channels'[d], submitted'[d])
  BY <1>1, <1>2 DEF ChannelInv
<1> QED BY <1>1, <1>4, <1>5, <1>6 DEF ChannelInv, StandsAt, NewestIs, Collateral, Debtless, Locked, Paid, Transferred

\* The invariant does not depend on the time.
LEMMA ChannelsUntouched ==
    ASSUME ChannelInv, UNCHANGED <<channels, held, submitted>>, channelNow' \in Nat
    PROVE  ChannelInv'
<1>1. ChannelTypeOK'
  BY DEF ChannelInv, ChannelTypeOK
<1>2. CollateralIsHeld'
  BY DEF ChannelInv, CollateralIsHeld, Left, Locked, Paid, Transferred
<1>3. \A c \in 1 .. Len(channels) : StandsAt(channels'[c], submitted'[c])
  BY DEF ChannelInv
<1> QED BY <1>1, <1>2, <1>3 DEF ChannelInv, StandsAt, NewestIs, Collateral, Debtless, Locked, Paid, Transferred

\* Every call of the channel contract keeps the invariant.
LEMMA ChannelStep == ChannelInv /\ [ChannelNext]_channelVars => ChannelInv'
<1> SUFFICES ASSUME ChannelInv, [ChannelNext]_channelVars PROVE ChannelInv'
  OBVIOUS
<1> USE ChannelAssumption
<1>0. /\ channels \in Seq(Channel) /\ submitted \in Seq(SUBSET (Nat \X Int \X Int))
      /\ Len(submitted) = Len(channels) /\ Len(channels) \in Nat
      /\ held \in Int /\ channelNow \in Nat
  BY LenProperties DEF ChannelInv, ChannelTypeOK
<1>1. CASE LedgerMoves
  BY <1>0, <1>1, ChannelsUntouched DEF LedgerMoves
<1>2. ASSUME NEW pa \in Parties, NEW pb \in Parties, NEW a \in Stakes, NEW b \in Stakes,
             NEW w \in disputeWindows, OpenChannel(pa, pb, a, b, w)
      PROVE  ChannelInv'
  <2> DEFINE ch == [partyA |-> pa, partyB |-> pb, balanceA |-> a, balanceB |-> b,
             status |-> "Open", window |-> w, startedAt |-> 0, disputer |-> NoParty,
             nonce |-> 0, latestA |-> a, latestB |-> b]
             states == {<<0, a, b>>}
  <2>1. /\ channels' = Append(channels, ch) /\ submitted' = Append(submitted, states)
        /\ held' = held + Transferred(a) + Transferred(b) /\ channelNow' = channelNow
    BY <1>2 DEF OpenChannel
  <2>2. ch \in Channel /\ states \in SUBSET (Nat \X Int \X Int)
    BY DEF Channel
  <2>3. Left(ch) = Transferred(a) + Transferred(b) /\ Transferred(a) \in Nat /\ Transferred(b) \in Nat
    BY DEF Left, Locked, Transferred
  <2>4. StandsAt(ch, states)
    BY DEF StandsAt, NewestIs, Collateral, Debtless
  <2> HIDE DEF ch, states
  <2>5. /\ channels' \in Seq(Channel) /\ Len(channels') = Len(channels) + 1
        /\ channels'[Len(channels) + 1] = ch
        /\ \A c \in 1 .. Len(channels) : channels'[c] = channels[c]
    BY <1>0, <2>1, <2>2, AppendProperties
  <2>6. /\ submitted' \in Seq(SUBSET (Nat \X Int \X Int)) /\ Len(submitted') = Len(channels) + 1
        /\ submitted'[Len(channels) + 1] = states
        /\ \A c \in 1 .. Len(channels) : submitted'[c] = submitted[c]
    BY <1>0, <2>1, <2>2, AppendProperties
  <2>7. CollateralIsHeld'
    <3>0. held >= 0
      BY DEF ChannelInv, CollateralIsHeld
    <3>1. held = SumFunction([d \in 1 .. Len(channels) |-> Left(channels[d])])
      BY DEF ChannelInv, CollateralIsHeld
    <3>2. SumFunction([d \in 1 .. Len(channels') |-> Left(channels'[d])]) = held + Left(ch)
      BY <1>0, <2>1, <2>2, <3>1, LeftAppended
    <3>3. held' = held + Left(ch) /\ held' >= 0
      <4>1. held' = held + Transferred(a) + Transferred(b) /\ held \in Int
        BY <1>0, <2>1
      <4> QED BY <2>3, <3>0, <4>1
    <3> QED BY <3>2, <3>3 DEF CollateralIsHeld, Left, Locked, Paid, Transferred
  <2>8. ChannelTypeOK'
    BY <1>0, <2>1, <2>3, <2>5, <2>6 DEF ChannelTypeOK
  <2>9. \A c \in 1 .. Len(channels') : StandsAt(channels'[c], submitted'[c])
    BY <1>0, <2>4, <2>5, <2>6 DEF ChannelInv
  <2> QED BY <2>7, <2>8, <2>9 DEF ChannelInv, StandsAt, NewestIs, Collateral, Debtless, Locked, Paid, Transferred
<1>3. ASSUME NEW c \in 1 .. Len(channels), NEW p \in Parties,
             NEW n \in Nonces, NEW a \in Balances, NEW b \in Balances,
             DisputeChannel(c, p, n, a, b)
      PROVE  ChannelInv'
  <2> DEFINE ch == channels[c]
             new == [ch EXCEPT !.nonce = n, !.latestA = a, !.latestB = b, !.status = "Disputed",
                               !.startedAt = channelNow, !.disputer = p]
             states == submitted[c] \cup {<<n, a, b>>}
  <2>0. ch \in Channel /\ submitted[c] \in SUBSET (Nat \X Int \X Int) /\ StandsAt(ch, submitted[c])
    BY <1>0, ElementOfSeq DEF ChannelInv
  <2>1. /\ channels' = [channels EXCEPT ![c] = new] /\ submitted' = [submitted EXCEPT ![c] = states]
        /\ held' = held /\ channelNow' = channelNow
        /\ ch.status # "Closed" /\ n > ch.nonce /\ a + b = Collateral(ch)
        /\ p \in {ch.partyA, ch.partyB}
    BY <1>3 DEF DisputeChannel, Newer, Party
  <2>2. a \in Int /\ b \in Int /\ n \in Nat
    OBVIOUS
  <2>3. /\ new \in Channel /\ new.nonce = n /\ new.latestA = a /\ new.latestB = b
        /\ Left(new) = Left(ch) /\ Collateral(new) = Collateral(ch)
        /\ new.status = "Disputed" /\ new.balanceA = ch.balanceA /\ new.balanceB = ch.balanceB
        /\ new.disputer = p /\ new.partyA = ch.partyA /\ new.partyB = ch.partyB
    BY <1>0, <2>0, <2>1, <2>2 DEF Channel, Left, Locked, Collateral
  <2>4. states \in SUBSET (Nat \X Int \X Int)
    BY <2>0, <2>2
  <2>5. StandsAt(new, states)
    <3>1. \A s \in submitted[c] : s[1] \in Nat /\ s[1] < n
      <4>1. ch.nonce \in Nat /\ ch.nonce < n
        BY <2>0, <2>1, <2>2 DEF Channel
      <4>2. ASSUME NEW s \in submitted[c] PROVE s[1] \in Nat /\ s[1] <= ch.nonce
        BY <2>0 DEF StandsAt, NewestIs
      <4> QED BY <2>2, <4>1, <4>2
    <3>2. <<n, a, b>> \in states /\ <<n, a, b>>[1] = n
      OBVIOUS
    <3>3. \A s \in states : s \in submitted[c] \/ s = <<n, a, b>>
      OBVIOUS
    <3> HIDE DEF states, new, ch
    <3>4. NewestIs(n, states)
      <4>1. \A s, t \in submitted[c] : s[1] = t[1] => s = t
        BY <2>0 DEF StandsAt, NewestIs
      <4>2. ASSUME NEW s \in states, NEW t \in states, s[1] = t[1] PROVE s = t
        BY <2>2, <3>1, <3>2, <3>3, <4>1, <4>2
      <4>3. \A s \in states : s[1] <= n
        BY <2>2, <3>1, <3>2, <3>3
      <4> QED BY <3>2, <4>2, <4>3 DEF NewestIs
    <3>7. <<0, new.balanceA, new.balanceB>> \in states
      <4>1. \A s \in submitted[c] : s \in states
        BY DEF states
      <4> QED BY <2>0, <2>3, <4>1 DEF StandsAt
    <3> QED BY <2>1, <2>3, <3>2, <3>4, <3>7 DEF StandsAt
  <2>6. held' = held + Left(new) - Left(channels[c]) /\ held' >= 0
    BY <1>0, <2>0, <2>1, <2>3, LeftType DEF ChannelInv, CollateralIsHeld
  <2> HIDE DEF states, new
  <2> QED BY <2>1, <2>3, <2>4, <2>5, <2>6, OneChannelChanges
<1>4. ASSUME NEW c \in 1 .. Len(channels), NEW p \in Parties, NEW valid \in BOOLEAN,
             VerifyAndResolveDispute(c, p, valid)
      PROVE  ChannelInv'
  <2> DEFINE ch == channels[c]
             new == Slashed(ch, p)
             C == Collateral(ch)
  <2>0. ch \in Channel /\ submitted[c] \in SUBSET (Nat \X Int \X Int) /\ StandsAt(ch, submitted[c])
    BY <1>0, ElementOfSeq DEF ChannelInv
  <2>1. CASE valid
    BY <1>0, <1>4, <2>1, ChannelsUntouched DEF VerifyAndResolveDispute
  <2>2. CASE ~valid
    <3>1. /\ channels' = [channels EXCEPT ![c] = new] /\ submitted' = submitted
          /\ held' = held - Transferred(Collateral(ch)) /\ held' >= 0 /\ channelNow' = channelNow
          /\ ch.status = "Disputed" /\ (p = ch.partyA \/ p = ch.partyB) /\ p # ch.disputer
      BY <1>4, <2>2 DEF VerifyAndResolveDispute, Party
    <3>2. /\ new \in Channel /\ new.status = "Closed" /\ new.nonce = ch.nonce
          /\ new.balanceA = ch.balanceA /\ new.balanceB = ch.balanceB
      <4>1. /\ (IF p = ch.partyA THEN C ELSE 0) \in Int
            /\ (IF p = ch.partyB THEN C ELSE 0) \in Int
        BY <2>0, LeftType
      <4> QED BY <2>0, <4>1 DEF Slashed, Channel
    <3>3. submitted' = [submitted EXCEPT ![c] = submitted[c]]
      BY <1>0, <3>1, ExceptSeq
    <3>4. Paid(new) = Transferred(Collateral(ch)) /\ Locked(new) = Locked(ch)
      <4>1. /\ new.latestA = IF p = ch.partyA THEN C ELSE 0
            /\ new.latestB = IF p = ch.partyB THEN C ELSE 0
        BY <2>0 DEF Slashed, Channel
      <4>2. \/ p = ch.partyA /\ p # ch.partyB
            \/ p = ch.partyB /\ p # ch.partyA
        BY <2>0, <3>1 DEF StandsAt
      <4>3. C \in Int
        BY <2>0, LeftType
      <4>4. \/ new.latestA = C /\ new.latestB = 0
            \/ new.latestA = 0 /\ new.latestB = C
        BY <4>1, <4>2
      <4> HIDE DEF new, C
      <4>5. Transferred(new.latestA) + Transferred(new.latestB) = Transferred(C)
        BY <4>3, <4>4 DEF Transferred
      <4> QED BY <3>2, <4>5 DEF Paid, Locked, C
    <3> HIDE DEF new
    <3>5. Debtless(submitted[c]) => Transferred(Collateral(ch)) = Locked(ch)
      BY <2>0, DebtlessLocks
    <3>6. StandsAt(new, submitted[c])
      BY <2>0, <3>2, <3>4, <3>5 DEF StandsAt
    <3>7. held' = held + Left(new) - Left(channels[c])
      <4>1. Left(new) = Locked(ch) - Paid(new) /\ Left(ch) = Locked(ch) /\ Locked(ch) \in Nat
            /\ Paid(new) \in Nat
        BY <2>0, <3>1, <3>2, <3>4, LeftType
      <4> QED BY <1>0, <3>1, <3>4, <4>1
    <3> QED BY <2>0, <3>1, <3>2, <3>3, <3>6, <3>7, OneChannelChanges
  <2> QED BY <2>1, <2>2
<1>5. ASSUME NEW c \in 1 .. Len(channels), NEW p \in Parties, CloseChannel(c, p)
      PROVE  ChannelInv'
  <2> DEFINE ch == channels[c]
             new == [ch EXCEPT !.status = "Closed"]
  <2>0. ch \in Channel /\ submitted[c] \in SUBSET (Nat \X Int \X Int) /\ StandsAt(ch, submitted[c])
    BY <1>0, ElementOfSeq DEF ChannelInv
  <2>1. /\ channels' = [channels EXCEPT ![c] = new] /\ submitted' = submitted
        /\ held' = held - Transferred(ch.latestA) - Transferred(ch.latestB) /\ held' >= 0
        /\ channelNow' = channelNow /\ ch.status # "Closed"
    BY <1>5 DEF CloseChannel
  <2>2. /\ new \in Channel /\ new.status = "Closed" /\ new.nonce = ch.nonce
        /\ new.balanceA = ch.balanceA /\ new.balanceB = ch.balanceB
        /\ Locked(new) = Locked(ch) /\ Paid(new) = Transferred(ch.latestA) + Transferred(ch.latestB)
    BY <2>0 DEF Channel, Locked, Paid
  <2>3. submitted' = [submitted EXCEPT ![c] = submitted[c]]
    BY <1>0, <2>1, ExceptSeq
  <2> HIDE DEF new
  <2>4. Debtless(submitted[c]) => Transferred(ch.latestA) + Transferred(ch.latestB) = Locked(ch)
    <3> SUFFICES ASSUME Debtless(submitted[c])
                 PROVE  Transferred(ch.latestA) + Transferred(ch.latestB) = Locked(ch)
      OBVIOUS
    <3>1. /\ ch.latestA >= 0 /\ ch.latestB >= 0 /\ ch.latestA + ch.latestB = Collateral(ch)
          /\ ch.latestA \in Int /\ ch.latestB \in Int
      BY <2>0, <2>1 DEF StandsAt, Debtless, Channel
    <3>2. Transferred(Collateral(ch)) = Locked(ch) /\ Collateral(ch) \in Int
      BY <2>0, DebtlessLocks, LeftType
    <3> QED BY <3>1, <3>2 DEF Transferred
  <2>5. StandsAt(new, submitted[c])
    BY <2>0, <2>2, <2>4 DEF StandsAt
  <2>6. held' = held + Left(new) - Left(channels[c])
    <3>1. Left(new) = Locked(ch) - Paid(new) /\ Left(ch) = Locked(ch) /\ Locked(ch) \in Nat
      BY <2>0, <2>1, <2>2, LeftType
    <3>2. Transferred(ch.latestA) \in Nat /\ Transferred(ch.latestB) \in Nat
      BY <2>0 DEF Transferred, Channel
    <3> QED BY <1>0, <2>1, <2>2, <3>1, <3>2
  <2> QED BY <2>0, <2>1, <2>2, <2>3, <2>5, <2>6, OneChannelChanges
<1>6. CASE UNCHANGED channelVars
  BY <1>0, <1>6, ChannelsUntouched DEF channelVars
<1> QED BY <1>1, <1>2, <1>3, <1>4, <1>5, <1>6 DEF ChannelNext

\* Whatever states the parties submit, in whatever order, with balances of either sign, and
\* however a channel ends: the contract holds what is left of every channel; a channel whose
\* states name no negative balance pays out exactly what was locked in it; and the state with
\* the highest nonce that was accepted is the one a channel stands at (open_channel,
\* dispute_channel, verify_and_resolve_dispute, close_channel).
THEOREM ChannelsStaySafe == ChannelSpec => []ChannelsAreSafe
<1>1. ChannelInv => ChannelsAreSafe
  <2> SUFFICES ASSUME ChannelInv PROVE PaysWhatItLocked /\ HighestNonceStands
    BY DEF ChannelInv, ChannelsAreSafe
  <2>1. ASSUME NEW c \in 1 .. Len(channels), NoDebt(c)
        PROVE  Left(channels[c]) = IF channels[c].status = "Closed" THEN 0 ELSE Collateral(channels[c])
    <3>1. channels[c] \in Channel /\ StandsAt(channels[c], submitted[c]) /\ Debtless(submitted[c])
      BY <2>1, ElementOfSeq DEF ChannelInv, ChannelTypeOK, NoDebt, Debtless
    <3>2. Locked(channels[c]) = Collateral(channels[c]) /\ Locked(channels[c]) \in Nat
      BY <3>1, DebtlessLocks, LeftType
    <3> QED BY <3>1, <3>2 DEF Left, StandsAt
  <2>2. ASSUME NEW c \in 1 .. Len(channels)
        PROVE  channels[c].nonce = Max({s[1] : s \in submitted[c]})
    <3> DEFINE nonces == {s[1] : s \in submitted[c]}
               top == channels[c].nonce
    <3>1. submitted[c] \in SUBSET (Nat \X Int \X Int) /\ StandsAt(channels[c], submitted[c])
      BY ElementOfSeq DEF ChannelInv, ChannelTypeOK
    <3>2. nonces \subseteq Nat /\ top \in nonces /\ \A x \in nonces : top >= x
      BY <3>1 DEF StandsAt, NewestIs
    <3> HIDE DEF nonces, top
    <3>3. \A m \in nonces : (\A x \in nonces : m >= x) => m = top
      BY <3>2
    <3>4. Max(nonces) = top
      BY <3>2, <3>3 DEF Max
    <3> QED BY <3>4 DEF nonces, top
  <2> QED BY <2>1, <2>2 DEF ChannelInv, StandsAt, NewestIs, PaysWhatItLocked, HighestNonceStands
<1> QED BY <1>1, ChannelStart, ChannelStep, PTL DEF ChannelSpec

-----------------------------------------------------------------------------
(* Batch roots and forced inclusion.                                       *)

PostedBatch == {[root |-> Root(b), leaves |-> b] : b \in RollupBatches}
Signature == [who : SUBSET Cosigners, needed : Nat]

\* What was posted are roots of batches, each with the quorum of its day.
RootsInv ==
    /\ batchRoots \in Seq(PostedBatch)
    /\ signedBy \in Seq(Signature)
    /\ Len(signedBy) = Len(batchRoots)
    /\ quorum \in Nat
    /\ RootsHaveQuorum
    /\ ForcedOnceAndCovered

\* A posted batch has leaves, and none of them is the hash of two nodes.
LEMMA BatchesHaveLeaves ==
    ASSUME NEW batch \in RollupBatches
    PROVE  /\ Len(batch) \in Nat \ {0}
           /\ \A i \in 1 .. Len(batch) : NoNode(batch[i])
<1>1. batch \in Seq(RollupLeaves) /\ batch # <<>>
  BY RollupAssumption
<1>2. Len(batch) \in Nat \ {0} /\ \A i \in 1 .. Len(batch) : batch[i] \in RollupLeaves
  BY <1>1, EmptySeq, LenProperties, ElementOfSeq
<1> QED BY <1>2, RollupAssumption DEF NoNode

\* Who brings a path from anything to a posted root has a node of the tree that was posted
\* under it, a leaf unless it is the hash of two nodes.
LEMMA ProvenHashesWerePosted ==
    ASSUME RootsInv, NEW leaf, NEW path \in AuditPaths, NEW n \in 1 .. Len(batchRoots),
           computeMerkleRoot(leaf, path) = batchRoots[n].root
    PROVE  Covers(batchRoots[n].leaves, leaf)
<1>1. batchRoots[n] \in PostedBatch
  BY ElementOfSeq DEF RootsInv
<1>2. PICK posted \in RollupBatches : batchRoots[n] = [root |-> Root(posted), leaves |-> posted]
  BY <1>1 DEF PostedBatch
<1>3. /\ computeMerkleRoot(leaf, path) = Root(posted) /\ Len(path) \in Nat
      /\ Len(posted) \in Nat \ {0} /\ \A i \in 1 .. Len(posted) : NoNode(posted[i])
  BY <1>2, BatchesHaveLeaves, RollupAssumption
<1>4. \E k \in 1 .. Len(Layers(posted)) : \E i \in 1 .. Len(Layers(posted)[k]) :
          Layers(posted)[k][i] = leaf
  BY <1>3, MerkleNodes
<1>5. leaf[1] # "pair" => \E i \in 1 .. Len(posted) : posted[i] = leaf
  BY <1>3, MerkleSoundness DEF NoNode
<1> QED BY <1>2, <1>4, <1>5 DEF Covers, InTree

\* At first no root is stored and nothing was proved.
LEMMA RootsStart == RollupRootsInit => RootsInv
<1> SUFFICES ASSUME RollupRootsInit PROVE RootsInv
  OBVIOUS
<1>1. /\ batchRoots = <<>> /\ signedBy = <<>> /\ quorum = 1 /\ forced = {}
  BY DEF RollupRootsInit
<1> QED BY <1>1, EmptySeq DEF RootsInv, RootsHaveQuorum, ForcedOnceAndCovered

\* Every call of the rollup keeps the invariant.
LEMMA RootsStep == RootsInv /\ [RollupRootsNext]_rollupVars => RootsInv'
<1> SUFFICES ASSUME RootsInv, [RollupRootsNext]_rollupVars PROVE RootsInv'
  OBVIOUS
<1>0. /\ batchRoots \in Seq(PostedBatch) /\ signedBy \in Seq(Signature)
      /\ Len(signedBy) = Len(batchRoots) /\ Len(batchRoots) \in Nat /\ quorum \in Nat
  BY LenProperties DEF RootsInv
<1>1. CASE SecondsPass \/ UNCHANGED rollupVars
  BY <1>1 DEF SecondsPass, rollupVars, RootsInv, RootsHaveQuorum, ForcedOnceAndCovered
<1>2. ASSUME NEW q \in quorums, NEW secs \in challengeSecs, ConfigureRollup(q, secs)
      PROVE  RootsInv'
  BY <1>2, RollupAssumption
     DEF ConfigureRollup, RootsInv, RootsHaveQuorum, ForcedOnceAndCovered
<1>3. ASSUME NEW s \in Cosigners, NEW batch \in RollupBatches, NEW n \in 1 .. MaxSeq,
             NEW k \in 0 .. MAX_BATCH_SIGNERS, NEW signers \in [1 .. k -> Cosigners],
             SubmitBatchRoot(s, batch, n, signers)
      PROVE  RootsInv'
  <2> DEFINE new == [root |-> Root(batch), leaves |-> batch]
             sig == [who |-> {s} \cup {signers[i] : i \in 1 .. Len(signers)}, needed |-> quorum]
  <2>1. /\ batchRoots' = Append(batchRoots, new) /\ signedBy' = Append(signedBy, sig)
        /\ quorum' = quorum /\ forced' = forced
        /\ Cardinality(sig.who) >= sig.needed
    BY <1>3 DEF SubmitBatchRoot, auth_count
  <2>2. new \in PostedBatch
    BY DEF PostedBatch
  <2>3. sig \in Signature
    <3>1. Len(signers) = k
      OBVIOUS
    <3> QED BY <1>0, <3>1 DEF Signature
  <2> HIDE DEF new, sig
  <2>4. /\ batchRoots' \in Seq(PostedBatch) /\ Len(batchRoots') = Len(batchRoots) + 1
        /\ \A i \in 1 .. Len(batchRoots) : batchRoots'[i] = batchRoots[i]
    BY <1>0, <2>1, <2>2, AppendProperties
  <2>5. /\ signedBy' \in Seq(Signature) /\ Len(signedBy') = Len(batchRoots) + 1
        /\ signedBy'[Len(batchRoots) + 1] = sig
        /\ \A i \in 1 .. Len(batchRoots) : signedBy'[i] = signedBy[i]
    BY <1>0, <2>1, <2>3, AppendProperties
  <2>6. RootsHaveQuorum'
    BY <1>0, <2>1, <2>4, <2>5 DEF RootsInv, RootsHaveQuorum
  <2>7. ForcedOnceAndCovered'
    <3>1. ASSUME NEW f \in forced', f.against # NoRoot
          PROVE  \E m \in 1 .. Len(batchRoots') :
                    batchRoots'[m].root = f.against /\ Covers(batchRoots'[m].leaves, f.leaf)
      <4>1. PICK m \in 1 .. Len(batchRoots) :
                batchRoots[m].root = f.against /\ Covers(batchRoots[m].leaves, f.leaf)
        BY <2>1, <3>1 DEF RootsInv, ForcedOnceAndCovered
      <4>2. m \in 1 .. Len(batchRoots') /\ batchRoots'[m] = batchRoots[m]
        BY <1>0, <2>4
      <4> QED BY <4>1, <4>2
    <3>2. \A f, g \in forced' : f.leaf = g.leaf => f = g
      BY <2>1 DEF RootsInv, ForcedOnceAndCovered
    <3> QED BY <3>1, <3>2 DEF ForcedOnceAndCovered
  <2> QED BY <1>0, <2>1, <2>4, <2>5, <2>6, <2>7 DEF RootsInv
<1>4. ASSUME NEW leaf, NEW against, Included(leaf, against),
             ~ \E f \in forced : f.leaf = leaf,
             against # NoRoot =>
                \E n \in 1 .. Len(batchRoots) :
                    batchRoots[n].root = against /\ Covers(batchRoots[n].leaves, leaf)
      PROVE  RootsInv'
  <2> DEFINE record == [leaf |-> leaf, against |-> against, at |-> rollupSecs]
  <2>1. /\ forced' = forced \cup {record}
        /\ UNCHANGED <<batchRoots, quorum, signedBy>>
    BY <1>4 DEF Included
  <2>2. record.leaf = leaf /\ record.against = against
    OBVIOUS
  <2> HIDE DEF record
  <2>3. ForcedOnceAndCovered'
    BY <1>4, <2>1, <2>2 DEF RootsInv, ForcedOnceAndCovered
  <2> QED BY <2>1, <2>3 DEF RootsInv, RootsHaveQuorum
<1>5. ASSUME NEW leaf \in Hashes, NEW path \in AuditPaths, NEW n \in 1 .. MaxSeq,
             ForceIncludeProven(leaf, path, n)
      PROVE  RootsInv'
  <2>1. /\ n \in 1 .. Len(batchRoots)
        /\ computeMerkleRoot(leaf, path) = batchRoots[n].root
        /\ ~ \E f \in forced : f.leaf = leaf
        /\ Included(leaf, batchRoots[n].root)
    BY <1>5 DEF ForceIncludeProven, ProvenAgainst, Posted, AlreadyForced
  <2>2. Covers(batchRoots[n].leaves, leaf)
    BY <2>1, ProvenHashesWerePosted
  <2> QED BY <1>4, <2>1, <2>2
<1>6. ASSUME NEW leaf \in Hashes, NEW opened_at, NEW n, ForceIncludeLate(leaf, opened_at, n)
      PROVE  RootsInv'
  BY <1>4, <1>6 DEF ForceIncludeLate, AlreadyForced
<1> QED BY <1>1, <1>2, <1>3, <1>5, <1>6 DEF RollupRootsNext

\* No root stands without its quorum of different signers; a hash is forced in once, against
\* a root only if it is in the tree of the batch behind that root, and a commitment only if
\* it is a leaf there: for every tree, every path, and anything that is presented as a leaf,
\* inner nodes included (submit_batch_root, force_include).
THEOREM RollupStaysSound == RollupRootsSpec => []RollupIsSound
<1>1. RootsInv => RollupIsSound
  BY DEF RootsInv, RollupIsSound
<1> QED BY <1>1, RootsStart, RootsStep, PTL DEF RollupRootsSpec

-----------------------------------------------------------------------------
(***************************************************************************)
(* The trust of an issuer, for any sizes of buckets, half-lives and        *)
(* windows, and any number of outcomes.                                    *)
(***************************************************************************)

\* What f should be at n, in terms of its value before.
HalvedFrom(f, n) == IF n = 0 THEN SCALE ELSE f[n - 1] \div 2

\* The recursive definition of Halved has a solution.
LEMMA HalvedExists == \E f : f = [n \in 0 .. MAX_DECAY_STEPS |-> HalvedFrom(f, n)]
<1> DEFINE Upto(f, n) == \A k \in 0 .. MAX_DECAY_STEPS : k <= n => f[k] = HalvedFrom(f, k)
           Missing == {n \in Nat : ~ \E f : Upto(f, n)}
<1>0. MAX_DECAY_STEPS \in Nat BY TrustScoreAssumption
<1>1. \E f : Upto(f, 0)
      <2> DEFINE g == [k \in 0 .. MAX_DECAY_STEPS |-> SCALE]
      <2>1. Upto(g, 0) BY <1>0 DEF HalvedFrom
      <2> QED BY <2>1
<1>2. ASSUME NEW n \in Nat, NEW f, Upto(f, n) PROVE \E g : Upto(g, n + 1)
      <2> DEFINE g == [k \in 0 .. MAX_DECAY_STEPS |-> HalvedFrom(f, k)]
      <2>1. ASSUME NEW k \in 0 .. MAX_DECAY_STEPS, k <= n + 1 PROVE g[k] = HalvedFrom(g, k)
            <3>1. CASE k = 0 BY <3>1 DEF HalvedFrom
            <3>2. CASE k # 0
                  <4>1. k - 1 \in 0 .. MAX_DECAY_STEPS /\ k - 1 <= n BY <1>0, <2>1, <3>2
                  <4>2. g[k - 1] = f[k - 1] BY <1>2, <4>1
                  <4> QED BY <3>2, <4>2 DEF HalvedFrom
            <3> QED BY <3>1, <3>2
      <2>2. Upto(g, n + 1) BY <2>1
      <2> QED BY <2>2
<1>3. Missing = {}
      <2> SUFFICES ASSUME Missing # {} PROVE FALSE OBVIOUS
      <2>1. PICK n \in Missing : \A m \in Missing : n <= m
            <3>1. Missing \in SUBSET Nat OBVIOUS
            <3> HIDE DEF Missing
            <3> QED BY <3>1, LeastExists
      <2>2. n # 0 BY <1>1, <2>1
      <2>3. n - 1 \in Nat /\ n - 1 \notin Missing
            <3>1. n - 1 \in Nat /\ ~ (n <= n - 1) BY <2>2
            <3> HIDE DEF Missing
            <3> QED BY <2>1, <3>1
      <2>4. PICK f : Upto(f, n - 1) BY <2>3
      <2>5. \E g : Upto(g, (n - 1) + 1)
            <3> HIDE DEF Upto
            <3> QED BY <1>2, <2>3, <2>4
      <2>6. (n - 1) + 1 = n BY <2>3
      <2> QED BY <2>1, <2>5, <2>6
<1>4. PICK f : Upto(f, MAX_DECAY_STEPS) BY <1>0, <1>3
<1> DEFINE g == [k \in 0 .. MAX_DECAY_STEPS |-> f[k]]
<1>5. ASSUME NEW k \in 0 .. MAX_DECAY_STEPS PROVE g[k] = HalvedFrom(g, k)
      <2>1. f[k] = HalvedFrom(f, k) BY <1>0, <1>4
      <2>2. k # 0 => k - 1 \in 0 .. MAX_DECAY_STEPS BY <1>0
      <2> QED BY <2>1, <2>2 DEF HalvedFrom
<1>6. g = [k \in 0 .. MAX_DECAY_STEPS |-> HalvedFrom(g, k)]
      <2>1. g = [k \in 0 .. MAX_DECAY_STEPS |-> g[k]] OBVIOUS
      <2> HIDE DEF g
      <2> QED BY <1>5, <2>1
<1> QED BY <1>6

\* No half-life makes the weight of an outcome greater, and before the first it is whole.
LEMMA WeightType ==
    /\ \A s \in Nat : decay_weight(s) \in 0 .. SCALE
    /\ decay_weight(0) = SCALE
<1>0. SCALE \in Nat \ {0} /\ MAX_DECAY_STEPS \in Nat \ {0} BY TrustScoreAssumption
<1>1. Halved = [n \in 0 .. MAX_DECAY_STEPS |-> HalvedFrom(Halved, n)]
      <2> DEFINE f == CHOOSE f : f = [n \in 0 .. MAX_DECAY_STEPS |-> HalvedFrom(f, n)]
      <2>1. Halved = f BY DEF Halved, HalvedFrom
      <2>2. f = [n \in 0 .. MAX_DECAY_STEPS |-> HalvedFrom(f, n)] BY HalvedExists
      <2> HIDE DEF f
      <2> QED BY <2>1, <2>2
<1> DEFINE Wrong == {n \in Nat : n <= MAX_DECAY_STEPS /\ Halved[n] \notin 0 .. SCALE}
<1>2. \A n \in 0 .. MAX_DECAY_STEPS : Halved[n] = HalvedFrom(Halved, n) BY <1>1
<1>3. Halved[0] = SCALE BY <1>0, <1>2 DEF HalvedFrom
<1>4. Wrong = {}
      <2> SUFFICES ASSUME Wrong # {} PROVE FALSE OBVIOUS
      <2>1. PICK n \in Wrong : \A m \in Wrong : n <= m
            <3>1. Wrong \in SUBSET Nat OBVIOUS
            <3> HIDE DEF Wrong
            <3> QED BY <3>1, LeastExists
      <2>2. n # 0 BY <1>0, <1>3, <2>1
      <2>3. n - 1 \in Nat /\ n - 1 \notin Wrong
            <3>1. n - 1 \in Nat /\ ~ (n <= n - 1) BY <2>2
            <3> HIDE DEF Wrong
            <3> QED BY <2>1, <3>1
      <2>4. Halved[n - 1] \in 0 .. SCALE BY <1>0, <2>3
      <2>5. Halved[n] = Halved[n - 1] \div 2 BY <1>0, <1>2, <2>2 DEF HalvedFrom
      <2>6. Halved[n] \in 0 .. SCALE BY <1>0, <2>4, <2>5
      <2> QED BY <2>6
<1>5. \A s \in Nat : s < MAX_DECAY_STEPS => Halved[s] \in 0 .. SCALE BY <1>0, <1>4
<1> QED BY <1>0, <1>3, <1>5 DEF decay_weight

\* Scaling a value down.
LEMMA ScaledDown ==
    ASSUME NEW a \in Nat, NEW w \in 0 .. SCALE
    PROVE  /\ (a * w) \div SCALE \in Nat /\ (a * w) \div SCALE <= a
           /\ w = SCALE => (a * w) \div SCALE = a
<1>0. SCALE \in Nat \ {0} BY TrustScoreAssumption
<1> DEFINE q == (a * w) \div SCALE
<1>1. a * w \in Nat /\ a * w <= a * SCALE BY <1>0
<1>2. q \in Int /\ SCALE * q <= a * w /\ a * w < SCALE * q + SCALE BY <1>0, <1>1
<1> HIDE DEF q
<1>3. q >= 0
      <2>1. CASE q <= -1
            <3>1. SCALE * q <= SCALE * (-1) BY <1>0, <1>2, <2>1
            <3> QED BY <1>0, <1>1, <1>2, <3>1
      <2> QED BY <1>2, <2>1
<1>4. q <= a
      <2>1. CASE q >= a + 1
            <3>1. SCALE * q >= SCALE * (a + 1) BY <1>0, <1>2, <2>1
            <3> QED BY <1>0, <1>1, <1>2, <3>1
      <2> QED BY <1>2, <2>1
<1>5. ASSUME w = SCALE PROVE q = a
      <2>1. a * SCALE < SCALE * (q + 1) BY <1>0, <1>2, <1>5
      <2>2. CASE a >= q + 1
            <3>1. SCALE * a >= SCALE * (q + 1) BY <1>0, <1>2, <2>2
            <3> QED BY <1>0, <1>2, <2>1, <3>1
      <2> QED BY <1>2, <1>4, <2>2
<1> QED BY <1>2, <1>3, <1>4, <1>5 DEF q

\* What a history holds of an outcome, before any decay.
Held(h, o) == h.aged[o] + SCALE * h.current[o]

\* Decay only takes, and takes nothing before the first half-life is over.
LEMMA DecayTakes ==
    ASSUME NEW a \in Nat, NEW c \in Nat, NEW s \in Nat
    PROVE  /\ Decayed(a, c, s) \in Nat /\ Decayed(a, c, s) <= a + SCALE * c
           /\ s = 0 => Decayed(a, c, s) = a + SCALE * c
<1>0. SCALE \in Nat \ {0} BY TrustScoreAssumption
<1> DEFINE w == decay_weight(s)
<1>1. w \in 0 .. SCALE /\ (s = 0 => w = SCALE) BY WeightType
<1>2. Decayed(a, c, s) = (a * w) \div SCALE + c * w BY DEF Decayed
<1> HIDE DEF w
<1>3. c * w \in Nat /\ c * w <= SCALE * c BY <1>0, <1>1
<1>4. /\ (a * w) \div SCALE \in Nat /\ (a * w) \div SCALE <= a
      /\ w = SCALE => (a * w) \div SCALE = a
      BY <1>1, ScaledDown
<1>5. w = SCALE => c * w = SCALE * c BY <1>0
<1> QED BY <1>0, <1>1, <1>2, <1>3, <1>4, <1>5

LEMMA StepsType ==
    /\ \A d \in Nat : decay_steps(d) \in Nat
    /\ \A d \in Nat : d < HALF_LIFE_BUCKETS => decay_steps(d) = 0
<1>0. HALF_LIFE_BUCKETS \in Nat \ {0} /\ MAX_DECAY_STEPS \in Nat \ {0} BY TrustScoreAssumption
<1>1. ASSUME NEW d \in Nat PROVE d \div HALF_LIFE_BUCKETS \in Nat BY <1>0
<1>2. ASSUME NEW d \in Nat, d < HALF_LIFE_BUCKETS PROVE d \div HALF_LIFE_BUCKETS = 0 BY <1>0, <1>2
<1> QED BY <1>0, <1>1, <1>2 DEF decay_steps

LEMMA BucketType ==
    /\ \A l \in Nat : Bucket(l) \in Nat
    /\ \A k, l \in Nat : k <= l => Bucket(k) <= Bucket(l)
    /\ \A k, l, w \in Nat : l <= k + w =>
           Bucket(l) <= Bucket(k) + w \div BUCKET_SIZE_LEDGERS + 1
<1> DEFINE B == BUCKET_SIZE_LEDGERS
<1>0. B \in Nat \ {0} BY TrustScoreAssumption
<1> HIDE DEF B
<1>1. ASSUME NEW l \in Nat
      PROVE  l \div B \in Nat /\ B * (l \div B) <= l /\ l < B * (l \div B) + B
      BY <1>0
<1>2. ASSUME NEW m \in Nat, NEW n \in Nat, B * m < B * n PROVE m < n
      <2>1. CASE m >= n
            <3>1. B * m >= B * n BY <1>0, <2>1
            <3> QED BY <1>0, <1>2, <3>1
      <2> QED BY <2>1
<1>3. ASSUME NEW k \in Nat, NEW l \in Nat, k <= l PROVE k \div B <= l \div B
      <2> DEFINE p == k \div B
                 q == l \div B
      <2>1. p \in Nat /\ q \in Nat /\ B * p <= k /\ l < B * q + B BY <1>1
      <2> HIDE DEF p, q
      <2>2. B * p < B * (q + 1) BY <1>0, <1>3, <2>1
      <2>3. p < q + 1 BY <1>2, <2>1, <2>2
      <2>4. p <= q BY <2>1, <2>3
      <2> QED BY <2>4 DEF p, q
<1>4. ASSUME NEW k \in Nat, NEW l \in Nat, NEW w \in Nat, l <= k + w
      PROVE  l \div B <= k \div B + w \div B + 1
      <2> DEFINE p == k \div B
                 q == l \div B
                 r == w \div B
      <2>1. /\ p \in Nat /\ q \in Nat /\ r \in Nat
            /\ B * q <= l /\ k < B * p + B /\ w < B * r + B BY <1>1
      <2> HIDE DEF p, q, r
      <2>2. B * q < B * (p + r + 2) BY <1>0, <1>4, <2>1
      <2>3. q < p + r + 2 BY <1>2, <2>1, <2>2
      <2>4. q <= p + r + 1 BY <2>1, <2>3
      <2> QED BY <2>4 DEF p, q, r
<1> QED BY <1>1, <1>3, <1>4 DEF Bucket, B

\* A history that was folded holds what the one before is worth.
LEMMA FoldingKeeps ==
    ASSUME NEW h \in TrustHistory \cup {None}, NEW l \in Nat,
           h # None => h.epoch <= Bucket(l)
    PROVE  LET f == FoldedHistory(h, Bucket(l))
           IN  /\ f \in TrustHistory /\ f.epoch = Bucket(l)
               /\ \A o \in Outcomes :
                      Held(f, o) = IF h = None THEN 0 ELSE EffectiveValue(h, o, l)
<1> DEFINE b == Bucket(l)
           f == FoldedHistory(h, b)
<1>0. b \in Nat /\ SCALE \in Nat \ {0} BY BucketType, TrustScoreAssumption
<1> HIDE DEF b
<1>1. CASE h = None
      <2>1. f = [epoch |-> b, current |-> ZeroCounts, aged |-> ZeroCounts]
            BY <1>1 DEF FoldedHistory
      <2>2. f \in TrustHistory BY <1>0, <2>1 DEF TrustHistory, Counts, ZeroCounts
      <2>3. \A o \in Outcomes : Held(f, o) = 0 BY <1>0, <2>1 DEF Held, ZeroCounts
      <2> QED BY <1>1, <2>1, <2>2, <2>3 DEF b
<1>2. CASE h # None
      <2>0. /\ h \in TrustHistory /\ h.epoch \in Nat /\ h.epoch <= b
            /\ \A o \in Outcomes : h.aged[o] \in Nat /\ h.current[o] \in Nat
            BY <1>2 DEF TrustHistory, Counts, b
      <2> DEFINE s == decay_steps(b - h.epoch)
      <2>1. s \in Nat /\ (b = h.epoch => s = 0)
            <3>1. b - h.epoch \in Nat /\ (b = h.epoch => b - h.epoch = 0) BY <1>0, <2>0
            <3>2. 0 < HALF_LIFE_BUCKETS BY TrustScoreAssumption
            <3> QED BY <3>1, <3>2, StepsType
      <2> HIDE DEF s
      <2>2. \A o \in Outcomes : EffectiveValue(h, o, l) = Decayed(h.aged[o], h.current[o], s)
            BY DEF EffectiveValue, s, b
      <2>3. \A o \in Outcomes :
                /\ Decayed(h.aged[o], h.current[o], s) \in Nat
                /\ s = 0 => Decayed(h.aged[o], h.current[o], s) = Held(h, o)
            BY <2>0, <2>1, DecayTakes DEF Held
      <2>4. CASE b > h.epoch
            <3>1. f = [epoch |-> b, current |-> ZeroCounts,
                       aged |-> [o \in Outcomes |-> Decayed(h.aged[o], h.current[o], s)]]
                  BY <1>2, <2>4 DEF FoldedHistory, s
            <3>2. f \in TrustHistory
                  BY <1>0, <2>3, <3>1 DEF TrustHistory, Counts, ZeroCounts
            <3>3. \A o \in Outcomes : Held(f, o) = Decayed(h.aged[o], h.current[o], s)
                  BY <1>0, <2>3, <3>1 DEF Held, ZeroCounts
            <3> QED BY <1>2, <2>2, <3>1, <3>2, <3>3 DEF b
      <2>5. CASE b = h.epoch
            <3>1. f = h BY <1>2, <2>0, <2>5 DEF FoldedHistory
            <3> QED BY <1>2, <2>0, <2>1, <2>2, <2>3, <2>5, <3>1 DEF b
      <2> QED BY <1>0, <2>0, <2>4, <2>5
<1> QED BY <1>1, <1>2

\* Adjusting a history by one outcome changes what it holds by one unit, if there is one.
LEMMA AdjustingMoves ==
    ASSUME NEW h \in TrustHistory, NEW o \in Outcomes, NEW increment \in BOOLEAN,
           increment \/ Held(h, o) >= SCALE
    PROVE  LET g == Adjusted(h, o, increment)
           IN  /\ g \in TrustHistory /\ g.epoch = h.epoch
               /\ \A p \in Outcomes :
                      Held(g, p) = Held(h, p) + (IF p # o THEN 0
                                                 ELSE IF increment THEN SCALE ELSE -SCALE)
<1> DEFINE g == Adjusted(h, o, increment)
<1>0. /\ SCALE \in Nat \ {0}
      /\ \A p \in Outcomes : h.aged[p] \in Nat /\ h.current[p] \in Nat
      BY TrustScoreAssumption DEF TrustHistory, Counts
<1>1. ASSUME NEW n \in Int, h.current[o] + n >= 0,
             g = [h EXCEPT !.current = [h.current EXCEPT ![o] = h.current[o] + n]]
      PROVE  /\ g \in TrustHistory /\ g.epoch = h.epoch
             /\ \A p \in Outcomes : Held(g, p) = Held(h, p) + (IF p # o THEN 0 ELSE SCALE * n)
      <2> DEFINE c == [h.current EXCEPT ![o] = h.current[o] + n]
      <2>1. /\ c \in Counts
            /\ \A p \in Outcomes : c[p] = h.current[p] + (IF p = o THEN n ELSE 0)
            BY <1>0, <1>1 DEF TrustHistory, Counts
      <2>2. g = [h EXCEPT !.current = c] BY <1>1
      <2> HIDE DEF c, g
      <2>3. g.epoch = h.epoch /\ g.aged = h.aged /\ g.current = c /\ g \in TrustHistory
            BY <2>1, <2>2 DEF TrustHistory
      <2>4. SCALE * (h.current[o] + n) = SCALE * h.current[o] + SCALE * n BY <1>0
      <2> QED BY <1>0, <2>1, <2>3, <2>4 DEF Held
<1>2. CASE increment \/ h.current[o] > 0
      <2> DEFINE n == IF increment THEN 1 ELSE -1
      <2>1. n \in Int /\ h.current[o] + n >= 0 BY <1>0, <1>2
      <2>2. g = [h EXCEPT !.current = [h.current EXCEPT ![o] = h.current[o] + n]]
            BY <1>2 DEF Adjusted
      <2>3. SCALE * n = IF increment THEN SCALE ELSE -SCALE BY <1>0
      <2> HIDE DEF n, g
      <2>4. \A p \in Outcomes : Held(g, p) = Held(h, p) + (IF p # o THEN 0 ELSE SCALE * n)
            BY <1>1, <2>1, <2>2
      <2>5. g \in TrustHistory /\ g.epoch = h.epoch BY <1>1, <2>1, <2>2
      <2> QED BY <2>3, <2>4, <2>5 DEF g
<1>3. CASE ~ increment /\ ~ (h.current[o] > 0)
      <2>0. h.current[o] = 0 /\ h.aged[o] >= SCALE
            <3>1. h.current[o] = 0 BY <1>0, <1>3
            <3> QED BY <1>0, <1>3, <3>1 DEF Held
      <2>1. g = [h EXCEPT !.aged = [h.aged EXCEPT ![o] = h.aged[o] - SCALE]]
            BY <1>0, <1>3, <2>0 DEF Adjusted
      <2>2. g.epoch = h.epoch /\ g.current = h.current /\ g \in TrustHistory
            /\ \A p \in Outcomes : g.aged[p] = h.aged[p] - (IF p = o THEN SCALE ELSE 0)
            BY <1>0, <2>0, <2>1 DEF TrustHistory, Counts
      <2> HIDE DEF g
      <2>3. ASSUME NEW p \in Outcomes
            PROVE  Held(g, p) = Held(h, p) + (IF p # o THEN 0 ELSE -SCALE)
            <3>1. SCALE * h.current[p] \in Nat /\ h.aged[p] \in Nat /\ SCALE \in Nat BY <1>0
            <3>2. Held(g, p) = g.aged[p] + SCALE * h.current[p] BY <2>2 DEF Held
            <3>3. g.aged[p] = h.aged[p] - (IF p = o THEN SCALE ELSE 0) BY <2>2
            <3> QED BY <3>1, <3>2, <3>3 DEF Held
      <2> QED BY <1>3, <2>2, <2>3 DEF g
<1> QED BY <1>2, <1>3

\* The outcomes that may still be disputed.
Fresh(o) == {i \in Live(o) : Disputable(i)}

HeldNow(o) == IF history = None THEN 0 ELSE Held(history, o)

DecayInv ==
    /\ DecayTypeOK
    /\ history = None => \A i \in 1 .. MaxOutcomes : scored[i] = None
    /\ history # None =>
           /\ history.epoch <= Bucket(ledger)
           /\ \A i \in 1 .. MaxOutcomes :
                  scored[i] # None => Bucket(scored[i].at) <= history.epoch
    /\ \A o \in Outcomes :
           /\ HeldNow(o) <= SCALE * Cardinality(Live(o))
           /\ HeldNow(o) >= SCALE * Cardinality(Fresh(o))

LEMMA OutcomesAreFinite == IsFiniteSet(1 .. MaxOutcomes)
<1>1. MaxOutcomes \in Nat BY DecayAssumption
<1> QED BY <1>1, FS_Interval

\* Sets of commitments can be counted.
LEMMA LiveIsFinite ==
    ASSUME NEW o
    PROVE  /\ IsFiniteSet(Live(o)) /\ Cardinality(Live(o)) \in Nat
           /\ IsFiniteSet(Fresh(o)) /\ Cardinality(Fresh(o)) \in Nat
<1>1. IsFiniteSet(1 .. MaxOutcomes) BY OutcomesAreFinite
<1>2. Live(o) \in SUBSET (1 .. MaxOutcomes) /\ Fresh(o) \in SUBSET (1 .. MaxOutcomes)
      BY DEF Live, Fresh
<1> QED BY <1>1, <1>2, FS_Subset, FS_CardinalityType

\* While an outcome may be disputed, nothing of its issuer has decayed.
LEMMA FreshIsWhole ==
    ASSUME DecayInv, NEW i \in 1 .. MaxOutcomes, Disputable(i)
    PROVE  history # None /\ \A o \in Outcomes : Weight(o) = HeldNow(o)
<1>1. /\ scored[i] # None /\ scored[i] \in Scored /\ scored[i].at \in Nat
      /\ ledger <= scored[i].at + DisputeWindow
      BY DEF Disputable, DecayInv, DecayTypeOK, Scored
<1>2. /\ history # None /\ history \in TrustHistory /\ history.epoch \in Nat
      /\ history.epoch <= Bucket(ledger) /\ Bucket(scored[i].at) <= history.epoch
      BY <1>1 DEF DecayInv, DecayTypeOK, TrustHistory
<1>3. /\ Bucket(ledger) \in Nat /\ Bucket(scored[i].at) \in Nat
      /\ Bucket(ledger) <= Bucket(scored[i].at) + DisputeWindow \div BUCKET_SIZE_LEDGERS + 1
      BY <1>1, BucketType, DecayAssumption DEF DecayInv, DecayTypeOK
<1>4. Bucket(ledger) - history.epoch \in Nat /\ Bucket(ledger) - history.epoch < HALF_LIFE_BUCKETS
      <2>1. DisputeWindow \div BUCKET_SIZE_LEDGERS \in Int /\ HALF_LIFE_BUCKETS \in Nat
            BY DecayAssumption, TrustScoreAssumption
      <2> QED BY <1>2, <1>3, <2>1, DecayAssumption
<1>5. decay_steps(Bucket(ledger) - history.epoch) = 0 BY <1>4, StepsType
<1>6. ASSUME NEW o \in Outcomes PROVE Weight(o) = HeldNow(o)
      <2>1. history.aged[o] \in Nat /\ history.current[o] \in Nat
            BY <1>2 DEF TrustHistory, Counts
      <2>2. Weight(o) = Decayed(history.aged[o], history.current[o], 0)
            BY <1>2, <1>5 DEF Weight, EffectiveValue
      <2>3. Decayed(history.aged[o], history.current[o], 0) = Held(history, o)
            BY <2>1, DecayTakes DEF Held
      <2> QED BY <1>2, <2>2, <2>3 DEF HeldNow
<1> QED BY <1>2, <1>6

\* What counts is an amount, and at most what is held.
LEMMA WeightIsHeld ==
    ASSUME DecayInv, NEW o \in Outcomes
    PROVE  Weight(o) \in Nat /\ HeldNow(o) \in Nat /\ Weight(o) <= HeldNow(o)
<1>1. CASE history = None BY <1>1 DEF Weight, HeldNow
<1>2. CASE history # None
      <2>1. /\ history \in TrustHistory /\ history.epoch \in Nat /\ history.epoch <= Bucket(ledger)
            /\ ledger \in Nat
            BY <1>2 DEF DecayInv, DecayTypeOK, TrustHistory
      <2>2. Bucket(ledger) - history.epoch \in Nat BY <2>1, BucketType
      <2>3. history.aged[o] \in Nat /\ history.current[o] \in Nat
            BY <2>1 DEF TrustHistory, Counts
      <2> DEFINE s == decay_steps(Bucket(ledger) - history.epoch)
      <2>4. s \in Nat BY <2>2, StepsType
      <2>5. Weight(o) = Decayed(history.aged[o], history.current[o], s)
            BY <1>2 DEF Weight, EffectiveValue
      <2> HIDE DEF s
      <2>6. HeldNow(o) = Held(history, o) /\ Held(history, o) \in Nat
            BY <1>2, <2>3, TrustScoreAssumption DEF Held, HeldNow
      <2>7. /\ Decayed(history.aged[o], history.current[o], s) \in Nat
            /\ Decayed(history.aged[o], history.current[o], s) <= Held(history, o)
            BY <2>3, <2>4, DecayTakes DEF Held
      <2> QED BY <2>5, <2>6, <2>7
<1> QED BY <1>1, <1>2

LEMMA WeightsStayBounded == DecayInv => WeightsAreBounded
<1> SUFFICES ASSUME DecayInv, NEW o \in Outcomes
             PROVE  /\ Weight(o) <= SCALE * Cardinality(Live(o))
                    /\ Weight(o) >= SCALE * Cardinality(Fresh(o))
    BY DEF WeightsAreBounded, Fresh
<1>0. SCALE \in Nat /\ Cardinality(Live(o)) \in Nat /\ Cardinality(Fresh(o)) \in Nat
      BY LiveIsFinite, TrustScoreAssumption
<1>1. /\ HeldNow(o) <= SCALE * Cardinality(Live(o))
      /\ HeldNow(o) >= SCALE * Cardinality(Fresh(o))
      BY DEF DecayInv
<1>2. Weight(o) \in Nat /\ HeldNow(o) \in Nat /\ Weight(o) <= HeldNow(o) BY WeightIsHeld
<1>3. Weight(o) <= SCALE * Cardinality(Live(o))
      <2>1. SCALE * Cardinality(Live(o)) \in Nat BY <1>0
      <2> QED BY <1>1, <1>2, <2>1
<1>4. CASE Fresh(o) = {}
      <2>1. SCALE * Cardinality(Fresh(o)) = 0 BY <1>0, <1>4, FS_EmptySet
      <2> QED BY <1>2, <1>3, <2>1
<1>5. CASE Fresh(o) # {}
      <2>1. PICK i \in Fresh(o) : TRUE BY <1>5
      <2>2. i \in 1 .. MaxOutcomes /\ Disputable(i) BY <2>1 DEF Fresh, Live
      <2>3. Weight(o) = HeldNow(o) BY <2>2, FreshIsWhole
      <2> QED BY <1>1, <1>3, <2>3
<1> QED BY <1>4, <1>5

\* A write makes the counts what they are worth, moved by the outcome that is written.
LEMMA WritingMoves ==
    ASSUME DecayInv, NEW o \in Outcomes, NEW increment \in BOOLEAN, Write(o, increment),
           increment \/ Weight(o) >= SCALE, ledger' = ledger
    PROVE  /\ history' \in TrustHistory /\ history'.epoch = Bucket(ledger)
           /\ \A p \in Outcomes :
                  /\ HeldNow(p)' = Weight(p) + (IF p # o THEN 0 ELSE IF increment THEN SCALE ELSE -SCALE)
                  /\ Weight(p)' = HeldNow(p)'
<1> DEFINE f == FoldedHistory(history, Bucket(ledger))
<1>0. /\ ledger \in Nat /\ history \in TrustHistory \cup {None}
      /\ history # None => history.epoch <= Bucket(ledger)
      BY DEF DecayInv, DecayTypeOK
<1>1. /\ f \in TrustHistory /\ f.epoch = Bucket(ledger)
      /\ \A p \in Outcomes : Held(f, p) = Weight(p)
      BY <1>0, FoldingKeeps DEF Weight
<1>2. history' = Adjusted(f, o, increment) BY DEF Write, UpdatedHistory
<1> HIDE DEF f
<1>3. /\ history' \in TrustHistory /\ history'.epoch = f.epoch
      /\ \A p \in Outcomes :
             Held(history', p) = Held(f, p) + (IF p # o THEN 0
                                               ELSE IF increment THEN SCALE ELSE -SCALE)
      <2>1. increment \/ Held(f, o) >= SCALE BY <1>1
      <2> QED BY <1>1, <1>2, <2>1, AdjustingMoves
<1>4. history' # None BY <1>3, NoneIsNoHistory
<1>5. \A p \in Outcomes :
          HeldNow(p)' = Weight(p) + (IF p # o THEN 0 ELSE IF increment THEN SCALE ELSE -SCALE)
      BY <1>1, <1>3, <1>4 DEF HeldNow, Held
<1>6. ASSUME NEW p \in Outcomes PROVE Weight(p)' = HeldNow(p)'
      <2>1. history'.aged[p] \in Nat /\ history'.current[p] \in Nat
            BY <1>3 DEF TrustHistory, Counts
      <2>2. Bucket(ledger') - history'.epoch = 0
            <3>1. Bucket(ledger) \in Nat BY <1>0, BucketType
            <3> QED BY <1>1, <1>3, <3>1
      <2>3. decay_steps(0) = 0 BY StepsType, TrustScoreAssumption
      <2>4. Weight(p)' = Decayed(history'.aged[p], history'.current[p], 0)
            BY <1>4, <2>2, <2>3 DEF Weight, EffectiveValue
      <2>5. Decayed(history'.aged[p], history'.current[p], 0) = Held(history', p)
            BY <2>1, DecayTakes DEF Held
      <2>6. HeldNow(p)' = Held(history', p) BY <1>4 DEF HeldNow, Held
      <2> QED BY <2>4, <2>5, <2>6
<1> QED BY <1>1, <1>3, <1>5, <1>6

\* What the entries of a step say of what is held: the sets it counts move as it does.
Moves(o, n) ==
    \A p \in Outcomes :
        /\ Cardinality(Live(p)') = Cardinality(Live(p)) + (IF p = o THEN n ELSE 0)
        /\ Cardinality(Fresh(p)') <= Cardinality(Fresh(p)) + (IF p = o THEN n ELSE 0)

LEMMA BoundsMove ==
    ASSUME DecayInv, NEW o \in Outcomes, NEW increment \in BOOLEAN, Write(o, increment),
           increment \/ Weight(o) >= SCALE, ledger' = ledger,
           Moves(o, IF increment THEN 1 ELSE -1), DecayTypeOK',
           \A i \in 1 .. MaxOutcomes :
               scored'[i] # None => \/ scored'[i].at = ledger
                                    \/ scored[i] # None /\ scored'[i].at = scored[i].at
    PROVE  DecayInv'
<1> DEFINE n == IF increment THEN 1 ELSE -1
<1>0. SCALE \in Nat \ {0} /\ ledger \in Nat
      BY TrustScoreAssumption DEF DecayInv, DecayTypeOK
<1>1. /\ history' \in TrustHistory /\ history'.epoch = Bucket(ledger)
      /\ \A p \in Outcomes :
             HeldNow(p)' = Weight(p) + (IF p # o THEN 0 ELSE IF increment THEN SCALE ELSE -SCALE)
      BY WritingMoves
<1>2. history' # None BY <1>1, NoneIsNoHistory
<1>3. ASSUME NEW i \in 1 .. MaxOutcomes, scored'[i] # None
      PROVE  Bucket(scored'[i].at) <= history'.epoch
      <2>1. Bucket(ledger) \in Nat BY <1>0, BucketType
      <2>2. CASE scored'[i].at = ledger BY <1>1, <2>1, <2>2
      <2>3. CASE scored[i] # None /\ scored'[i].at = scored[i].at
            <3>1. scored[i] \in Scored /\ scored[i].at \in Nat
                  BY <2>3 DEF DecayInv, DecayTypeOK, Scored
            <3>2. history # None /\ history \in TrustHistory BY <2>3 DEF DecayInv, DecayTypeOK
            <3>3. /\ Bucket(scored[i].at) <= history.epoch /\ history.epoch <= Bucket(ledger)
                  BY <2>3, <3>2 DEF DecayInv
            <3>4. history.epoch \in Nat BY <3>2 DEF TrustHistory
            <3>5. Bucket(scored[i].at) \in Nat BY <3>1, BucketType
            <3> QED BY <1>1, <2>1, <2>3, <3>3, <3>4, <3>5
      <2> QED BY <1>3, <2>2, <2>3
<1>4. ASSUME NEW p \in Outcomes
      PROVE  /\ HeldNow(p)' <= SCALE * Cardinality(Live(p)')
             /\ HeldNow(p)' >= SCALE * Cardinality(Fresh(p)')
      <2> DEFINE d == IF p = o THEN n ELSE 0
                 a == Cardinality(Live(p))
                 b == Cardinality(Fresh(p))
                 c == Cardinality(Fresh(p)')
      <2>1. a \in Nat /\ b \in Nat /\ c \in Nat
            <3>1. IsFiniteSet(1 .. MaxOutcomes) BY OutcomesAreFinite
            <3>2. Fresh(p)' \in SUBSET (1 .. MaxOutcomes) BY DEF Live, Fresh
            <3>3. c \in Nat BY <3>1, <3>2, FS_Subset, FS_CardinalityType
            <3> QED BY <3>3, LiveIsFinite
      <2>2. Weight(p) \in Nat /\ Weight(p) <= SCALE * a /\ Weight(p) >= SCALE * b
            BY WeightIsHeld, WeightsStayBounded DEF WeightsAreBounded, Fresh
      <2>3. Cardinality(Live(p)') = a + d /\ c <= b + d BY DEF Moves
      <2>4. HeldNow(p)' = Weight(p) + SCALE * d BY <1>0, <1>1
      <2> HIDE DEF a, b, c
      <2>5. d \in Int BY DEF n
      <2> HIDE DEF d
      <2>6. SCALE * (a + d) = SCALE * a + SCALE * d /\ SCALE * (b + d) = SCALE * b + SCALE * d
            BY <1>0, <2>1, <2>5
      <2>7. SCALE * c <= SCALE * (b + d) BY <1>0, <2>1, <2>3, <2>5
      <2>8. {SCALE * a, SCALE * b, SCALE * c, SCALE * d} \subseteq Int BY <1>0, <2>1, <2>5
      <2> QED BY <2>2, <2>3, <2>4, <2>6, <2>7, <2>8 DEF c
<1>5. \A p \in Outcomes : /\ HeldNow(p)' <= SCALE * Cardinality(Live(p))'
                          /\ HeldNow(p)' >= SCALE * Cardinality(Fresh(p))'
      BY <1>4
<1>6. Bucket(ledger) \in Nat /\ history'.epoch <= Bucket(ledger)
      BY <1>0, <1>1, BucketType
<1> QED BY <1>2, <1>3, <1>5, <1>6 DEF DecayInv

\* An outcome that is scored joins those that count for it, and no others.
LEMMA ScoringMoves ==
    ASSUME NEW o \in Outcomes, NEW i \in 1 .. MaxOutcomes, ledger' = ledger,
           \A p \in Outcomes : i \notin Live(p),
           \A j \in (1 .. MaxOutcomes) \ {i} : scored'[j] = scored[j],
           scored'[i] # None, scored'[i].outcome = o, scored'[i].state # "disputed"
    PROVE  Moves(o, 1)
<1> SUFFICES ASSUME NEW p \in Outcomes
             PROVE  /\ Cardinality(Live(p)') = Cardinality(Live(p)) + (IF p = o THEN 1 ELSE 0)
                    /\ Cardinality(Fresh(p)') <= Cardinality(Fresh(p)) + (IF p = o THEN 1 ELSE 0)
    BY DEF Moves
<1>1. /\ IsFiniteSet(Live(p)) /\ Cardinality(Live(p)) \in Nat
      /\ IsFiniteSet(Fresh(p)) /\ Cardinality(Fresh(p)) \in Nat
      BY LiveIsFinite
<1>2. i \notin Live(p) /\ i \notin Fresh(p) BY DEF Fresh
<1>3. ASSUME NEW j \in 1 .. MaxOutcomes, j # i PROVE Disputable(j)' <=> Disputable(j)
      BY <1>3 DEF Disputable
<1>4. CASE p = o
      <2>1. Live(p)' = Live(p) \cup {i} BY <1>4 DEF Live
      <2>2. Fresh(p)' \subseteq Fresh(p) \cup {i} BY <1>3, <2>1 DEF Fresh, Live
      <2>3. /\ Cardinality(Live(p) \cup {i}) = Cardinality(Live(p)) + 1
            /\ Cardinality(Fresh(p) \cup {i}) = Cardinality(Fresh(p)) + 1
            /\ IsFiniteSet(Fresh(p) \cup {i})
            BY <1>1, <1>2, FS_AddElement
      <2>4. Cardinality(Fresh(p)') <= Cardinality(Fresh(p)) + 1 BY <2>2, <2>3, FS_Subset
      <2> QED BY <1>4, <2>1, <2>3, <2>4
<1>5. CASE p # o
      <2>1. Live(p)' = Live(p) BY <1>2, <1>5 DEF Live
      <2>2. Fresh(p)' = Fresh(p)
            <3>1. \A j \in Live(p) : j \in 1 .. MaxOutcomes /\ j # i BY <1>2 DEF Live
            <3>2. \A j \in Live(p) : Disputable(j)' <=> Disputable(j) BY <1>3, <3>1
            <3> QED BY <2>1, <3>2 DEF Fresh
      <2> QED BY <1>1, <1>5, <2>1, <2>2
<1> QED BY <1>4, <1>5

\* An outcome that is retracted leaves them.
LEMMA RetractionMoves ==
    ASSUME NEW o \in Outcomes, NEW i \in Fresh(o), ledger' = ledger,
           \A j \in (1 .. MaxOutcomes) \ {i} : scored'[j] = scored[j],
           scored'[i] # None, scored'[i].state = "disputed"
    PROVE  Moves(o, -1)
<1> SUFFICES ASSUME NEW p \in Outcomes
             PROVE  /\ Cardinality(Live(p)') = Cardinality(Live(p)) + (IF p = o THEN -1 ELSE 0)
                    /\ Cardinality(Fresh(p)') <= Cardinality(Fresh(p)) + (IF p = o THEN -1 ELSE 0)
    BY DEF Moves
<1>1. /\ IsFiniteSet(Live(p)) /\ Cardinality(Live(p)) \in Nat
      /\ IsFiniteSet(Fresh(p)) /\ Cardinality(Fresh(p)) \in Nat
      BY LiveIsFinite
<1>2. i \in 1 .. MaxOutcomes /\ i \in Live(o) /\ scored[i].outcome = o BY DEF Fresh, Live
<1>3. CASE p = o
      <2>1. Live(p)' = Live(p) \ {i} BY <1>3 DEF Live
      <2>2. Fresh(p)' = Fresh(p) \ {i} BY <2>1 DEF Fresh, Disputable, Live
      <2>3. /\ Cardinality(Live(p) \ {i}) = Cardinality(Live(p)) - 1
            /\ Cardinality(Fresh(p) \ {i}) = Cardinality(Fresh(p)) - 1
            BY <1>1, <1>2, <1>3, FS_RemoveElement
      <2> QED BY <1>1, <1>3, <2>1, <2>2, <2>3
<1>4. CASE p # o
      <2>1. Live(p)' = Live(p) BY <1>2, <1>4 DEF Live
      <2>2. Fresh(p)' = Fresh(p) BY <1>2, <1>4, <2>1 DEF Fresh, Disputable, Live
      <2> QED BY <1>1, <1>4, <2>1, <2>2
<1> QED BY <1>3, <1>4

LEMMA AttestingHolds == ASSUME DecayInv, NEW o \in Outcomes, Attests(o) PROVE DecayInv'
<1>1. DecayTypeOK /\ scored \in [1 .. MaxOutcomes -> Scored \cup {None}] /\ ledger \in Nat
      BY DEF DecayInv, DecayTypeOK
<1> DEFINE new == [outcome |-> o, at |-> ledger, state |-> "standing"]
           free == CHOOSE i \in Unused : \A j \in Unused : i <= j
<1>2. free \in Unused
      <2>1. Unused \in SUBSET Nat /\ Unused # {} BY DEF Attests, Unused
      <2>2. \E i \in Unused : \A j \in Unused : i <= j BY <2>1, LeastExists
      <2> QED BY <2>2
<1>3. scored' = [scored EXCEPT ![free] = new] /\ ledger' = ledger /\ Write(o, TRUE)
      BY DEF Attests
<1> HIDE DEF free
<1>4. free \in 1 .. MaxOutcomes /\ scored[free] = None BY <1>2 DEF Unused
<1>5. new \in Scored /\ new # None BY <1>1, NoneIsNoHistory DEF Scored
<1>6. /\ scored' \in [1 .. MaxOutcomes -> Scored \cup {None}] /\ scored'[free] = new
      /\ \A j \in (1 .. MaxOutcomes) \ {free} : scored'[j] = scored[j]
      BY <1>1, <1>3, <1>4, <1>5
<1>7. \A p \in Outcomes : free \notin Live(p) BY <1>4 DEF Live
<1>8. Moves(o, 1) BY <1>3, <1>4, <1>5, <1>6, <1>7, ScoringMoves
<1>9. history' \in TrustHistory BY <1>3, WritingMoves
<1>10. DecayTypeOK' BY <1>1, <1>3, <1>6, <1>9 DEF DecayTypeOK
<1>11. ASSUME NEW j \in 1 .. MaxOutcomes, scored'[j] # None
       PROVE  scored'[j].at = ledger \/ (scored[j] # None /\ scored'[j].at = scored[j].at)
       BY <1>6, <1>11
<1> QED BY <1>3, <1>8, <1>10, <1>11, BoundsMove

\* What a dispute retracts is there to be retracted.
LEMMA DisputeFinds ==
    ASSUME DecayInv, NEW i \in 1 .. MaxOutcomes, Disputable(i)
    PROVE  /\ scored[i] \in Scored /\ scored[i].outcome \in Outcomes
           /\ i \in Fresh(scored[i].outcome)
           /\ Weight(scored[i].outcome) >= SCALE
<1> DEFINE o == scored[i].outcome
<1>1. scored[i] \in Scored /\ o \in Outcomes
      BY DEF DecayInv, DecayTypeOK, Scored, Disputable
<1>2. i \in Fresh(o) BY DEF Fresh, Live, Disputable
<1>3. Cardinality(Fresh(o)) \in Nat /\ Cardinality(Fresh(o)) # 0
      BY <1>2, LiveIsFinite, FS_EmptySet
<1>4. Weight(o) >= SCALE * Cardinality(Fresh(o)) /\ Weight(o) \in Nat
      BY <1>1, WeightsStayBounded, WeightIsHeld DEF WeightsAreBounded, Fresh
<1>5. SCALE * Cardinality(Fresh(o)) >= SCALE * 1 /\ SCALE \in Nat
      BY <1>3, TrustScoreAssumption
<1>6. SCALE * Cardinality(Fresh(o)) \in Nat BY <1>3, <1>5
<1> QED BY <1>1, <1>2, <1>4, <1>5, <1>6

LEMMA DisputingHolds == ASSUME DecayInv, NEW i \in 1 .. MaxOutcomes, Disputes(i) PROVE DecayInv'
<1>1. DecayTypeOK /\ scored \in [1 .. MaxOutcomes -> Scored \cup {None}] /\ ledger \in Nat
      BY DEF DecayInv, DecayTypeOK
<1> DEFINE o == scored[i].outcome
           new == [scored[i] EXCEPT !.state = "disputed"]
<1>2. Disputable(i) /\ ledger' = ledger /\ Write(o, FALSE) /\ scored' = [scored EXCEPT ![i] = new]
      BY DEF Disputes
<1>3. scored[i] \in Scored /\ o \in Outcomes /\ i \in Fresh(o) /\ Weight(o) >= SCALE
      BY <1>2, DisputeFinds
<1>4. new \in Scored /\ new # None /\ new.state = "disputed" /\ new.at = scored[i].at
      BY <1>3, NoneIsNoHistory DEF Scored
<1> HIDE DEF new
<1>5. /\ scored' \in [1 .. MaxOutcomes -> Scored \cup {None}] /\ scored'[i] = new
      /\ \A j \in (1 .. MaxOutcomes) \ {i} : scored'[j] = scored[j]
      BY <1>1, <1>2, <1>4
<1>6. Moves(o, -1) BY <1>2, <1>3, <1>4, <1>5, RetractionMoves
<1>7. history' \in TrustHistory BY <1>2, <1>3, WritingMoves
<1>8. DecayTypeOK' BY <1>1, <1>2, <1>5, <1>7 DEF DecayTypeOK
<1>9. ASSUME NEW j \in 1 .. MaxOutcomes, scored'[j] # None
      PROVE  scored'[j].at = ledger \/ (scored[j] # None /\ scored'[j].at = scored[j].at)
      <2>1. CASE j = i BY <1>2, <1>4, <1>5, <2>1 DEF Disputable
      <2>2. CASE j # i BY <1>5, <1>9, <2>2
      <2> QED BY <2>1, <2>2
<1> HIDE DEF o
<1> QED BY <1>2, <1>3, <1>6, <1>8, <1>9, BoundsMove

LEMMA SettlingHolds ==
    ASSUME DecayInv, NEW i \in 1 .. MaxOutcomes, NEW o \in Outcomes, Settles(i, o) PROVE DecayInv'
<1>1. DecayTypeOK /\ scored \in [1 .. MaxOutcomes -> Scored \cup {None}] /\ ledger \in Nat
      BY DEF DecayInv, DecayTypeOK
<1> DEFINE new == [outcome |-> o, at |-> ledger, state |-> "settled"]
<1>2. /\ ledger' = ledger /\ Write(o, TRUE) /\ scored' = [scored EXCEPT ![i] = new]
      /\ scored[i].state = "disputed"
      BY DEF Settles
<1>3. new \in Scored /\ new # None BY <1>1, NoneIsNoHistory DEF Scored
<1>4. /\ scored' \in [1 .. MaxOutcomes -> Scored \cup {None}] /\ scored'[i] = new
      /\ \A j \in (1 .. MaxOutcomes) \ {i} : scored'[j] = scored[j]
      BY <1>1, <1>2, <1>3
<1>5. \A p \in Outcomes : i \notin Live(p) BY <1>2 DEF Live
<1>6. Moves(o, 1) BY <1>2, <1>3, <1>4, <1>5, ScoringMoves
<1>7. history' \in TrustHistory BY <1>2, WritingMoves
<1>8. DecayTypeOK' BY <1>1, <1>2, <1>4, <1>7 DEF DecayTypeOK
<1>9. ASSUME NEW j \in 1 .. MaxOutcomes, scored'[j] # None
      PROVE  scored'[j].at = ledger \/ (scored[j] # None /\ scored'[j].at = scored[j].at)
      BY <1>4, <1>9
<1> QED BY <1>2, <1>6, <1>8, <1>9, BoundsMove

LEMMA ClosingHolds == ASSUME DecayInv, DecayLedgerCloses PROVE DecayInv'
<1>1. /\ ledger \in Nat /\ ledger' = ledger + 1 /\ ledger' \in Nat
      /\ history' = history /\ scored' = scored
      BY DEF DecayInv, DecayTypeOK, DecayLedgerCloses
<1>2. DecayTypeOK' BY <1>1 DEF DecayInv, DecayTypeOK
<1>3. Bucket(ledger) <= Bucket(ledger') /\ Bucket(ledger) \in Nat /\ Bucket(ledger') \in Nat
      BY <1>1, BucketType
<1>4. history # None => history.epoch \in Nat /\ history.epoch <= Bucket(ledger')
      <2> SUFFICES ASSUME history # None
                   PROVE  history.epoch \in Nat /\ history.epoch <= Bucket(ledger')
          OBVIOUS
      <2>1. history.epoch \in Nat /\ history.epoch <= Bucket(ledger)
            BY DEF DecayInv, DecayTypeOK, TrustHistory
      <2> QED BY <1>3, <2>1
<1>5. ASSUME NEW o \in Outcomes
      PROVE  /\ HeldNow(o)' <= SCALE * Cardinality(Live(o)')
             /\ HeldNow(o)' >= SCALE * Cardinality(Fresh(o)')
      <2>1. Live(o)' = Live(o) BY <1>1 DEF Live
      <2>2. Fresh(o)' \subseteq Fresh(o)
            <3>1. ASSUME NEW i \in 1 .. MaxOutcomes, Disputable(i)' PROVE Disputable(i)
                  <4>1. scored[i] # None /\ scored[i].state = "standing"
                        /\ ledger + 1 <= scored[i].at + DisputeWindow
                        BY <1>1, <3>1 DEF Disputable
                  <4>2. scored[i].at \in Nat /\ DisputeWindow \in Nat
                        BY <4>1, DecayAssumption DEF DecayInv, DecayTypeOK, Scored
                  <4>3. ledger <= scored[i].at + DisputeWindow BY <1>1, <4>1, <4>2
                  <4> QED BY <4>1, <4>3 DEF Disputable
            <3> QED BY <2>1, <3>1 DEF Fresh, Live
      <2>3. /\ IsFiniteSet(Fresh(o)) /\ Cardinality(Fresh(o)) \in Nat
            /\ Cardinality(Live(o)) \in Nat
            BY LiveIsFinite
      <2>4. Cardinality(Fresh(o)') \in Nat /\ Cardinality(Fresh(o)') <= Cardinality(Fresh(o))
            BY <2>2, <2>3, FS_Subset, FS_CardinalityType
      <2>5. SCALE * Cardinality(Fresh(o)') <= SCALE * Cardinality(Fresh(o))
            BY <2>3, <2>4, TrustScoreAssumption
      <2>6. HeldNow(o)' = HeldNow(o) BY <1>1 DEF HeldNow, Held
      <2>7. /\ HeldNow(o) \in Nat /\ HeldNow(o) <= SCALE * Cardinality(Live(o))
            /\ HeldNow(o) >= SCALE * Cardinality(Fresh(o))
            BY WeightIsHeld DEF DecayInv
      <2>8. SCALE * Cardinality(Fresh(o)') \in Nat /\ SCALE * Cardinality(Fresh(o)) \in Nat
            BY <2>3, <2>4, TrustScoreAssumption
      <2> QED BY <2>1, <2>5, <2>6, <2>7, <2>8
<1>6. history' = None => \A i \in 1 .. MaxOutcomes : scored'[i] = None
      BY <1>1 DEF DecayInv
<1>7. history' # None => \A i \in 1 .. MaxOutcomes :
          scored'[i] # None => Bucket(scored'[i].at) <= history'.epoch
      BY <1>1 DEF DecayInv
<1> QED BY <1>1, <1>2, <1>4, <1>5, <1>6, <1>7 DEF DecayInv

LEMMA DecayStarts == DecayInit => DecayInv
<1> SUFFICES ASSUME DecayInit PROVE DecayInv OBVIOUS
<1>1. DecayTypeOK BY DEF DecayInit, DecayTypeOK
<1>2. ASSUME NEW o \in Outcomes
      PROVE  /\ HeldNow(o) <= SCALE * Cardinality(Live(o))
             /\ HeldNow(o) >= SCALE * Cardinality(Fresh(o))
      <2>1. Live(o) = {} /\ Fresh(o) = {} /\ HeldNow(o) = 0
            BY DEF DecayInit, Live, Fresh, HeldNow
      <2> QED BY <2>1, FS_EmptySet, TrustScoreAssumption
<1> QED BY <1>1, <1>2 DEF DecayInit, DecayInv

LEMMA DecayHolds == DecayInv /\ [DecayNext]_decayVars => DecayInv'
<1> SUFFICES ASSUME DecayInv, [DecayNext]_decayVars PROVE DecayInv' OBVIOUS
<1>1. ASSUME NEW o \in Outcomes, Attests(o) PROVE DecayInv' BY <1>1, AttestingHolds
<1>2. ASSUME NEW i \in 1 .. MaxOutcomes, Disputes(i) PROVE DecayInv' BY <1>2, DisputingHolds
<1>3. ASSUME NEW i \in 1 .. MaxOutcomes, NEW o \in Outcomes, Settles(i, o) PROVE DecayInv'
      BY <1>3, SettlingHolds
<1>4. CASE DecayLedgerCloses BY <1>4, ClosingHolds
<1>5. CASE UNCHANGED decayVars
      BY <1>5 DEF decayVars, DecayInv, DecayTypeOK, HeldNow, Held, Live, Fresh, Disputable
<1> QED BY <1>1, <1>2, <1>3, <1>4, <1>5 DEF DecayNext

-----------------------------------------------------------------------------
LEMMA QuotientGrows ==
    ASSUME NEW x \in Int, NEW y \in Int, x <= y
    PROVE  x \div SCALE \in Int /\ y \div SCALE \in Int /\ x \div SCALE <= y \div SCALE
<1>0. SCALE \in Nat \ {0} BY TrustScoreAssumption
<1> DEFINE p == x \div SCALE
           q == y \div SCALE
<1>1. /\ p \in Int /\ q \in Int /\ SCALE * p <= x /\ y < SCALE * q + SCALE
      BY <1>0
<1> HIDE DEF p, q
<1>2. CASE p >= q + 1
      <2>1. SCALE * p >= SCALE * (q + 1) BY <1>0, <1>1, <1>2
      <2>2. SCALE * (q + 1) = SCALE * q + SCALE BY <1>0, <1>1
      <2>3. SCALE * p \in Int /\ SCALE * q \in Int BY <1>0, <1>1
      <2> QED BY <1>0, <1>1, <2>1, <2>2, <2>3
<1> QED BY <1>1, <1>2 DEF p, q

Clamped(x, y) == Clamp(x, 0, 100) <= Clamp(y, 0, 100)

LEMMA ClampGrows == ASSUME NEW x \in Int, NEW y \in Int, x <= y PROVE Clamped(x, y)
BY DEF Clamp, Clamped

\* What the score weighs up.
Numerator(f, l, b) ==
    BASE_SCORE * SCALE + FULFILLED_WEIGHT * f - LATE_WEIGHT * l - BREACH_WEIGHT * b

\* The score is that of the weights, also of an issuer without a history.
LEMMA ScoreOfWeights ==
    ASSUME DecayInv
    PROVE  Score(history, ledger) =
               Clamp(Numerator(Weight("Fulfilled"), Weight("Late"), Weight("Breached")) \div SCALE,
                     0, 100)
<1>1. CASE history # None BY <1>1 DEF Score, Weight, Numerator
<1>2. CASE history = None
      <2>1. Numerator(0, 0, 0) = BASE_SCORE * SCALE
            BY TrustScoreAssumption DEF Numerator, BASE_SCORE, FULFILLED_WEIGHT, LATE_WEIGHT, BREACH_WEIGHT
      <2>2. (BASE_SCORE * SCALE) \div SCALE = BASE_SCORE
            BY ScaledDown, TrustScoreAssumption DEF BASE_SCORE
      <2>3. Clamp(BASE_SCORE, 0, 100) = BASE_SCORE BY DEF Clamp, BASE_SCORE
      <2>4. Weight("Fulfilled") = 0 /\ Weight("Late") = 0 /\ Weight("Breached") = 0
            BY <1>2 DEF Weight
      <2> QED BY <1>2, <2>1, <2>2, <2>3, <2>4 DEF Score
<1> QED BY <1>1, <1>2

LEMMA AttestingScores ==
    ASSUME DecayInv, NEW o \in Outcomes, Attests(o)
    PROVE  IF o = "Fulfilled" THEN Score(history', ledger) >= Score(history, ledger)
           ELSE Score(history', ledger) <= Score(history, ledger)
<1>1. ledger' = ledger /\ Write(o, TRUE) BY DEF Attests
<1>2. /\ history' \in TrustHistory
      /\ \A p \in Outcomes : Weight(p)' = Weight(p) + (IF p # o THEN 0 ELSE SCALE)
      BY <1>1, WritingMoves
<1>3. /\ Weight("Fulfilled") \in Nat /\ Weight("Late") \in Nat /\ Weight("Breached") \in Nat
      /\ SCALE \in Nat
      BY WeightIsHeld, TrustScoreAssumption DEF Outcomes
<1> DEFINE before == Numerator(Weight("Fulfilled"), Weight("Late"), Weight("Breached"))
           after == Numerator(Weight("Fulfilled")', Weight("Late")', Weight("Breached")')
<1>4. Score(history, ledger) = Clamp(before \div SCALE, 0, 100) BY ScoreOfWeights
<1>5. Score(history', ledger) = Clamp(after \div SCALE, 0, 100)
      <2>1. history' # None BY <1>2, NoneIsNoHistory
      <2>2. \A p : Weight(p)' = EffectiveValue(history', p, ledger) BY <1>1, <2>1 DEF Weight
      <2> QED BY <2>1, <2>2 DEF Score, Numerator
<1>6. before \in Int /\ after \in Int
      /\ IF o = "Fulfilled" THEN before <= after ELSE after <= before
      <2>1. /\ Weight("Fulfilled")' = Weight("Fulfilled") + (IF "Fulfilled" # o THEN 0 ELSE SCALE)
            /\ Weight("Late")' = Weight("Late") + (IF "Late" # o THEN 0 ELSE SCALE)
            /\ Weight("Breached")' = Weight("Breached") + (IF "Breached" # o THEN 0 ELSE SCALE)
            BY <1>2 DEF Outcomes
      <2> QED BY <1>3, <2>1 DEF Numerator, BASE_SCORE, FULFILLED_WEIGHT, LATE_WEIGHT, BREACH_WEIGHT
<1> HIDE DEF before, after
<1>7. CASE o = "Fulfilled"
      <2>1. Clamped(before \div SCALE, after \div SCALE) BY <1>6, <1>7, QuotientGrows, ClampGrows
      <2> QED BY <1>4, <1>5, <1>7, <2>1 DEF Clamped, Clamp
<1>8. CASE o # "Fulfilled"
      <2>1. Clamped(after \div SCALE, before \div SCALE) BY <1>6, <1>8, QuotientGrows, ClampGrows
      <2> QED BY <1>4, <1>5, <1>8, <2>1 DEF Clamped, Clamp
<1> QED BY <1>7, <1>8

\* The trust of an issuer, for any sizes of buckets and half-lives and any number of
\* outcomes: no outcome weighs more than one whole, none that may be disputed has decayed,
\* a retraction takes back what was given, and an outcome moves the score its own way only.
THEOREM OutcomesStayWeighed == DecaySpec => OutcomesWeighRight
<1>1. DecaySpec => []DecayInv BY DecayStarts, DecayHolds, PTL DEF DecaySpec
<1>2. DecayInv /\ [DecayNext]_decayVars =>
      [\A i \in 1 .. MaxOutcomes :
         Disputes(i) => \A o \in Outcomes :
             Weight(o)' = Weight(o) - (IF o = scored[i].outcome THEN SCALE ELSE 0)]_decayVars
      <2> SUFFICES ASSUME DecayInv, NEW i \in 1 .. MaxOutcomes, Disputes(i), NEW o \in Outcomes
                   PROVE  Weight(o)' = Weight(o) - (IF o = scored[i].outcome THEN SCALE ELSE 0)
          OBVIOUS
      <2>1. Disputable(i) /\ Write(scored[i].outcome, FALSE) /\ ledger' = ledger BY DEF Disputes
      <2>2. scored[i].outcome \in Outcomes /\ Weight(scored[i].outcome) >= SCALE
            BY <2>1, DisputeFinds
      <2>3. Weight(o)' = Weight(o) + (IF o # scored[i].outcome THEN 0 ELSE -SCALE)
            BY <2>1, <2>2, WritingMoves
      <2>4. Weight(o) \in Nat /\ SCALE \in Nat BY WeightIsHeld, TrustScoreAssumption
      <2> QED BY <2>3, <2>4
<1>3. DecayInv /\ [DecayNext]_decayVars =>
      [\A o \in Outcomes : Attests(o) =>
         LET before == Score(history, ledger)
             after == Score(history', ledger)
         IN  IF o = "Fulfilled" THEN after >= before ELSE after <= before]_decayVars
      BY AttestingScores
<1>4. DecaySpec => RetractionIsExact
      BY <1>1, <1>2, PTL DEF DecaySpec, RetractionIsExact
<1>5. DecaySpec => ScoreFollowsOutcomes
      BY <1>1, <1>3, PTL DEF DecaySpec, ScoreFollowsOutcomes
<1> QED BY <1>1, <1>4, <1>5, WeightsStayBounded, PTL DEF OutcomesWeighRight

-----------------------------------------------------------------------------
(* Governance: the timelock and the registry it alone can upgrade.         *)

\* A queued proposal is a full record; only ids never handed out hold none.
LEMMA StoredProposal ==
    ASSUME TimelockTypeOK, NEW id \in ProposalIds, proposals[id].state # "Absent"
    PROVE  proposals[id] \in Proposal
BY DEF TimelockTypeOK, NoProposal

\* What a step of the queue does to the proposals: one is queued with a window that
\* a valid delay gives, or one that was queued becomes executed or cancelled.
Queues ==
    /\ nextProposal \in ProposalIds
    /\ nextProposal' = nextProposal + 1
    /\ admin \in Accounts
    /\ \E action \in Actions :
         proposals' = [proposals EXCEPT ![nextProposal] =
                         [action |-> action, proposer |-> admin, admin_epoch |-> epoch,
                          queued_at |-> clock, eta |-> clock + delay,
                          expires_at |-> clock + delay + GRACE_PERIOD_SECONDS,
                          state |-> "Queued"]]

Closes ==
    /\ nextProposal' = nextProposal
    /\ \E id \in ProposalIds, s \in {"Executed", "Cancelled"} :
         /\ proposals[id].state = "Queued"
         /\ proposals' = [proposals EXCEPT ![id].state = s]

\* The administration during such a step: nothing but the queue moves.
Administration == <<clock, rolesVars, delay>>

\* Every step of the composition either moves the queue as above and leaves the
\* administration alone, or leaves the queue alone.
LEMMA QueueSteps ==
    ASSUME TimelockTypeOK, [GovernanceNext]_govVars
    PROVE  \/ UNCHANGED queueVars
           \/ UNCHANGED Administration /\ (Queues \/ Closes)
<1> USE DEF timelockVars, queueVars, Administration
<1>1. CASE Govern
  <2>1. ASSUME NEW a \in Accounts, NEW action \in Actions, Queue(a, action)
        PROVE  UNCHANGED Administration /\ Queues
    <3>1. nextProposal \in ProposalIds
      BY <2>1, TimelockAssumption DEF Queue, TimelockTypeOK, ProposalIds
    <3> QED BY <2>1, <3>1 DEF Queue, Queues
  <2>2. ASSUME NEW a \in Accounts, NEW id \in ProposalIds, Cancel(a, id)
        PROVE  UNCHANGED Administration /\ Closes
    BY <2>2 DEF Cancel, Closes
  <2>3. CASE \E a, g \in Accounts, d \in Delays : Initialize(a, g, d)
    BY <2>3 DEF Initialize
  <2>4. CASE \E a \in Accounts : TransferAdmin(a) \/ TransferGuardian(a)
    BY <2>4 DEF TransferAdmin, TransferGuardian
  <2>5. CASE (\E d \in Delays : SetDelay(d)) \/ LedgerCloses
    BY <2>5 DEF SetDelay, LedgerCloses
  <2> QED BY <1>1, <2>1, <2>2, <2>3, <2>4, <2>5 DEF Govern
<1>2. ASSUME NEW a \in Accounts, NEW id \in ProposalIds, ExecuteProposal(a, id)
      PROVE  UNCHANGED Administration /\ Closes
  BY <1>2 DEF ExecuteProposal, Execute, Closes
<1>3. CASE UNCHANGED timelockVars
  BY <1>3
<1> QED BY <1>1, <1>2, <1>3 DEF GovernanceNext, govVars

-----------------------------------------------------------------------------
\* A record queued with a valid delay is well typed.
LEMMA QueuedType ==
    ASSUME TimelockTypeOK, admin \in Accounts, NEW action \in Actions
    PROVE  [action |-> action, proposer |-> admin, admin_epoch |-> epoch,
            queued_at |-> clock, eta |-> clock + delay,
            expires_at |-> clock + delay + GRACE_PERIOD_SECONDS,
            state |-> "Queued"] \in Proposal
BY TimelockAssumption DEF TimelockTypeOK, Proposal

\* The queue keeps its type.
LEMMA QueueType ==
    ASSUME TimelockTypeOK, [GovernanceNext]_govVars
    PROVE  /\ nextProposal' \in 1 .. (MaxProposals + 1)
           /\ proposals' \in [ProposalIds -> Proposal \cup {NoProposal}]
<1>1. CASE UNCHANGED queueVars
  BY <1>1 DEF TimelockTypeOK, queueVars
<1>2. CASE Queues
  <2>1. nextProposal' \in 1 .. (MaxProposals + 1)
    BY <1>2, TimelockAssumption DEF Queues, ProposalIds
  <2>2. proposals' \in [ProposalIds -> Proposal \cup {NoProposal}]
    BY <1>2, QueuedType DEF Queues, TimelockTypeOK
  <2> QED BY <2>1, <2>2
<1>3. CASE Closes
  <2>1. PICK id \in ProposalIds, s \in {"Executed", "Cancelled"} :
          /\ proposals[id].state = "Queued"
          /\ proposals' = [proposals EXCEPT ![id].state = s]
    BY <1>3 DEF Closes
  <2>2. [proposals[id] EXCEPT !.state = s] \in Proposal
    BY <2>1, StoredProposal DEF Proposal
  <2> QED BY <1>3, <2>1, <2>2 DEF Closes, TimelockTypeOK
<1> QED BY <1>1, <1>2, <1>3, QueueSteps

\* The administration keeps its type: a delay in force is always a valid one.
LEMMA AdministrationType ==
    ASSUME TimelockTypeOK, [GovernanceNext]_govVars
    PROVE  /\ clock' \in Nat
           /\ admin' \in Accounts \cup {Nobody}
           /\ guardian' \in Accounts \cup {Nobody}
           /\ delay' \in Nat
           /\ admin' # Nobody => guardian' # Nobody /\ ValidDelay(delay')
           /\ epoch' \in Nat
<1> USE DEF TimelockTypeOK, timelockVars, rolesVars
<1>1. CASE Govern
  <2>1. CASE \E a, g \in Accounts, d \in Delays : Initialize(a, g, d)
    BY <2>1, TimelockAssumption DEF Initialize, Delays
  <2>2. CASE \E a \in Accounts, action \in Actions : Queue(a, action)
    BY <2>2 DEF Queue
  <2>3. CASE \E a \in Accounts, id \in ProposalIds : Cancel(a, id)
    BY <2>3 DEF Cancel
  <2>4. CASE \E a \in Accounts : TransferAdmin(a) \/ TransferGuardian(a)
    BY <2>4, TimelockAssumption DEF TransferAdmin, TransferGuardian
  <2>5. CASE \E d \in Delays : SetDelay(d)
    BY <2>5, TimelockAssumption DEF SetDelay, Delays
  <2>6. CASE LedgerCloses
    BY <2>6 DEF LedgerCloses
  <2> QED BY <1>1, <2>1, <2>2, <2>3, <2>4, <2>5, <2>6 DEF Govern
<1>2. CASE \E a \in Accounts, id \in ProposalIds : ExecuteProposal(a, id)
  BY <1>2 DEF ExecuteProposal, Execute
<1>3. CASE UNCHANGED timelockVars
  BY <1>3
<1> QED BY <1>1, <1>2, <1>3 DEF GovernanceNext, govVars

\* The registry's side keeps its type: no gated call can set a schema the
\* executable does not support.
LEMMA RegistryType ==
    ASSUME GovernanceTypeOK, [GovernanceNext]_govVars
    PROVE  /\ upgradeAdmin' \in Accounts \cup {TimelockId, Nobody}
           /\ executable' \in Wasms
           /\ schemaVersion' \in SCHEMA_VERSION_V1 .. MAX_SUPPORTED_SCHEMA_VERSION
<1> DEFINE Typed == /\ upgradeAdmin' \in Accounts \cup {TimelockId, Nobody}
                    /\ executable' \in Wasms
                    /\ schemaVersion' \in SCHEMA_VERSION_V1 .. MAX_SUPPORTED_SCHEMA_VERSION
<1> USE DEF GovernanceTypeOK
<1>1. CASE UNCHANGED registryVars
  BY <1>1 DEF registryVars
<1>2. ASSUME NEW a, NEW action \in ProposalAction, Call(a, action)
      PROVE  Typed
  <2>1. CASE action.kind = "Upgrade" /\ Upgrade(a, action.wasm, action.schema)
    <3>1. action.wasm \in Wasms /\ action.schema \in Nat
      BY <2>1 DEF ProposalAction
    <3> QED BY <2>1, <3>1 DEF Upgrade, AcceptsSchema, SCHEMA_VERSION_V1, MAX_SUPPORTED_SCHEMA_VERSION
  <2>2. CASE action.kind = "SetUpgradeAdmin" /\ SetUpgradeAdmin(a, action.to)
    <3>1. action.to \in Accounts \cup {TimelockId}
      BY <2>2 DEF ProposalAction
    <3> QED BY <2>2, <3>1 DEF SetUpgradeAdmin
  <2> QED BY <1>2, <2>1, <2>2 DEF Call
<1>3. ASSUME NEW a \in Accounts, NEW id \in ProposalIds, ExecuteProposal(a, id)
      PROVE  Typed
  <2>1. proposals[id].action \in ProposalAction
    BY <1>3, StoredProposal, TimelockAssumption DEF ExecuteProposal, Execute, Proposal
  <2> QED BY <1>2, <1>3, <2>1 DEF ExecuteProposal, Dispatch
<1>4. ASSUME NEW a \in Accounts \cup {TimelockId}, InitUpgradeAdmin(a)
      PROVE  Typed
  BY <1>4 DEF InitUpgradeAdmin
<1>5. ASSUME NEW a \in Accounts, NEW action \in Actions, Call(a, action)
      PROVE  Typed
  BY <1>2, <1>5, TimelockAssumption
<1>6. \/ UNCHANGED registryVars
      \/ \E a \in Accounts, id \in ProposalIds : ExecuteProposal(a, id)
      \/ \E a \in Accounts \cup {TimelockId} : InitUpgradeAdmin(a)
      \/ \E a \in Accounts, action \in Actions : Call(a, action)
  BY DEF GovernanceNext, govVars
<1> QED BY <1>1, <1>3, <1>4, <1>5, <1>6

\* Every step keeps every stored value well typed.
LEMMA GovernanceTypeStep ==
    ASSUME GovernanceTypeOK, [GovernanceNext]_govVars
    PROVE  GovernanceTypeOK'
<1>1. TimelockTypeOK
  BY DEF GovernanceTypeOK
<1>2. TimelockTypeOK'
  BY <1>1, QueueType, AdministrationType DEF TimelockTypeOK
<1> QED BY <1>2, RegistryType DEF GovernanceTypeOK

\* Both contracts are well typed at deployment.
LEMMA GovernanceTypeInit == GovernanceInit => GovernanceTypeOK
BY TimelockAssumption, DeployedAssumption
   DEF GovernanceInit, TimelockInit, GovernanceTypeOK, TimelockTypeOK, ProposalIds, NoProposal,
       SCHEMA_VERSION_V1, MAX_SUPPORTED_SCHEMA_VERSION

-----------------------------------------------------------------------------
\* While the queue rests, the clock moves on and a new admin comes into office only
\* at initialization or with a new epoch.
LEMMA AdministrationSteps ==
    ASSUME TimelockTypeOK, [GovernanceNext]_govVars
    PROVE  /\ clock' \in {clock, clock + 1}
           /\ \/ admin' = admin /\ epoch' = epoch
              \/ admin = Nobody /\ epoch' = epoch
              \/ epoch' = epoch + 1
<1> USE DEF timelockVars, rolesVars
<1>1. CASE Govern
  BY <1>1 DEF Govern, Initialize, Queue, Cancel, TransferAdmin, TransferGuardian, SetDelay, LedgerCloses
<1>2. CASE \E a \in Accounts, id \in ProposalIds : ExecuteProposal(a, id)
  BY <1>2 DEF ExecuteProposal, Execute
<1>3. CASE UNCHANGED timelockVars
  BY <1>3
<1> QED BY <1>1, <1>2, <1>3 DEF GovernanceNext, govVars

\* What ProposalsAreTimed says of one proposal that was handed out, at time t under
\* the admin a of epoch e.
Timed(p, t, e, a) ==
    /\ p \in Proposal
    /\ p.queued_at <= t
    /\ p.queued_at + MIN_DELAY_SECONDS <= p.eta
    /\ p.eta <= p.queued_at + MAX_DELAY_SECONDS
    /\ p.expires_at = p.eta + GRACE_PERIOD_SECONDS
    /\ p.admin_epoch <= e
    /\ p.admin_epoch = e => p.proposer = a

TimedOrAbsent(id) ==
    IF id >= nextProposal THEN proposals[id] = NoProposal
    ELSE Timed(proposals[id], clock, epoch, admin)

\* A proposal that rests stays timed: a new admin finds none of its own epoch.
LEMMA RestingStaysTimed ==
    ASSUME TimelockTypeOK, [GovernanceNext]_govVars, NEW p, Timed(p, clock, epoch, admin)
    PROVE  Timed(p, clock', epoch', admin')
<1>1. p \in Proposal /\ clock \in Nat /\ epoch \in Nat /\ p.queued_at \in Nat
      /\ p.admin_epoch \in Nat /\ p.proposer \in Accounts
  BY DEF Timed, TimelockTypeOK, Proposal
<1>2. p.queued_at <= clock'
  BY <1>1, AdministrationSteps DEF Timed
<1>3. p.admin_epoch <= epoch' /\ (p.admin_epoch = epoch' => p.proposer = admin')
  <2>1. CASE admin' = admin /\ epoch' = epoch
    BY <1>1, <2>1 DEF Timed
  <2>2. CASE admin = Nobody /\ epoch' = epoch
    <3>1. p.proposer # admin
      BY <1>1, <2>2, TimelockAssumption
    <3> QED BY <1>1, <2>2, <3>1 DEF Timed
  <2>3. CASE epoch' = epoch + 1
    <3>1. p.admin_epoch <= epoch
      BY DEF Timed
    <3> QED BY <1>1, <2>3, <3>1
  <2> QED BY <2>1, <2>2, <2>3, AdministrationSteps
<1> QED BY <1>2, <1>3 DEF Timed

\* A new proposal gets a full window from the delay in force, and executing or
\* cancelling one leaves its window alone.
LEMMA ProposalsAreTimedStep ==
    ASSUME TimelockTypeOK, ProposalsAreTimed, [GovernanceNext]_govVars
    PROVE  ProposalsAreTimed'
<1> SUFFICES ASSUME NEW id \in ProposalIds PROVE TimedOrAbsent(id)'
  BY DEF ProposalsAreTimed, Timed, TimedOrAbsent
<1>1. TimedOrAbsent(id)
  BY DEF ProposalsAreTimed, Timed, TimedOrAbsent
<1>2. nextProposal \in Nat /\ id \in Nat
  BY TimelockAssumption DEF TimelockTypeOK, ProposalIds
<1>3. CASE UNCHANGED queueVars
  <2>1. nextProposal' = nextProposal /\ proposals' = proposals
    BY <1>3 DEF queueVars
  <2>2. CASE id >= nextProposal
    BY <1>1, <2>1, <2>2 DEF TimedOrAbsent
  <2>3. CASE ~(id >= nextProposal)
    <3>1. Timed(proposals[id], clock, epoch, admin)
      BY <1>1, <2>3 DEF TimedOrAbsent
    <3> QED BY <2>1, <2>3, <3>1, RestingStaysTimed DEF TimedOrAbsent
  <2> QED BY <2>2, <2>3
<1>4. CASE UNCHANGED Administration /\ Queues
  <2>1. clock' = clock /\ epoch' = epoch /\ admin' = admin /\ nextProposal' = nextProposal + 1
    BY <1>4 DEF Administration, rolesVars, Queues
  <2>2. PICK action \in Actions :
          proposals' = [proposals EXCEPT ![nextProposal] =
                         [action |-> action, proposer |-> admin, admin_epoch |-> epoch,
                          queued_at |-> clock, eta |-> clock + delay,
                          expires_at |-> clock + delay + GRACE_PERIOD_SECONDS,
                          state |-> "Queued"]]
    BY <1>4 DEF Queues
  <2>3. CASE id = nextProposal
    <3> DEFINE q == [action |-> action, proposer |-> admin, admin_epoch |-> epoch,
                     queued_at |-> clock, eta |-> clock + delay,
                     expires_at |-> clock + delay + GRACE_PERIOD_SECONDS, state |-> "Queued"]
    <3>1. proposals'[id] = q
      BY <2>2, <2>3 DEF TimelockTypeOK
    <3>2. q \in Proposal
      BY <1>4, QueuedType DEF Queues
    <3>3. admin # Nobody /\ ValidDelay(delay) /\ delay \in Nat /\ clock \in Nat /\ epoch \in Nat
      BY <1>4, TimelockAssumption DEF Queues, TimelockTypeOK
    <3>4. Timed(q, clock, epoch, admin)
      BY <3>2, <3>3, TimelockAssumption DEF Timed, ValidDelay
    <3>5. ~(id >= nextProposal')
      BY <1>2, <2>1, <2>3
    <3> QED BY <2>1, <3>1, <3>4, <3>5 DEF TimedOrAbsent
  <2>4. CASE id # nextProposal
    <3>1. proposals'[id] = proposals[id]
      BY <2>2, <2>4 DEF TimelockTypeOK
    <3>2. id >= nextProposal' <=> id >= nextProposal
      BY <1>2, <2>1, <2>4
    <3> QED BY <1>1, <2>1, <3>1, <3>2 DEF TimedOrAbsent
  <2> QED BY <2>3, <2>4
<1>5. CASE UNCHANGED Administration /\ Closes
  <2>1. clock' = clock /\ epoch' = epoch /\ admin' = admin /\ nextProposal' = nextProposal
    BY <1>5 DEF Administration, rolesVars, Closes
  <2>2. PICK i \in ProposalIds, s \in {"Executed", "Cancelled"} :
          /\ proposals[i].state = "Queued"
          /\ proposals' = [proposals EXCEPT ![i].state = s]
    BY <1>5 DEF Closes
  <2>3. CASE id = i
    <3>1. ~(id >= nextProposal)
      BY <1>1, <2>2, <2>3 DEF NoProposal, TimedOrAbsent
    <3>2. Timed(proposals[id], clock, epoch, admin)
      BY <1>1, <3>1 DEF TimedOrAbsent
    <3>3. proposals'[id] = [proposals[id] EXCEPT !.state = s]
      BY <2>2, <2>3 DEF TimelockTypeOK
    <3>4. Timed([proposals[id] EXCEPT !.state = s], clock, epoch, admin)
      BY <3>2 DEF Timed, Proposal
    <3> QED BY <2>1, <3>1, <3>3, <3>4 DEF TimedOrAbsent
  <2>4. CASE id # i
    <3>1. proposals'[id] = proposals[id]
      BY <2>2, <2>4 DEF TimelockTypeOK
    <3> QED BY <1>1, <2>1, <3>1 DEF TimedOrAbsent
  <2> QED BY <2>3, <2>4
<1> QED BY <1>3, <1>4, <1>5, QueueSteps
-----------------------------------------------------------------------------
\* What an executed upgrade achieved holds on: the schema never goes down, and a
\* proposal becomes executed only together with the call that raises it.
LEMMA ExecutedUpgradesHoldStep ==
    ASSUME GovernanceTypeOK, ExecutedUpgradesHold, [GovernanceNext]_govVars
    PROVE  ExecutedUpgradesHold'
<1>0. TimelockTypeOK /\ schemaVersion \in Nat
  BY DEF GovernanceTypeOK, SCHEMA_VERSION_V1, MAX_SUPPORTED_SCHEMA_VERSION
<1>1. schemaVersion' \in Nat
  BY RegistryType DEF SCHEMA_VERSION_V1, MAX_SUPPORTED_SCHEMA_VERSION
<1>2. ASSUME NEW a, NEW action, Call(a, action)
      PROVE  /\ schemaVersion <= schemaVersion'
             /\ action.kind = "Upgrade" => action.schema = schemaVersion'
  BY <1>0, <1>2 DEF Call, Upgrade, AcceptsSchema, SetUpgradeAdmin
<1> SUFFICES ASSUME NEW id \in ProposalIds, proposals'[id].state = "Executed",
                    proposals'[id].action.kind = "Upgrade"
             PROVE  proposals'[id].action.schema <= schemaVersion'
  BY DEF ExecutedUpgradesHold
<1>3. ASSUME proposals'[id] = proposals[id], schemaVersion <= schemaVersion'
      PROVE  proposals'[id].action.schema <= schemaVersion'
  <2>1. proposals[id] \in Proposal
    BY <1>0, <1>3, StoredProposal
  <2>2. proposals[id].action \in ProposalAction
    BY <2>1, TimelockAssumption DEF Proposal
  <2>3. proposals[id].action.schema \in Nat
    BY <1>3, <2>2 DEF ProposalAction
  <2>4. proposals[id].action.schema <= schemaVersion
    BY <1>3 DEF ExecutedUpgradesHold
  <2> QED BY <1>0, <1>1, <1>3, <2>3, <2>4
<1>4. CASE Govern /\ UNCHANGED registryVars
  <2>1. schemaVersion' = schemaVersion
    BY <1>4 DEF registryVars
  <2>2. proposals'[id] = proposals[id]
    <3>1. CASE UNCHANGED queueVars
      BY <3>1 DEF queueVars
    <3>2. CASE \E a \in Accounts, action \in Actions : Queue(a, action)
      BY <1>0, <3>2 DEF Queue, TimelockTypeOK
    <3>3. CASE \E a \in Accounts, i \in ProposalIds : Cancel(a, i)
      BY <1>0, <3>3 DEF Cancel, TimelockTypeOK
    <3> QED BY <1>4, <3>1, <3>2, <3>3
            DEF Govern, Initialize, TransferAdmin, TransferGuardian, SetDelay, LedgerCloses, queueVars
  <2> QED BY <1>0, <1>3, <2>1, <2>2
<1>5. ASSUME NEW a \in Accounts, NEW i \in ProposalIds, ExecuteProposal(a, i)
      PROVE  proposals'[id].action.schema <= schemaVersion'
  <2>1. schemaVersion <= schemaVersion'
    BY <1>2, <1>5 DEF ExecuteProposal, Dispatch
  <2>2. CASE id = i
    <3>1. proposals'[id].action = proposals[i].action
      BY <1>0, <1>5, <2>2 DEF ExecuteProposal, Execute, TimelockTypeOK
    <3>2. proposals[i].action.schema = schemaVersion'
      BY <1>2, <1>5, <3>1 DEF ExecuteProposal, Dispatch
    <3> QED BY <1>1, <3>1, <3>2
  <2>3. CASE id # i
    <3>1. proposals'[id] = proposals[id]
      BY <1>0, <1>5, <2>3 DEF ExecuteProposal, Execute, TimelockTypeOK
    <3> QED BY <1>3, <2>1, <3>1
  <2> QED BY <2>2, <2>3
<1>6. CASE UNCHANGED timelockVars /\ schemaVersion <= schemaVersion'
  <2>1. proposals' = proposals
    BY <1>6 DEF timelockVars, queueVars
  <2> QED BY <1>3, <1>6, <2>1
<1>7. \/ Govern /\ UNCHANGED registryVars
      \/ \E a \in Accounts, i \in ProposalIds : ExecuteProposal(a, i)
      \/ UNCHANGED timelockVars /\ schemaVersion <= schemaVersion'
  BY <1>0, <1>2 DEF GovernanceNext, InitUpgradeAdmin, govVars, registryVars
<1> QED BY <1>4, <1>5, <1>6, <1>7

-----------------------------------------------------------------------------
GovernanceInv == GovernanceTypeOK /\ ProposalsAreTimed /\ ExecutedUpgradesHold

\* The inductive invariant of the governed registry.
LEMMA GovernanceInvariant == GovernanceSpec => []GovernanceInv
<1>1. GovernanceInit => GovernanceInv
  <2> SUFFICES ASSUME GovernanceInit PROVE GovernanceInv
    OBVIOUS
  <2>1. ProposalsAreTimed /\ ExecutedUpgradesHold
    BY DEF GovernanceInit, TimelockInit, ProposalsAreTimed, ExecutedUpgradesHold, NoProposal, ProposalIds
  <2> QED BY <2>1, GovernanceTypeInit DEF GovernanceInv
<1>2. GovernanceInv /\ [GovernanceNext]_govVars => GovernanceInv'
  <2> SUFFICES ASSUME GovernanceInv, [GovernanceNext]_govVars PROVE GovernanceInv'
    OBVIOUS
  <2>1. TimelockTypeOK
    BY DEF GovernanceInv, GovernanceTypeOK
  <2>2. ProposalsAreTimed'
    BY <2>1, ProposalsAreTimedStep DEF GovernanceInv
  <2>3. ExecutedUpgradesHold'
    BY ExecutedUpgradesHoldStep DEF GovernanceInv
  <2>4. GovernanceTypeOK'
    BY GovernanceTypeStep DEF GovernanceInv
  <2> QED BY <2>2, <2>3, <2>4 DEF GovernanceInv
<1> QED BY <1>1, <1>2, PTL DEF GovernanceSpec

\* Timelock and registry are well typed in every behaviour; in particular the
\* registry never reaches a schema its executable does not know.
THEOREM GovernanceTypeCorrect == GovernanceSpec => []GovernanceTypeOK
<1>1. GovernanceInv => GovernanceTypeOK
  BY DEF GovernanceInv
<1> QED BY <1>1, GovernanceInvariant, PTL

\* Whatever the admin sets the delay to and however often the roles rotate, every
\* proposal has a review window of at least the minimum delay.
THEOREM ReviewWindowsHold == GovernanceSpec => []ProposalsAreTimed
<1>1. GovernanceInv => ProposalsAreTimed
  BY DEF GovernanceInv
<1> QED BY <1>1, GovernanceInvariant, PTL

\* A proposal recorded as executed was not executed in vain.
THEOREM ExecutionsTakeEffect == GovernanceSpec => []ExecutedUpgradesHold
<1>1. GovernanceInv => ExecutedUpgradesHold
  BY DEF GovernanceInv
<1> QED BY <1>1, GovernanceInvariant, PTL

\* A proposal that was executed or cancelled stays so, and no proposal is amended.
THEOREM ProposalsNeverRevive == GovernanceSpec => ProposalsAreOneWay
<1>1. ASSUME GovernanceInv, [GovernanceNext]_govVars, NEW id \in ProposalIds
      PROVE  \/ proposals'[id] = proposals[id]
             \/ proposals[id] = NoProposal
             \/ /\ proposals[id].state = "Queued"
                /\ \E s \in {"Executed", "Cancelled"} :
                     proposals'[id] = [proposals[id] EXCEPT !.state = s]
  <2>1. TimelockTypeOK
    BY <1>1 DEF GovernanceInv, GovernanceTypeOK
  <2>2. CASE UNCHANGED queueVars
    BY <2>2 DEF queueVars
  <2>3. CASE Queues
    <3>1. nextProposal \in Nat /\ proposals[nextProposal] = NoProposal
      BY <1>1, <2>1, <2>3, TimelockAssumption
         DEF Queues, GovernanceInv, ProposalsAreTimed, TimelockTypeOK
    <3> QED BY <2>1, <2>3, <3>1 DEF Queues, TimelockTypeOK
  <2>4. CASE Closes
    BY <2>1, <2>4 DEF Closes, TimelockTypeOK
  <2> QED BY <1>1, <2>1, <2>2, <2>3, <2>4, QueueSteps
<1>2. GovernanceInv /\ [GovernanceNext]_govVars =>
        [\A id \in ProposalIds :
           LET p == proposals[id]
           IN  \/ proposals'[id] = p
               \/ p = NoProposal
               \/ /\ p.state = "Queued"
                  /\ \E s \in {"Executed", "Cancelled"} :
                       proposals'[id] = [p EXCEPT !.state = s]]_timelockVars
  BY <1>1
<1> QED BY <1>2, GovernanceInvariant, PTL DEF GovernanceSpec, ProposalsAreOneWay

\* Nothing changes the registry's executable, schema or upgrade authority around the
\* timelock once it holds that authority: the change was pinned in a proposal by the
\* admin in office, a minimum delay ago.
THEOREM ChangesAreReviewed == GovernanceSpec => ReviewedBeforeEffect
<1>1. ASSUME GovernanceInv, [GovernanceNext]_govVars, upgradeAdmin = TimelockId,
             registryVars' # registryVars
      PROVE  \E id \in ProposalIds :
               LET p == proposals[id]
               IN  /\ p.state = "Queued" /\ proposals'[id].state = "Executed"
                   /\ Enacted(p.action)
                   /\ p.proposer = admin
                   /\ p.queued_at + MIN_DELAY_SECONDS <= clock
                   /\ clock <= p.queued_at + MAX_DELAY_SECONDS + GRACE_PERIOD_SECONDS
  <2>1. PICK a \in Accounts, id \in ProposalIds : ExecuteProposal(a, id)
    <3>1. \A a \in Accounts, action \in Actions : ~Call(a, action)
      BY <1>1, TimelockAssumption DEF Call, Upgrade, SetUpgradeAdmin
    <3>2. \A a \in Accounts \cup {TimelockId} : ~InitUpgradeAdmin(a)
      BY <1>1, TimelockAssumption DEF InitUpgradeAdmin
    <3> QED BY <1>1, <3>1, <3>2 DEF GovernanceNext, govVars
  <2> DEFINE p == proposals[id]
  <2>2. TimelockTypeOK /\ ProposalsAreTimed
    BY <1>1 DEF GovernanceInv, GovernanceTypeOK
  <2>3. p.state = "Queued" /\ p.admin_epoch = epoch /\ p.eta <= clock /\ clock <= p.expires_at
    BY <2>1 DEF ExecuteProposal, Execute
  <2>4. proposals'[id].state = "Executed"
    BY <2>1, <2>2 DEF ExecuteProposal, Execute, TimelockTypeOK
  <2>5. Enacted(p.action)
    BY <2>1 DEF ExecuteProposal, Dispatch, Call, Upgrade, SetUpgradeAdmin, Enacted, registryVars
  <2>6. Timed(p, clock, epoch, admin)
    BY <2>2, <2>3 DEF ProposalsAreTimed, Timed, NoProposal
  <2>7. p \in Proposal /\ p.proposer = admin
    BY <2>3, <2>6 DEF Timed
  <2>8. p.queued_at \in Nat /\ p.eta \in Nat /\ p.expires_at \in Nat /\ clock \in Nat
    BY <2>2, <2>7 DEF Proposal, TimelockTypeOK
  <2>9. /\ p.queued_at + MIN_DELAY_SECONDS <= clock
        /\ clock <= p.queued_at + MAX_DELAY_SECONDS + GRACE_PERIOD_SECONDS
    BY <2>3, <2>6, <2>8, TimelockAssumption DEF Timed
  <2> QED BY <2>3, <2>4, <2>5, <2>7, <2>9
<1>2. GovernanceInv /\ [GovernanceNext]_govVars =>
        [upgradeAdmin = TimelockId /\ registryVars' # registryVars =>
           \E id \in ProposalIds :
             LET p == proposals[id]
             IN  /\ p.state = "Queued" /\ proposals'[id].state = "Executed"
                 /\ Enacted(p.action)
                 /\ p.proposer = admin
                 /\ p.queued_at + MIN_DELAY_SECONDS <= clock
                 /\ clock <= p.queued_at + MAX_DELAY_SECONDS + GRACE_PERIOD_SECONDS]_govVars
  BY <1>1
<1> QED BY <1>2, GovernanceInvariant, PTL DEF GovernanceSpec, ReviewedBeforeEffect

\* The queue of the timelock and the registry agree, for any number of proposals.
THEOREM ReviewsAreAlwaysKept == GovernanceSpec => []ReviewsAreKept
<1>1. GovernanceTypeOK /\ ProposalsAreTimed /\ ExecutedUpgradesHold => ReviewsAreKept
  BY DEF ReviewsAreKept
<1> QED BY <1>1, GovernanceTypeCorrect, ReviewWindowsHold, ExecutionsTakeEffect, PTL
=============================================================================
