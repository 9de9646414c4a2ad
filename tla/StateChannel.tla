---------------------------- MODULE StateChannel ----------------------------
(***************************************************************************)
(* The state-channel contract (src/contracts/state_channel/src/lib.rs):    *)
(* two parties lock collateral, move it between them off the ledger, and   *)
(* settle by the latest state one of them submits, after a window in which *)
(* the other may submit a later one or have the ruleset contract judge it. *)
(*                                                                         *)
(* Abstractions: one token, of which the contract is sent nothing but what *)
(* is locked; every party can pay its collateral; the state hash and the   *)
(* data of a transition are the ruleset's business, whose verdict is       *)
(* therefore either.  Amounts and balances are signed, as in the code,     *)
(* which checks a sum and never a sign; additions do not overflow (they    *)
(* would trap, and the call with them).                                    *)
(***************************************************************************)
EXTENDS Integers, Sequences, FiniteSetsExt, Functions

CONSTANTS
    Parties,
    Stakes,          \* amounts a channel may be opened with
    Balances,        \* balances a party may submit
    disputeWindows,  \* windows a channel may be opened with
    Nonces,          \* nonces of submitted states
    MaxChannels, MaxChannelTime     \* bounds

ASSUME ChannelAssumption ==
    /\ Stakes \subseteq Int /\ Balances \subseteq Int
    /\ disputeWindows \subseteq Nat /\ Nonces \subseteq Nat
    /\ MaxChannels \in Nat /\ MaxChannelTime \in Nat

NoParty == "none"

VARIABLES
    channels,       \* DataKey::Channel by id
    held,           \* tokens the contract holds
    channelNow,     \* ledger timestamp
    submitted       \* history: the states accepted, by channel
channelVars == <<channels, held, channelNow, submitted>>

ChannelInit == channels = <<>> /\ held = 0 /\ channelNow = 0 /\ submitted = <<>>

LedgerMoves ==
    /\ channelNow < MaxChannelTime
    /\ channelNow' = channelNow + 1
    /\ UNCHANGED <<channels, held, submitted>>

Collateral(ch) == ch.balanceA + ch.balanceB

\* A transfer is made only of what is more than nothing.
Transferred(amount) == IF amount > 0 THEN amount ELSE 0

\* open_channel: both sign, and pay what they lock.
OpenChannel(partyA, partyB, amountA, amountB, window) ==
    /\ Len(channels) < MaxChannels
    /\ amountA > 0 \/ amountB > 0
    /\ channels' = Append(channels,
            [partyA |-> partyA, partyB |-> partyB, balanceA |-> amountA, balanceB |-> amountB,
             status |-> "Open", window |-> window, startedAt |-> 0, disputer |-> NoParty,
             nonce |-> 0, latestA |-> amountA, latestB |-> amountB])
    /\ held' = held + Transferred(amountA) + Transferred(amountB)
    /\ submitted' = Append(submitted, {<<0, amountA, amountB>>})
    /\ UNCHANGED channelNow

Party(ch, caller) == caller \in {ch.partyA, ch.partyB}

WindowOver(ch) == channelNow >= ch.startedAt + ch.window

\* The nonce of the latest state is accepted again.
Newer_OrSame(ch, nonce) == nonce >= ch.nonce

Newer(ch, nonce) == nonce > ch.nonce

\* dispute_channel.
DisputeChannel(c, caller, nonce, a, b) ==
    LET ch == channels[c]
    IN  /\ ch.status # "Closed"
        /\ Party(ch, caller)
        /\ Newer(ch, nonce)
        /\ a + b = Collateral(ch)
        /\ ch.status = "Disputed" => ~WindowOver(ch)
        /\ channels' = [channels EXCEPT ![c] =
                [@ EXCEPT !.nonce = nonce, !.latestA = a, !.latestB = b, !.status = "Disputed",
                          !.startedAt = channelNow, !.disputer = caller]]
        /\ submitted' = [submitted EXCEPT ![c] = @ \cup {<<nonce, a, b>>}]
        /\ UNCHANGED <<held, channelNow>>

\* The channel after its disputer lost it to the challenger.
Slashed(ch, challenger) ==
    [ch EXCEPT !.status = "Closed",
               !.latestA = IF challenger = ch.partyA THEN Collateral(ch) ELSE 0,
               !.latestB = IF challenger = ch.partyB THEN Collateral(ch) ELSE 0]

\* verify_and_resolve_dispute.  A transfer of more than the contract holds fails, and the
\* call with it, here as when a channel is closed.  A state the ruleset finds valid stays disputed.
VerifyAndResolveDispute(c, challenger, valid) ==
    LET ch == channels[c]
    IN  /\ ch.status = "Disputed"
        /\ Party(ch, challenger)
        /\ challenger # ch.disputer
        /\ IF valid THEN UNCHANGED <<channels, held>>
           ELSE /\ channels' = [channels EXCEPT ![c] = Slashed(ch, challenger)]
                /\ held' = held - Transferred(Collateral(ch))
                /\ held' >= 0
        /\ UNCHANGED <<channelNow, submitted>>

\* close_channel: after the window, or while nothing is disputed with both signatures.
CloseChannel(c, caller) ==
    LET ch == channels[c]
    IN  /\ ch.status # "Closed"
        /\ Party(ch, caller)
        /\ ch.status = "Disputed" => WindowOver(ch)
        /\ held' = held - Transferred(ch.latestA) - Transferred(ch.latestB)
        /\ held' >= 0
        /\ channels' = [channels EXCEPT ![c].status = "Closed"]
        /\ UNCHANGED <<channelNow, submitted>>

ChannelNext ==
    \/ LedgerMoves
    \/ \E pa, pb \in Parties, a, b \in Stakes, w \in disputeWindows : OpenChannel(pa, pb, a, b, w)
    \/ \E c \in 1 .. Len(channels), p \in Parties :
        \/ \E n \in Nonces, a, b \in Balances : DisputeChannel(c, p, n, a, b)
        \/ \E valid \in BOOLEAN : VerifyAndResolveDispute(c, p, valid)
        \/ CloseChannel(c, p)

ChannelSpec == ChannelInit /\ [][ChannelNext]_channelVars

-----------------------------------------------------------------------------

\* What the parties of a channel paid in, and what they were paid when it was closed.
Locked(ch) == Transferred(ch.balanceA) + Transferred(ch.balanceB)

Paid(ch) == Transferred(ch.latestA) + Transferred(ch.latestB)

\* What is left of a channel's money; less than nothing when others paid for it.
Left(ch) == IF ch.status = "Closed" THEN Locked(ch) - Paid(ch) ELSE Locked(ch)

\* The contract never pays what it does not hold, and holds what is left of every channel.
CollateralIsHeld ==
    /\ held >= 0
    /\ held = SumFunction([c \in 1 .. Len(channels) |-> Left(channels[c])])

\* The channel was opened with, and accepted, no negative balance.
NoDebt(c) == \A s \in submitted[c] : s[2] >= 0 /\ s[3] >= 0

\* A channel without a negative balance in its accepted states pays out what was locked in
\* it, whole and once, whether it is closed after disputes or slashed, and nothing of it goes
\* to the parties of another while the contract holds what is left of every channel.  (One
\* with a negative balance pays a party more than was locked, from what the other channels
\* locked, and their own calls may then fail: the code does not check the sign.)
PaysWhatItLocked ==
    \A c \in 1 .. Len(channels) : NoDebt(c) =>
        Left(channels[c]) = IF channels[c].status = "Closed" THEN 0 ELSE Collateral(channels[c])

\* The channel stands at the state with the highest nonce that was accepted, and no other
\* accepted state has that nonce: a state that is overtaken never comes back.
HighestNonceStands ==
    \A c \in 1 .. Len(channels) :
        /\ channels[c].nonce = Max({s[1] : s \in submitted[c]})
        /\ \A s, t \in submitted[c] : s[1] = t[1] => s = t

\* Both parties of a channel that accepts no negative balance are safe from one another:
\* what they locked is paid out whole, once, and by the newest state that was accepted.
ChannelsAreSafe == CollateralIsHeld /\ PaysWhatItLocked /\ HighestNonceStands
=============================================================================
