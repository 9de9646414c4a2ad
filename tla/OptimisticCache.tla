--------------------------- MODULE OptimisticCache ---------------------------
(***************************************************************************)
(* The optimistic conflict engine of the frontend (lib/optimisticEngine.ts,*)
(* hooks/useOptimisticMutation.ts): mutations write their guess into one   *)
(* slice of the query cache, and the chain's events confirm it, replace it *)
(* or undo it.                                                             *)
(***************************************************************************)
EXTENDS EventLoop

CONSTANTS
    Slices,         \* query keys
    Mutations,      \* mutation identifiers, each used once
    Actors,         \* wallets; one of them is this tab's
    Me,
    MaxChain        \* bound: versions of a slice on the chain

\* The data of a slice, and what beginMutation remembers of a mutation
SliceData == [chain : Int, guess : Mutations \cup {None}]
Inflight == [slice : Slices, baseVersion : Nat, previousData : SliceData]

ASSUME OptimisticAssumption ==
    /\ Me \in Actors
    /\ MaxChain \in Nat
    /\ None \notin Mutations \cup Inflight

VARIABLES
    fed,            \* per slice, the version of the last event fed to the engine
    slice,          \* the cached data: of a chain version, or a mutation's guess
    inflight,       \* per mutation, what beginMutation remembers, or None
    fate,           \* "new", "pending", "sent" or "failed": what the contract call said
    overlapped,     \* mutations begun on a slice while another was in flight there
    conflicts       \* slices flagged as in conflict

optVars == <<fed, slice, inflight, fate, overlapped, conflicts>>

FromChain(v) == [chain |-> v, guess |-> None]
Guess(m) == [chain |-> -1, guess |-> m]

OptInit ==
    /\ fed = [s \in Slices |-> 0]
    /\ slice = [s \in Slices |-> FromChain(0)]
    /\ inflight = [m \in Mutations |-> None]
    /\ fate = [m \in Mutations |-> "new"]
    /\ overlapped = {}
    /\ conflicts = {}

InflightOn(s) == {m \in Mutations : inflight[m] # None /\ inflight[m].slice = s}

\* onMutate: the mutation builds on the version this tab has been told of.
BeginMutation(m, s) ==
    /\ fate[m] = "new"
    /\ inflight' = [inflight EXCEPT ![m] =
           [slice |-> s, baseVersion |-> fed[s], previousData |-> slice[s]]]
    /\ slice' = [slice EXCEPT ![s] = Guess(m)]
    /\ fate' = [fate EXCEPT ![m] = "pending"]
    /\ overlapped' = IF InflightOn(s) = {} THEN overlapped
                     ELSE overlapped \cup {m} \cup InflightOn(s)
    /\ UNCHANGED <<fed, conflicts>>

\* onSuccess or onError
SettleMutation(m, outcome) ==
    /\ fate[m] = "pending"
    /\ fate' = [fate EXCEPT ![m] = outcome]
    /\ inflight' = [inflight EXCEPT ![m] = None]
    /\ slice' = IF outcome = "failed" /\ inflight[m] # None
                THEN [slice EXCEPT ![inflight[m].slice] = inflight[m].previousData]
                ELSE slice
    /\ UNCHANGED <<fed, overlapped, conflicts>>

OwnConfirmation(m, actor, version) == actor = Me /\ version = inflight[m].baseVersion + 1

\* Mutant: a conflicting event is shown, and the mutation stays in flight.
Superseded_OwnOnly(s, actor, version) ==
    {m \in InflightOn(s) : OwnConfirmation(m, actor, version)}

\* The mutations in flight that an event puts an end to
Superseded(s, actor, version) ==
    {m \in InflightOn(s) : \/ OwnConfirmation(m, actor, version)
                           \/ version > inflight[m].baseVersion}

\* The next event of the slice; the source feeds them in the order of the chain.
HandleChainEvent(s, actor) ==
    LET version == fed[s] + 1
        gone == Superseded(s, actor, version)
    IN
    /\ version <= MaxChain
    /\ fed' = [fed EXCEPT ![s] = version]
    /\ inflight' = [m \in Mutations |-> IF m \in gone THEN None ELSE inflight[m]]
    /\ slice' = IF InflightOn(s) = {} \/ gone # {} THEN [slice EXCEPT ![s] = FromChain(version)]
                ELSE slice
    /\ conflicts' = IF \E m \in gone : ~ OwnConfirmation(m, actor, version)
                    THEN conflicts \cup {s} ELSE conflicts
    /\ UNCHANGED <<fate, overlapped>>

ClearConflict(s) ==
    /\ s \in conflicts
    /\ conflicts' = conflicts \ {s}
    /\ UNCHANGED <<fed, slice, inflight, fate, overlapped>>

OptNext ==
    \/ \E m \in Mutations, s \in Slices : BeginMutation(m, s)
    \/ \E m \in Mutations, outcome \in {"sent", "failed"} : SettleMutation(m, outcome)
    \/ \E s \in Slices, actor \in Actors : HandleChainEvent(s, actor)
    \/ \E s \in Slices : ClearConflict(s)

OptSpec == OptInit /\ [][OptNext]_optVars
-----------------------------------------------------------------------------
\* Data of the chain in the cache, and what a mutation in flight would put back, is of
\* the last event fed: rolling back a failed mutation never undoes an event that came
\* after the mutation began (handleChainEvent, settleMutation).
ChainDataIsNewest ==
    /\ \A s \in Slices : slice[s].guess = None => slice[s].chain = fed[s]
    /\ \A m \in Mutations :
           inflight[m] # None /\ inflight[m].previousData.guess = None
               => inflight[m].previousData.chain = fed[inflight[m].slice]

\* The guess of a failed mutation is not shown any more, provided no other mutation was
\* in flight on the slice: two that overlap and fail in the order they began leave the
\* first one's guess behind (settleMutation restores what each of them found).
FailedGuessIsGone ==
    \A s \in Slices, m \in Mutations :
        slice[s] = Guess(m) /\ fate[m] = "failed" => m \in overlapped

\* What the cache shows is never older than the chain's last event, nor a guess that failed
\* alone.
CacheIsHonest == ChainDataIsNewest /\ FailedGuessIsGone
=============================================================================
