---------------------------- MODULE ApiServices -----------------------------
(***************************************************************************)
(* What stands between a request of the reputation API and the database:   *)
(* the cache and the rate limiter. They share no state.                    *)
(***************************************************************************)
EXTENDS EventLoop, SequencesExt

-----------------------------------------------------------------------------
(***************************************************************************)
(* The reputation API's cache-aside cache (backend/src/cache): Redis in    *)
(* front of PostgreSQL, one query per address at a time, and invalidation  *)
(* by the projector that every committed ledger runs                       *)
(* (indexer/reputation-projector.ts).                                      *)
(***************************************************************************)

CONSTANTS
    CachedAddresses,
    Readers,        \* bound: requests at a time
    ttlSeconds,
    MaxRow,         \* bound: versions of a row
    MaxCacheTime    \* bound: the clock

ASSUME CacheAssumption ==
    /\ None \notin Int
    /\ ttlSeconds \in Nat \ {0}
    /\ MaxRow \in Nat
    /\ MaxCacheTime \in Nat

VARIABLES
    cacheTime,
    row,            \* PostgreSQL: the version of each address's row; 0 is no row
    redis,          \* the cached version and when it expires, or None
    pendingLoad,    \* per address, the load that requests share, or None
    refreshing,     \* per address, the load of a refresh, or None
    reader,         \* what each request awaits, and what it got
    invalidating,   \* addresses of committed ledgers whose keys are being deleted
    raced           \* addresses with a load under way when their key was deleted,
                    \* or whose deletion failed

cacheVars == <<cacheTime, row, redis, pendingLoad, refreshing, reader, invalidating, raced>>

LoadStarted == -1                  \* a load that has no answer yet; then, the version it read
NoReader == [address |-> None, awaits |-> "nothing"]

CacheInit ==
    /\ cacheTime = 0
    /\ row \in [CachedAddresses -> 0..1]
    /\ redis = [a \in CachedAddresses |-> None]
    /\ pendingLoad = [a \in CachedAddresses |-> None]
    /\ refreshing = [a \in CachedAddresses |-> None]
    /\ reader = [r \in Readers |-> NoReader]
    /\ invalidating = {}
    /\ raced = {}

Cached(a) == redis[a] # None /\ redis[a].expires > cacheTime

CacheClock ==
    /\ cacheTime < MaxCacheTime
    /\ cacheTime' = cacheTime + 1
    /\ UNCHANGED <<row, redis, pendingLoad, refreshing, reader, invalidating, raced>>

\* A ledger that touches the address is committed: its row changes, and
\* ledgerCommitted deletes the key.
LedgerCommitted(a) ==
    /\ row[a] < MaxRow
    /\ a \notin invalidating
    /\ row' = [row EXCEPT ![a] = @ + 1]
    /\ invalidating' = invalidating \cup {a}
    /\ UNCHANGED <<cacheTime, redis, pendingLoad, refreshing, reader, raced>>

Invalidate(a) ==
    /\ a \in invalidating
    /\ \/ /\ redis' = [redis EXCEPT ![a] = None]
          /\ raced' = IF pendingLoad[a] # None \/ refreshing[a] # None
                      THEN raced \cup {a} ELSE raced
       \/ /\ raced' = raced \cup {a}      \* Redis does not answer
          /\ UNCHANGED redis
    /\ invalidating' = invalidating \ {a}
    /\ UNCHANGED <<cacheTime, row, pendingLoad, refreshing, reader>>
-----------------------------------------------------------------------------
\* get() up to the read of Redis
Get(r, a) ==
    /\ reader[r].awaits = "nothing"
    /\ reader' = [reader EXCEPT ![r] = [address |-> a, awaits |-> "redis"]]
    /\ UNCHANGED <<cacheTime, row, redis, pendingLoad, refreshing, invalidating, raced>>

Hit(r) ==
    /\ reader[r].awaits = "redis"
    /\ Cached(reader[r].address)
    /\ reader' = [reader EXCEPT ![r] = NoReader]
    /\ UNCHANGED <<cacheTime, row, redis, pendingLoad, refreshing, invalidating, raced>>

\* A miss, or Redis failing, joins the load under way or begins one.
Miss(r) ==
    LET a == reader[r].address IN
    /\ reader[r].awaits = "redis"
    /\ pendingLoad' = [pendingLoad EXCEPT ![a] = IF @ = None THEN LoadStarted ELSE @]
    /\ reader' = [reader EXCEPT ![r].awaits = "load"]
    /\ UNCHANGED <<cacheTime, row, redis, refreshing, invalidating, raced>>

Refresh(a) ==
    /\ refreshing[a] = None
    /\ refreshing' = [refreshing EXCEPT ![a] = LoadStarted]
    /\ UNCHANGED <<cacheTime, row, redis, pendingLoad, reader, invalidating, raced>>

\* loadAndPopulate, in the two halves its awaits make of it.
QueryAnswers(a) ==
    \/ /\ pendingLoad[a] = LoadStarted
       /\ pendingLoad' = [pendingLoad EXCEPT ![a] = row[a]]
       /\ UNCHANGED <<cacheTime, row, redis, refreshing, reader, invalidating, raced>>
    \/ /\ refreshing[a] = LoadStarted
       /\ refreshing' = [refreshing EXCEPT ![a] = row[a]]
       /\ UNCHANGED <<cacheTime, row, redis, pendingLoad, reader, invalidating, raced>>

\* setex, or del when there is no row; errors of Redis are swallowed.
Populate(a, version) ==
    redis' \in {redis,
                [redis EXCEPT ![a] = IF version = 0 THEN None
                                     ELSE [version |-> version, expires |-> cacheTime + ttlSeconds]]}

RequestLoaded(a) ==
    /\ pendingLoad[a] \in 0..MaxRow
    /\ Populate(a, pendingLoad[a])
    /\ pendingLoad' = [pendingLoad EXCEPT ![a] = None]
    /\ reader' = [r \in Readers |-> IF reader[r].address = a /\ reader[r].awaits = "load"
                                    THEN NoReader ELSE reader[r]]
    /\ UNCHANGED <<cacheTime, row, refreshing, invalidating, raced>>

RefreshLoaded(a) ==
    /\ refreshing[a] \in 0..MaxRow
    /\ Populate(a, refreshing[a])
    /\ refreshing' = [refreshing EXCEPT ![a] = None]
    /\ UNCHANGED <<cacheTime, row, pendingLoad, reader, invalidating, raced>>

\* Mutant: the load is forgotten only when it succeeds, and its error is for good.
QueryFails_Remembered(a) ==
    /\ pendingLoad[a] = LoadStarted
    /\ pendingLoad' = [pendingLoad EXCEPT ![a] = -2]
    /\ reader' = [r \in Readers |-> IF reader[r].address = a /\ reader[r].awaits = "load"
                                    THEN NoReader ELSE reader[r]]
    /\ UNCHANGED <<cacheTime, row, redis, refreshing, invalidating, raced>>

\* The query fails: everyone who waits for it gets the error.
QueryFails(a) ==
    /\ pendingLoad[a] = LoadStarted
    /\ pendingLoad' = [pendingLoad EXCEPT ![a] = None]
    /\ reader' = [r \in Readers |-> IF reader[r].address = a /\ reader[r].awaits = "load"
                                    THEN NoReader ELSE reader[r]]
    /\ UNCHANGED <<cacheTime, row, redis, refreshing, invalidating, raced>>

\* PostgreSQL answers the query of the requests, or refuses it.
LoadProgress(a) ==
    \/ pendingLoad[a] = LoadStarted /\ QueryAnswers(a) /\ UNCHANGED refreshing
    \/ RequestLoaded(a) \/ QueryFails(a)

CacheNext ==
    \/ CacheClock
    \/ \E a \in CachedAddresses :
           \/ LedgerCommitted(a) \/ Invalidate(a) \/ Refresh(a)
           \/ QueryAnswers(a) \/ RequestLoaded(a) \/ RefreshLoaded(a) \/ QueryFails(a)
           \/ \E r \in Readers : Get(r, a)
    \/ \E r \in Readers : Hit(r) \/ Miss(r)

CacheSpec == CacheInit /\ [][CacheNext]_cacheVars
-----------------------------------------------------------------------------
\* Once the keys of a committed ledger are deleted the cache does not hold an older
\* row, unless a load was under way at that moment: a load that read the row before
\* the commit and writes it afterwards is the only way to a stale score besides Redis
\* failing (loadAndPopulate, ledgerCommitted).
StaleOnlyAfterRace ==
    \A a \in CachedAddresses :
        Cached(a) /\ a \notin invalidating \cup raced => redis[a].version = row[a]

\* Every request that waits for a load is answered, by the load it joined or by its
\* error; a load that failed is not joined any more (get, loadAndPopulate).
RequestsAreAnswered ==
    \A r \in Readers : reader[r].awaits = "load" ~> reader[r].awaits # "load"

-----------------------------------------------------------------------------
(***************************************************************************)
(* The sliding-window limiter of the API (middleware/rateLimiter.ts) and   *)
(* where the application puts it (index.ts): every request passes the same *)
(* limiter as often as it is mounted.                                      *)
(***************************************************************************)

CONSTANTS
    Clients,
    windowMs,
    maxRequests,    \* max
    Mounted,        \* how often index.ts puts the limiter in the way of a request
    SweepInterval,
    MaxRateTime     \* bound: the clock

ASSUME RateAssumption ==
    /\ windowMs \in Nat \ {0} /\ maxRequests \in Nat \ {0} /\ Mounted \in Nat \ {0}
    /\ \E share \in 1..maxRequests : maxRequests = Mounted * share
    /\ SweepInterval \in Nat /\ MaxRateTime \in Nat

\* The timestamps of a client, as how many there are of each time
Times == 0..MaxRateTime
Never == [t \in Times |-> 0]
Count(stamps) == SumFunctionOnSet(stamps, Times)
Stamped(stamps, t) == [stamps EXCEPT ![t] = stamps[t] + 1]

VARIABLES
    rateNow,
    hits,       \* store: client -> timestamps; none where the map has no key
    lastSweep,
    served,     \* client -> when its requests were let through
    refused     \* client -> when the last one was refused, or None

rateVars == <<rateNow, hits, lastSweep, served, refused>>

RateInit ==
    /\ rateNow = 0
    /\ hits = [c \in Clients |-> Never]
    /\ lastSweep = 0
    /\ served = [c \in Clients |-> Never]
    /\ refused = [c \in Clients |-> None]

\* The last timestamp, which the code looks at, is the latest: each is pushed as of now.
Swept(store) ==
    [c \in Clients |-> IF \A t \in Times : store[c][t] > 0 => t <= rateNow - windowMs
                       THEN Never ELSE store[c]]

Pruned(stamps) == [t \in Times |-> IF t > rateNow - windowMs THEN stamps[t] ELSE 0]

\* One pass of a request: the hits of its client afterwards, and whether it goes on.
Pass(stamps) ==
    LET kept == Pruned(stamps)
    IN  IF Count(kept) >= maxRequests THEN [hits |-> kept, passes |-> FALSE]
        ELSE [hits |-> Stamped(kept, rateNow), passes |-> TRUE]

\* The request goes on past every limiter in its way.
Admitted(stamps) ==
    LET after[n \in 0..Mounted] ==
            IF n = 0 THEN [hits |-> stamps, passes |-> TRUE]
            ELSE IF after[n - 1].passes THEN Pass(after[n - 1].hits) ELSE after[n - 1]
    IN  after[Mounted]

Request(c) ==
    LET due == rateNow - lastSweep >= SweepInterval
        store == IF due THEN Swept(hits) ELSE hits
        result == Admitted(store[c])
    IN  /\ lastSweep' = IF due THEN rateNow ELSE lastSweep
        /\ hits' = [store EXCEPT ![c] = result.hits]
        /\ IF result.passes
           THEN /\ served' = [served EXCEPT ![c] = Stamped(served[c], rateNow)]
                /\ UNCHANGED refused
           ELSE /\ refused' = [refused EXCEPT ![c] = rateNow]
                /\ UNCHANGED served
        /\ UNCHANGED rateNow

RateTick ==
    /\ rateNow < MaxRateTime
    /\ rateNow' = rateNow + 1
    /\ UNCHANGED <<hits, lastSweep, served, refused>>

RateNext == RateTick \/ \E c \in Clients : Request(c)

RateSpec == RateInit /\ [][RateNext]_rateVars
-----------------------------------------------------------------------------
InWindow(stamps, from) ==
    [t \in Times |-> IF t > from /\ t <= from + windowMs THEN stamps[t] ELSE 0]

\* No window of windowMs, whenever it ends, lets more of a client's requests through
\* than max allows when each counts once for every time the limiter is mounted, though
\* what is remembered of clients is swept away in between (sweep).
WindowIsBounded ==
    \A c \in Clients, end \in 0..rateNow :
        Count(InWindow(served[c], end - windowMs)) * Mounted <= maxRequests

\* Only a client who has used up the window, counted in this way, is refused.
RefusedAtLimit ==
    \A c \in Clients : refused[c] # None =>
        Count(InWindow(served[c], refused[c] - windowMs)) * Mounted >= maxRequests

\* What a request may rely on: it is answered, from the cache only with a row that no
\* ledger replaced before the load began, and refused only in a window that is used up.
RequestsAreServed ==
    /\ []StaleOnlyAfterRace
    /\ []WindowIsBounded
    /\ []RefusedAtLimit
    /\ RequestsAreAnswered
=============================================================================
