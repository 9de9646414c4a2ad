----------------------------- MODULE MC_Backend -----------------------------
(***************************************************************************)
(* Small instances of the backend's programs for TLC.  They share no state *)
(* and each has properties of its own, so one of them runs in a behaviour, *)
(* chosen at the start, and the others stay in their initial states.       *)
(***************************************************************************)
EXTENDS Relayer, StateProofs, BackendWorkers, ApiServices

VARIABLE program    \* the program that runs in this behaviour

MC_Addresses == <<"a", "b">>

Target(a, s) == [address |-> a, score |-> s]

\* Addresses whose scores are fetched, and records of which one overtakes another.
MC_TargetLists ==
    {<<Target(3, Unknown), Target(1, Unknown), Target(2, Unknown)>>,
     <<Target(3, 60), Target(1, 50), Target(2, 50), Target(3, 50)>>}

backendVars == <<program, batchVars, relayerVars, proofVars, hookVars, ttlVars,
                 cacheVars, rateVars, oracleVars>>

BackendInit ==
    /\ program \in {"batches", "relayer", "proofs", "webhooks", "ttl", "cache",
                     "limiter", "oracle"}
    /\ BatchInit /\ RelayerInit /\ ProofsInit /\ HooksInit /\ TtlInit /\ CacheInit
    /\ RateInit /\ OracleInit
    \* one initial state is enough for a program that does not run
    /\ program # "ttl" => \A k \in Key : liveUntil[k] = IF k[2] = "Reputation" THEN 0 ELSE 2
    /\ program # "cache" => row = [a \in CachedAddresses |-> 0]

BackendNext ==
    /\ UNCHANGED program
    /\ \/ /\ program = "batches" /\ BatchNext
          /\ UNCHANGED <<relayerVars, proofVars, hookVars, ttlVars, cacheVars,
                       rateVars, oracleVars>>
       \/ /\ program = "relayer" /\ RelayerNext
          /\ UNCHANGED <<batchVars, proofVars, hookVars, ttlVars, cacheVars, rateVars,
                       oracleVars>>
       \/ /\ program = "proofs" /\ ProofsNext
          /\ UNCHANGED <<batchVars, relayerVars, hookVars, ttlVars, cacheVars,
                       rateVars, oracleVars>>
       \/ /\ program = "webhooks" /\ HooksNext
          /\ UNCHANGED <<batchVars, relayerVars, proofVars, ttlVars, cacheVars,
                       rateVars, oracleVars>>
       \/ /\ program = "ttl" /\ TtlNext
          /\ UNCHANGED <<batchVars, relayerVars, proofVars, hookVars, cacheVars,
                       rateVars, oracleVars>>
       \/ /\ program = "cache" /\ CacheNext
          /\ UNCHANGED <<batchVars, relayerVars, proofVars, hookVars, ttlVars,
                       rateVars, oracleVars>>
       \/ /\ program = "limiter" /\ RateNext
          /\ UNCHANGED <<batchVars, relayerVars, proofVars, hookVars, ttlVars,
                       cacheVars, oracleVars>>
       \/ /\ program = "oracle" /\ OracleNext
          /\ UNCHANGED <<batchVars, relayerVars, proofVars, hookVars, ttlVars,
                       cacheVars, rateVars>>

\* Awaits end, and the timers that the programs arm go on ticking.
BackendFairness ==
    /\ \A c \in BatchCalls : WF_batchVars(program = "batches" /\ CallStep(c))
    /\ WF_batchVars(program = "batches" /\ TimerTick)
    /\ WF_ttlVars(program = "ttl" /\ StartScan)
    /\ WF_ttlVars(program = "ttl" /\ (ReadTtls \/ ScanFails))
    /\ WF_ttlVars(program = "ttl" /\ BumpStep)
    /\ WF_ttlVars(program = "ttl" /\ EndScan)
    /\ \A a \in CachedAddresses : WF_cacheVars(program = "cache" /\ LoadProgress(a))
    /\ WF_oracleVars(program = "oracle" /\ OracleTick)
    /\ WF_oracleVars(program = "oracle" /\ WorkerStep)

BackendSpec == BackendInit /\ [][BackendNext]_backendVars /\ BackendFairness
=============================================================================
