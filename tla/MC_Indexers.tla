----------------------------- MODULE MC_Indexers -----------------------------
(***************************************************************************)
(* Small instances for TLC of the two indexers of the backend: the stream  *)
(* of events and the finality indexer with its store, one worker alone.    *)
(* They share no state and each has properties of its own, so one of them  *)
(* runs in a behaviour, chosen at the start.                               *)
(***************************************************************************)
EXTENDS EventStream, LedgerIndexer, TLC

VARIABLE program    \* the program that runs in this behaviour

indexersVars == <<program, streamVars, vars>>

IndexersInit ==
    /\ program \in {"stream", "ledgers"}
    /\ StreamInit /\ IndexerInit
    \* one initial state is enough for a program that does not run
    /\ program # "stream" => conn = Booted(CHOOSE c \in Connections : TRUE)
    /\ program # "ledgers" => chain = <<CHOOSE f \in Forks : TRUE>>

IndexersNext ==
    /\ UNCHANGED program
    /\ \/ /\ program = "stream" /\ StreamNext
          /\ UNCHANGED <<vars>>
       \/ /\ program = "ledgers" /\ IndexerNext
          /\ UNCHANGED <<streamVars>>

\* StreamFairness and the fairness of FairIndexerSpec.
IndexersFairness ==
    /\ \A c \in Connections :
        /\ WF_streamVars(program = "stream" /\ ReadCursor(c))
        /\ WF_streamVars(program = "stream" /\ OpenStream(c))
        /\ WF_streamVars(program = "stream" /\ Deliver(c))
    /\ \A r \in Record :
        /\ WF_streamVars(program = "stream" /\ (EventHandled(r) \/ EventFails(r)))
        /\ WF_streamVars(program = "stream" /\ SaveCursor(r))
    /\ WF_streamVars(program = "stream" /\ ReconnectTimer)
    /\ \A w \in Workers : WF_vars(program = "ledgers" /\ Sync(w))
    /\ WF_vars(program = "ledgers" /\ CloseLedger)

\* Competing workers alone, who are alike, like the branches of the source.
WorkersInit == program = "ledgers" /\ IndexersInit
WorkersSpec == WorkersInit /\ [][IndexersNext]_indexersVars

MC_Alike == Permutations(Workers) \cup Permutations(Forks)

IndexersSpec == IndexersInit /\ [][IndexersNext]_indexersVars /\ IndexersFairness
=============================================================================
