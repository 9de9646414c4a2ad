----------------------------- MODULE MC_ClientSync -----------------------------
(***************************************************************************)
(* Small instances for TLC of what the frontend does to keep tabs and      *)
(* peers in step.  The programs share no state and each has properties of  *)
(* its own, so one of them runs in a behaviour, chosen at the start.       *)
(***************************************************************************)
EXTENDS PeerSync, OfflineStore, MerkleDAG, MeshGossip, TLC

VARIABLE program    \* the program that runs in this behaviour

clientSyncVars == <<program, peerVars, tabVars, offVars, dagVars, healVars, gossipVars,
                    meshVars, scoreVars, roomVars>>

\* Tabs differ in nothing but in what they do.
MC_TabSymmetry == Permutations(Tabs)

ClientSyncInit ==
    /\ program \in {"sessions", "tabs", "store", "dag", "healer", "gossip", "mesh",
                     "scores", "discovery"}
    /\ PeerInit /\ TabInit /\ OffInit /\ DagInit /\ HealInit /\ GossipInit
    /\ MeshInit /\ ScoreInit /\ DiscoveryInit

ClientSyncNext ==
    /\ UNCHANGED program
    /\ \/ /\ program = "sessions" /\ PeerNext
          /\ UNCHANGED <<tabVars, offVars, dagVars, healVars, gossipVars, meshVars,
                       scoreVars, roomVars>>
       \/ /\ program = "tabs" /\ TabNext
          /\ UNCHANGED <<peerVars, offVars, dagVars, healVars, gossipVars, meshVars,
                       scoreVars, roomVars>>
       \/ /\ program = "store" /\ OffNext
          /\ UNCHANGED <<peerVars, tabVars, dagVars, healVars, gossipVars, meshVars,
                       scoreVars, roomVars>>
       \/ /\ program = "dag" /\ DagNext
          /\ UNCHANGED <<peerVars, tabVars, offVars, healVars, gossipVars, meshVars,
                       scoreVars, roomVars>>
       \/ /\ program = "healer" /\ HealNext
          /\ UNCHANGED <<peerVars, tabVars, offVars, dagVars, gossipVars, meshVars,
                       scoreVars, roomVars>>
       \/ /\ program = "gossip" /\ GossipNext
          /\ UNCHANGED <<peerVars, tabVars, offVars, dagVars, healVars, meshVars,
                       scoreVars, roomVars>>
       \/ /\ program = "mesh" /\ MeshNext
          /\ UNCHANGED <<peerVars, tabVars, offVars, dagVars, healVars, gossipVars,
                       scoreVars, roomVars>>
       \/ /\ program = "scores" /\ ScoreNext
          /\ UNCHANGED <<peerVars, tabVars, offVars, dagVars, healVars, gossipVars,
                       meshVars, roomVars>>
       \/ /\ program = "discovery" /\ DiscoveryNext
          /\ UNCHANGED <<peerVars, tabVars, offVars, dagVars, healVars, gossipVars,
                       meshVars, scoreVars>>

ClientSyncSpec == ClientSyncInit /\ [][ClientSyncNext]_clientSyncVars
=============================================================================
