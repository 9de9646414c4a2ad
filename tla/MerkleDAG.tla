----------------------------- MODULE MerkleDAG ------------------------------
(***************************************************************************)
(* The causal history of a synchronised document: the graph of its deltas, *)
(* and the session that heals it.                                          *)
(***************************************************************************)
EXTENDS EventLoop, SequencesExt

-----------------------------------------------------------------------------
(***************************************************************************)
(* The causal history of the offline store (frontend lib/crdt/merkleDAG.ts)*)
(* as a graph of nodes that arrive in any order.  The hash that names a    *)
(* node is its number, and every history has parents with smaller numbers. *)
(***************************************************************************)

CONSTANT MaxNodes   \* bound: nodes of a history

ASSUME DagAssumption == MaxNodes \in Nat

VARIABLES
    parents,        \* of every node in the DAG, in the order of its array
    nodes,          \* the nodes in the DAG
    tipSet

dagVars == <<parents, nodes, tipSet>>

DagNodes == 1..MaxNodes

DagInit ==
    /\ parents = [n \in DagNodes |-> << >>]
    /\ nodes = {}
    /\ tipSet = {}

\* The parents a node may be made with: the tips its author had, older than itself
ParentLists(n) == {list \in SeqOf(1..(n - 1), n - 1) : IsInjective(list)}

addNode(n, list) ==
    /\ n \notin nodes
    /\ nodes' = nodes \cup {n}
    /\ parents' = [parents EXCEPT ![n] = list]
    /\ tipSet' = (tipSet \cup {n}) \ ToSet(list)

DagNext == \E n \in DagNodes : \E list \in ParentLists(n) : addNode(n, list)

DagSpec == DagInit /\ [][DagNext]_dagVars
-----------------------------------------------------------------------------
Expand(queue) == Tail(queue) \o (IF Head(queue) \in nodes THEN parents[Head(queue)] ELSE << >>)

\* One turn of both searches of findLCA; only what the first has visited ends the second.
Turn(search) ==
    LET a == Head(search.queueA)
        b == Head(search.queueB)
        visited == search.visitedA \cup (IF search.queueA = << >> THEN {} ELSE {a})
        nextA == IF search.queueA = << >> THEN << >>
                 ELSE IF a \in search.visitedA THEN Tail(search.queueA) ELSE Expand(search.queueA)
    IN
    IF search.lca # None THEN search
    ELSE IF search.queueB = << >>
    THEN [search EXCEPT !.queueA = nextA, !.visitedA = visited]
    ELSE IF b \in visited
    THEN [search EXCEPT !.queueA = nextA, !.visitedA = visited, !.lca = b]
    ELSE [search EXCEPT !.queueA = nextA, !.visitedA = visited, !.queueB = Expand(search.queueB)]

\* No search takes more turns than there are sets of nodes: every turn takes the end of
\* another path from the queue, and a path to older and older nodes is a set of them.
MaxTurns == Cardinality(SUBSET DagNodes)

Search(a, b, visited) ==
    LET after[k \in 0..MaxTurns] ==
            IF k = 0 THEN [queueA |-> <<a>>, visitedA |-> visited, queueB |-> <<b>>, lca |-> None]
            ELSE Turn(after[k - 1])
    IN  after[MaxTurns].lca

\* Mutant: both nodes count as visited from the start.
findLCA_Seeded(a, b) == Search(a, b, {b})

findLCA(a, b) == Search(a, b, {})

\* A set is closed that holds the parents of every node of it that is there.
Closed(S) == \A n \in S \cap nodes : parents[n] \in Seq(S)

\* walkAncestry without a depth visits what is reachable through nodes that are there.
walkAncestry(n) == {m \in nodes : \A S \in SUBSET DagNodes : n \in S /\ Closed(S) => m \in S}
-----------------------------------------------------------------------------
\* Whatever order nodes arrive in, a walk from the tips visits every node (heal
\* examines no others): a node that nothing builds on is never lost from the tips.
TipsReachAll == UNION {walkAncestry(t) : t \in tipSet} = nodes

\* What findLCA returns is an ancestor of both nodes, or one of them.
LCAIsCommon ==
    \A a, b \in nodes :
        LET lca == findLCA(a, b) IN
        lca # None /\ lca \in nodes => lca \in walkAncestry(a) /\ lca \in walkAncestry(b)

-----------------------------------------------------------------------------
(***************************************************************************)
(* One end of a sync session that tracks causal history and heals it       *)
(* (frontend lib/crdt/dagSyncSession.ts, byzantineHealer.ts): honest       *)
(* authors, each with a chain of deltas whose clock is its own counter, and*)
(* a transport that may deliver a delta before the one it builds on.       *)
(***************************************************************************)

CONSTANTS
    Authors,        \* the peers whose deltas arrive
    Local,          \* this peer
    MaxDeltas       \* bound: deltas of an author

ASSUME DagSessionAssumption == Local \notin Authors /\ MaxDeltas \in Nat

VARIABLES
    history,        \* nodes of the DAG, as <<author, seq>>
    tips,
    quarantinedHashes,
    overtaken       \* nodes that arrived after a later node of their author

healVars == <<history, tips, quarantinedHashes, overtaken>>

HealInit ==
    /\ history = {}
    /\ tips = {}
    /\ quarantinedHashes = {}
    /\ overtaken = {}

Parent(n) == <<n[1], n[2] - 1>>

\* addNode
Tips(n) == (tips \cup {n}) \ {Parent(n)}

LocalSeq == Cardinality({n \in history : n[1] = Local})

\* trackLocalDelta
TrackLocalDelta ==
    LET n == <<Local, LocalSeq + 1>> IN
    /\ LocalSeq < MaxDeltas
    /\ history' = history \cup {n}
    /\ tips' = Tips(n)
    /\ UNCHANGED <<quarantinedHashes, overtaken>>

\* findLCA finds the older of two deltas of one author if nothing is missing in between.
Connected(n, tip, present) == \A k \in n[2]..tip[2] : <<n[1], k>> \in present

\* heal, phase 2: older deltas of an author that do not connect to a known tip of it
Forks(n, present, allTips) ==
    {m \in present : \E tip \in allTips :
        /\ tip[1] # n[1] /\ tip[1] = m[1]
        /\ m[2] < tip[2]
        /\ ~ Connected(m, tip, present)}

\* quarantineSubtree: the node, and the tip that builds on it
Subtrees(S, allTips) == S \cup {t \in allTips : Parent(t) \in S}

\* processIncomingNode
ProcessIncomingNode(n) ==
    LET present == history \cup {n}
        allTips == IF n \in history THEN tips ELSE Tips(n)
        forks == Forks(n, present, allTips) \ quarantinedHashes
    IN
    IF n \in quarantinedHashes
    THEN UNCHANGED healVars
    ELSE /\ history' = present
         /\ tips' = allTips
         /\ quarantinedHashes' = quarantinedHashes \cup Subtrees(forks, allTips)
         /\ overtaken' = IF n \notin history /\ \E m \in history : m[1] = n[1] /\ m[2] > n[2]
                         THEN overtaken \cup {n} ELSE overtaken

HealNext ==
    \/ TrackLocalDelta
    \/ \E a \in Authors, k \in 1..MaxDeltas : ProcessIncomingNode(<<a, k>>)

HealSpec == HealInit /\ [][HealNext]_healVars
-----------------------------------------------------------------------------
Missing(a) == {k \in 1..MaxDeltas : <<a, k>> \notin history /\ \E m \in history : m[1] = a /\ m[2] > k}

\* No delta of an honest author is put in quarantine unless a delta of that author is
\* missing or came late: interleaving the deltas of several authors with this peer's
\* own, and receiving them again, is harmless.  A delta that is merely late is enough,
\* and no later arrival lifts the quarantine (heal, phase 2).
HonestDeltasAreAccepted ==
    \A n \in quarantinedHashes :
        Missing(n[1]) # {} \/ \E m \in overtaken : m[1] = n[1]

\* The history serves what it is for: common ancestors are common, the tips lead to
\* everything, and an honest author is not taken for one that forks.
HistoryIsSound == LCAIsCommon /\ TipsReachAll /\ HonestDeltasAreAccepted
=============================================================================
