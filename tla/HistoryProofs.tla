--------------------------- MODULE HistoryProofs ---------------------------
(***************************************************************************)
(* Proofs about what the client follows.  The causal history of a          *)
(* synchronised document, for any number of nodes, authors and deltas,     *)
(* arriving in any order: the common ancestor the search finds is one, the *)
(* tips lead to every node, and an honest author whose deltas came in      *)
(* order is not taken for one that forks.  The events of the contract, for *)
(* any history: the index in the browser shows what the contract holds     *)
(* when it has caught up, and the store of the page never goes back.  The  *)
(* claims of the client about its own commitments, whatever the chain does *)
(* with them: what it says is included or final can be proved.             *)
(***************************************************************************)
EXTENDS MerkleDAG, ClientFeeds, OptimisticRollup, DataTheorems, SequenceTheorems

-----------------------------------------------------------------------------
(***************************************************************************)
(* The graph: its parents are older, so what is not a tip has a child.     *)
(***************************************************************************)

\* What nothing builds on is a tip.
DagInv ==
    /\ nodes \subseteq DagNodes /\ tipSet \subseteq nodes
    /\ parents = [n \in DagNodes |-> parents[n]]
    /\ \A n \in DagNodes : parents[n] \in Seq(1..(n - 1))
    /\ \A n \in nodes \ tipSet : \E child \in nodes : n \in ToSet(parents[child])

LEMMA ParentsAreOlder ==
    ASSUME NEW n \in DagNodes, NEW list \in ParentLists(n)
    PROVE  list \in Seq(1..(n - 1))
<1>1. PICK k \in 0..(n - 1) : list \in [1..k -> 1..(n - 1)] BY DEF ParentLists, SeqOf
<1>2. k \in Nat BY <1>1, DagAssumption DEF DagNodes
<1> QED BY <1>1, <1>2, SeqDef

\* A sequence over a set holds elements of that set, and is one over a larger set.
LEMMA SequencesOver ==
    ASSUME NEW S, NEW list \in Seq(S)
    PROVE  ToSet(list) \subseteq S /\ \A T : S \subseteq T => list \in Seq(T)
<1>1. ASSUME NEW i \in DOMAIN list PROVE list[i] \in S
      <2>1. i \in 1..Len(list) OBVIOUS
      <2> QED BY <2>1, ElementOfSeq
<1>2. ASSUME NEW T, S \subseteq T PROVE list \in Seq(T)
      <2>1. PICK n \in Nat : list \in [1..n -> S] BY SeqDef
      <2>2. list \in [1..n -> T] BY <1>2, <2>1
      <2> QED BY <2>2, SeqDef
<1> QED BY <1>1, <1>2 DEF ToSet

LEMMA DagStart == DagInit => DagInv
<1> SUFFICES ASSUME DagInit PROVE DagInv OBVIOUS
<1>1. ASSUME NEW n \in DagNodes PROVE << >> \in Seq(1..(n - 1)) OBVIOUS
<1> QED BY <1>1 DEF DagInit, DagInv

LEMMA DagHolds == DagInv /\ [DagNext]_dagVars => DagInv'
<1> SUFFICES ASSUME DagInv, [DagNext]_dagVars PROVE DagInv' OBVIOUS
<1>1. ASSUME NEW n \in DagNodes, NEW list \in ParentLists(n), addNode(n, list) PROVE DagInv'
      <2>1. list \in Seq(1..(n - 1)) BY ParentsAreOlder
      <2>2. /\ nodes' = nodes \cup {n} /\ n \notin nodes
            /\ parents' = [parents EXCEPT ![n] = list]
            /\ tipSet' = (tipSet \cup {n}) \ ToSet(list)
            BY <1>1 DEF addNode
      <2>3. parents' = [m \in DagNodes |-> IF m = n THEN list ELSE parents[m]]
            BY <2>2 DEF DagInv
      <2>4. n \notin ToSet(list)
            <3>1. n \notin 1..(n - 1) BY DagAssumption DEF DagNodes
            <3> QED BY <2>1, <3>1, SequencesOver
      <2>5. ASSUME NEW m \in nodes' \ tipSet'
            PROVE  \E child \in nodes' : m \in ToSet(parents'[child])
            <3>1. CASE m \in ToSet(list)
                  <4>1. parents'[n] = list /\ n \in nodes' BY <2>2, <2>3
                  <4> QED BY <3>1, <4>1
            <3>2. CASE m \notin ToSet(list)
                  <4>1. m \in nodes \ tipSet BY <2>2, <3>2
                  <4>2. PICK child \in nodes : m \in ToSet(parents[child]) BY <4>1 DEF DagInv
                  <4>3. child \in nodes' /\ parents'[child] = parents[child]
                        BY <2>2, <2>3 DEF DagInv
                  <4> QED BY <4>2, <4>3
            <3> QED BY <3>1, <3>2
      <2>6. \A m \in DagNodes : parents'[m] \in Seq(1..(m - 1)) BY <2>1, <2>3 DEF DagInv
      <2>7. nodes' \subseteq DagNodes /\ tipSet' \subseteq nodes' BY <2>2 DEF DagInv
      <2>8. parents' = [m \in DagNodes |-> parents'[m]] BY <2>3
      <2> QED BY <2>5, <2>6, <2>7, <2>8 DEF DagInv
<1>2. CASE UNCHANGED dagVars BY <1>2 DEF dagVars, DagInv
<1> QED BY <1>1, <1>2 DEF DagNext

\* A walk from a node that is there visits it, and goes on to the parents of what it visits.
LEMMA WalksGoOn ==
    /\ \A n \in nodes : n \in walkAncestry(n)
    /\ \A t, child, n \in nodes :
           child \in walkAncestry(t) /\ n \in ToSet(parents[child]) => n \in walkAncestry(t)
<1>1. \A n \in nodes : n \in walkAncestry(n) BY DEF walkAncestry
<1>2. ASSUME NEW t \in nodes, NEW child \in nodes, NEW n \in nodes,
             child \in walkAncestry(t), n \in ToSet(parents[child])
      PROVE  n \in walkAncestry(t)
      <2>1. ASSUME NEW S \in SUBSET DagNodes, t \in S, Closed(S) PROVE n \in S
            <3>1. child \in S BY <1>2, <2>1 DEF walkAncestry
            <3>2. parents[child] \in Seq(S) BY <2>1, <3>1 DEF Closed
            <3> QED BY <1>2, <3>2, SequencesOver
      <2> QED BY <2>1 DEF walkAncestry
<1> QED BY <1>1, <1>2

LEMMA TipsLeadToAll == DagInv => TipsReachAll
<1> SUFFICES ASSUME DagInv PROVE TipsReachAll OBVIOUS
<1> DEFINE Lost == {k \in Nat : \E n \in nodes : k = MaxNodes - n
                                 /\ \A t \in tipSet : n \notin walkAncestry(t)}
<1>1. Lost = {}
      <2> SUFFICES ASSUME Lost # {} PROVE FALSE OBVIOUS
      <2>1. PICK k \in Lost : \A j \in Lost : k <= j
            <3>1. Lost \in SUBSET Nat OBVIOUS
            <3> HIDE DEF Lost
            <3> QED BY <3>1, LeastExists
      <2>2. PICK n \in nodes : k = MaxNodes - n /\ \A t \in tipSet : n \notin walkAncestry(t)
            BY <2>1
      <2>3. n \notin tipSet BY <2>2, WalksGoOn
      <2>4. PICK child \in nodes : n \in ToSet(parents[child]) BY <2>2, <2>3 DEF DagInv
      <2>5. child \in DagNodes /\ n \in 1..(child - 1)
            <3>1. child \in DagNodes /\ parents[child] \in Seq(1..(child - 1)) BY DEF DagInv
            <3> QED BY <2>4, <3>1, SequencesOver
      <2>6. ASSUME NEW t \in tipSet PROVE child \notin walkAncestry(t)
            <3>1. t \in nodes BY DEF DagInv
            <3> QED BY <2>2, <2>4, <3>1, WalksGoOn
      <2>7. MaxNodes - child \in Lost /\ ~ (k <= MaxNodes - child)
            BY <2>2, <2>5, <2>6, DagAssumption DEF DagNodes
      <2> HIDE DEF Lost
      <2> QED BY <2>1, <2>7
<1>2. ASSUME NEW n \in nodes PROVE \E t \in tipSet : n \in walkAncestry(t)
      <2>1. MaxNodes - n \in Nat BY DagAssumption DEF DagInv, DagNodes
      <2> QED BY <1>1, <2>1
<1>3. \A t : walkAncestry(t) \subseteq nodes BY DEF walkAncestry
<1> QED BY <1>2, <1>3 DEF TipsReachAll

-----------------------------------------------------------------------------
(***************************************************************************)
(* The search for a common ancestor stays within what is reachable.        *)
(***************************************************************************)

\* A search whose first half stays in S and whose second half stays in T
SearchOf(S, T) ==
    [queueA : Seq(S), visitedA : SUBSET S, queueB : Seq(T), lca : {None} \cup (S \cap T)]

LEMMA ExpandStays ==
    ASSUME NEW S, Closed(S), NEW queue \in Seq(S), queue # << >>
    PROVE  /\ Head(queue) \in S /\ Tail(queue) \in Seq(S)
           /\ Expand(queue) \in Seq(S)
<1>1. Head(queue) \in S /\ Tail(queue) \in Seq(S) OBVIOUS
<1>2. CASE Head(queue) \in nodes
      <2>1. parents[Head(queue)] \in Seq(S) BY <1>1, <1>2 DEF Closed
      <2> QED BY <1>1, <1>2, <2>1 DEF Expand
<1>3. CASE Head(queue) \notin nodes BY <1>1, <1>3 DEF Expand
<1> QED BY <1>1, <1>2, <1>3

LEMMA TurnStays ==
    ASSUME NEW S, NEW T, Closed(S), Closed(T), NEW search \in SearchOf(S, T)
    PROVE  Turn(search) \in SearchOf(S, T)
<1> DEFINE a == Head(search.queueA)
           b == Head(search.queueB)
           visited == search.visitedA \cup (IF search.queueA = << >> THEN {} ELSE {a})
           nextA == IF search.queueA = << >> THEN << >>
                    ELSE IF a \in search.visitedA THEN Tail(search.queueA)
                    ELSE Expand(search.queueA)
<1>1. /\ search.queueA \in Seq(S) /\ search.queueB \in Seq(T)
      /\ search.visitedA \in SUBSET S /\ search.lca \in {None} \cup (S \cap T)
      BY DEF SearchOf
<1>2. visited \in SUBSET S /\ nextA \in Seq(S)
      <2>1. CASE search.queueA = << >> BY <1>1, <2>1
      <2>2. CASE search.queueA # << >>
            <3>1. a \in S /\ Tail(search.queueA) \in Seq(S) /\ Expand(search.queueA) \in Seq(S)
                  BY <1>1, <2>2, ExpandStays
            <3> QED BY <1>1, <2>2, <3>1
      <2> QED BY <2>1, <2>2
<1> HIDE DEF a, visited, nextA
<1>3. CASE search.lca # None
      <2>1. Turn(search) = search BY <1>3 DEF Turn
      <2> QED BY <2>1
<1>4. CASE search.lca = None /\ search.queueB = << >>
      <2>1. Turn(search) = [search EXCEPT !.queueA = nextA, !.visitedA = visited]
            BY <1>4 DEF Turn, nextA, visited, a
      <2> QED BY <1>1, <1>2, <2>1 DEF SearchOf
<1>5. CASE search.lca = None /\ search.queueB # << >>
      <2>1. b \in T /\ Expand(search.queueB) \in Seq(T) BY <1>1, <1>5, ExpandStays
      <2>2. CASE b \in visited
            <3>1. Turn(search) = [search EXCEPT !.queueA = nextA, !.visitedA = visited, !.lca = b]
                  BY <1>5, <2>2 DEF Turn, nextA, visited, a
            <3>2. b \in {None} \cup (S \cap T) BY <1>2, <2>1, <2>2
            <3> HIDE DEF b
            <3> QED BY <1>1, <1>2, <3>1, <3>2 DEF SearchOf
      <2>3. CASE b \notin visited
            <3>1. Turn(search) = [search EXCEPT !.queueA = nextA, !.visitedA = visited,
                                                !.queueB = Expand(search.queueB)]
                  BY <1>5, <2>3 DEF Turn, nextA, visited, a
            <3> QED BY <1>1, <1>2, <2>1, <3>1 DEF SearchOf
      <2> QED BY <2>2, <2>3
<1> QED BY <1>3, <1>4, <1>5

IsRun(f, start) == f = [k \in 0..MaxTurns |-> IF k = 0 THEN start ELSE Turn(f[k - 1])]

LEMMA TurnsAreNumbers == MaxTurns \in Nat
<1>1. IsFiniteSet(DagNodes) BY FS_Interval, DagAssumption DEF DagNodes
<1>2. IsFiniteSet(SUBSET DagNodes) BY <1>1, FS_SUBSET
<1> QED BY <1>2, FS_CardinalityType DEF MaxTurns

\* There is a function from turns to searches, as Search defines it.
LEMMA RunExists == ASSUME NEW start PROVE \E f : IsRun(f, start)
<1> DEFINE Step(f, k) == IF k = 0 THEN start ELSE Turn(f[k - 1])
           Upto(f, n) == \A k \in 0..MaxTurns : k <= n => f[k] = Step(f, k)
           Without == {n \in Nat : ~ \E f : Upto(f, n)}
<1>0. MaxTurns \in Nat BY TurnsAreNumbers
<1>1. \E f : Upto(f, 0)
      <2> DEFINE f == [k \in {0} |-> start]
      <2>1. f[0] = start OBVIOUS
      <2> HIDE DEF f
      <2>2. Upto(f, 0) BY <2>1, <1>0
      <2> QED BY <2>2
<1>2. ASSUME NEW n \in Nat, NEW f, Upto(f, n) PROVE \E g : Upto(g, n + 1)
      <2> DEFINE g == [k \in 0..MaxTurns |-> Step(f, k)]
      <2>1. ASSUME NEW k \in 0..MaxTurns, k <= n + 1 PROVE g[k] = Step(g, k)
            <3>1. CASE k = 0 BY <3>1
            <3>2. CASE k # 0
                  <4>1. k - 1 \in 0..MaxTurns /\ k - 1 <= n BY <1>0, <2>1, <3>2
                  <4>2. f[k - 1] = Step(f, k - 1) BY <1>2, <4>1
                  <4>3. g[k - 1] = Step(f, k - 1) BY <4>1
                  <4>4. g[k] = Turn(f[k - 1]) BY <3>2
                  <4> HIDE DEF g
                  <4>5. g[k] = Turn(g[k - 1]) BY <4>2, <4>3, <4>4
                  <4> QED BY <3>2, <4>5
            <3> QED BY <3>1, <3>2
      <2> HIDE DEF g
      <2>2. Upto(g, n + 1) BY <2>1
      <2> QED BY <2>2
<1>3. Without = {}
      <2> SUFFICES ASSUME Without # {} PROVE FALSE OBVIOUS
      <2>1. PICK n \in Without : \A m \in Without : n <= m
            <3>1. Without \in SUBSET Nat OBVIOUS
            <3> HIDE DEF Without
            <3> QED BY <3>1, LeastExists
      <2>2. n # 0 BY <1>1, <2>1
      <2>3. n - 1 \in Nat /\ n - 1 \notin Without
            <3>1. n - 1 \in Nat /\ ~ (n <= n - 1) BY <2>2
            <3> HIDE DEF Without
            <3> QED BY <2>1, <3>1
      <2>4. PICK f : Upto(f, n - 1) BY <2>3
      <2>5. \E g : Upto(g, (n - 1) + 1)
            <3> HIDE DEF Upto
            <3> QED BY <1>2, <2>3, <2>4
      <2>6. (n - 1) + 1 = n OBVIOUS
      <2> QED BY <2>1, <2>5, <2>6
<1>4. PICK f : Upto(f, MaxTurns)
      <2> HIDE DEF Upto
      <2> QED BY <1>0, <1>3
<1> DEFINE g == [k \in 0..MaxTurns |-> f[k]]
<1>5. ASSUME NEW k \in 0..MaxTurns PROVE g[k] = Step(g, k)
      <2>1. g[k] = f[k] /\ f[k] = Step(f, k) BY <1>0, <1>4
      <2>2. CASE k = 0 BY <2>1, <2>2
      <2>3. CASE k # 0
            <3>1. k - 1 \in 0..MaxTurns BY <1>0, <2>3
            <3>2. g[k - 1] = f[k - 1] BY <3>1
            <3> HIDE DEF g
            <3> QED BY <2>1, <2>3, <3>2
      <2> QED BY <2>2, <2>3
<1>6. g = [k \in 0..MaxTurns |-> g[k]] OBVIOUS
<1> HIDE DEF g
<1>7. g = [k \in 0..MaxTurns |-> Step(g, k)] BY <1>5, <1>6
<1> QED BY <1>7 DEF IsRun

\* Whatever both nodes lead to no further than, the search finds nothing beyond.
LEMMA SearchStays ==
    ASSUME NEW S, NEW T, Closed(S), Closed(T), NEW a \in S, NEW b \in T
    PROVE  findLCA(a, b) \in {None} \cup (S \cap T)
<1> DEFINE start == [queueA |-> <<a>>, visitedA |-> {}, queueB |-> <<b>>, lca |-> None]
           f == CHOOSE g : IsRun(g, start)
<1>0. MaxTurns \in Nat BY TurnsAreNumbers
<1>1. IsRun(f, start)
      <2> HIDE DEF start
      <2> QED BY RunExists
<1>2. findLCA(a, b) = f[MaxTurns].lca BY DEF findLCA, Search, IsRun
<1>3. start \in SearchOf(S, T) BY DEF SearchOf
<1> HIDE DEF start, f
<1>4. ASSUME NEW k \in 0..MaxTurns PROVE f[k] = IF k = 0 THEN start ELSE Turn(f[k - 1])
      BY <1>1 DEF IsRun
<1> DEFINE Astray == {k \in Nat : k <= MaxTurns /\ f[k] \notin SearchOf(S, T)}
<1>5. Astray = {}
      <2> SUFFICES ASSUME Astray # {} PROVE FALSE OBVIOUS
      <2>1. PICK k \in Astray : \A j \in Astray : k <= j
            <3>1. Astray \in SUBSET Nat OBVIOUS
            <3> HIDE DEF Astray
            <3> QED BY <3>1, LeastExists
      <2>2. k \in 0..MaxTurns BY <1>0, <2>1
      <2>3. CASE k = 0 BY <1>3, <1>4, <2>1, <2>2, <2>3
      <2>4. CASE k # 0
            <3>1. k - 1 \in Nat /\ k - 1 <= MaxTurns /\ ~ (k <= k - 1) BY <1>0, <2>2, <2>4
            <3>2. k - 1 \notin Astray
                  <4> HIDE DEF Astray
                  <4> QED BY <2>1, <3>1
            <3>3. f[k - 1] \in SearchOf(S, T) BY <3>1, <3>2
            <3>4. f[k] = Turn(f[k - 1]) BY <1>4, <2>2, <2>4
            <3> QED BY <2>1, <3>3, <3>4, TurnStays
      <2> QED BY <2>3, <2>4
<1>6. f[MaxTurns] \in SearchOf(S, T) BY <1>0, <1>5
<1> QED BY <1>2, <1>6 DEF SearchOf

LEMMA AncestorsAreCommon == DagInv => LCAIsCommon
<1> SUFFICES ASSUME DagInv, NEW a \in nodes, NEW b \in nodes,
                    findLCA(a, b) # None, findLCA(a, b) \in nodes
             PROVE  findLCA(a, b) \in walkAncestry(a) /\ findLCA(a, b) \in walkAncestry(b)
    BY DEF LCAIsCommon
<1>1. Closed(DagNodes)
      <2>1. ASSUME NEW n \in DagNodes PROVE parents[n] \in Seq(DagNodes)
            <3>1. parents[n] \in Seq(1..(n - 1)) BY DEF DagInv
            <3>2. 1..(n - 1) \subseteq DagNodes BY DagAssumption DEF DagNodes
            <3> QED BY <3>1, <3>2, SequencesOver
      <2> QED BY <2>1 DEF Closed
<1>2. a \in DagNodes /\ b \in DagNodes BY DEF DagInv
<1>3. ASSUME NEW S \in SUBSET DagNodes, a \in S, Closed(S) PROVE findLCA(a, b) \in S
      BY <1>1, <1>2, <1>3, SearchStays
<1>4. ASSUME NEW S \in SUBSET DagNodes, b \in S, Closed(S) PROVE findLCA(a, b) \in S
      BY <1>1, <1>2, <1>4, SearchStays
<1> HIDE DEF findLCA, Closed
<1> QED BY <1>3, <1>4 DEF walkAncestry

-----------------------------------------------------------------------------
(***************************************************************************)
(* The session that heals the history.                                     *)
(***************************************************************************)

\* What is missing of an author stays so until it arrives late, and of this peer's own
\* deltas none is ever missing.
HealInv ==
    /\ history \subseteq (Authors \cup {Local}) \X (1..MaxDeltas)
    /\ tips \subseteq history
    /\ \E k \in Nat : {n \in history : n[1] = Local} = {<<Local, i>> : i \in 1..k}
    /\ HonestDeltasAreAccepted

LEMMA HealStart == HealInit => HealInv
<1> SUFFICES ASSUME HealInit PROVE HealInv OBVIOUS
<1>1. history = {} /\ tips = {} /\ quarantinedHashes = {} BY DEF HealInit
<1>2. {n \in history : n[1] = Local} = {<<Local, i>> : i \in 1..0} BY <1>1
<1>3. 0 \in Nat OBVIOUS
<1> QED BY <1>1, <1>2, <1>3 DEF HealInv, HonestDeltasAreAccepted

\* The deltas of one author up to one of them are as many as its number says.
LEMMA ChainCount ==
    ASSUME NEW k \in Nat
    PROVE  Cardinality({<<Local, i>> : i \in 1..k}) = k
<1> DEFINE Chain == {<<Local, i>> : i \in 1..k}
           nth == [i \in 1..k |-> <<Local, i>>]
<1>1. nth \in Bijection(1..k, Chain)
      BY DEF Bijection, Injection, Surjection, IsInjective
<1>2. IsFiniteSet(1..k) /\ Cardinality(1..k) = k BY FS_Interval
<1> HIDE DEF Chain, nth
<1>3. ExistsBijection(1..k, Chain) BY <1>1 DEF ExistsBijection
<1>4. Cardinality(Chain) = Cardinality(1..k) BY <1>2, <1>3, FS_Bijection
<1> QED BY <1>2, <1>4 DEF Chain

LEMMA TrackHolds == HealInv /\ TrackLocalDelta => HealInv'
<1> SUFFICES ASSUME HealInv, TrackLocalDelta PROVE HealInv' OBVIOUS
<1>1. PICK k \in Nat : {m \in history : m[1] = Local} = {<<Local, i>> : i \in 1..k}
      BY DEF HealInv
<1>2. LocalSeq = k BY <1>1, ChainCount DEF LocalSeq
<1> DEFINE n == <<Local, k + 1>>
<1>3. /\ history' = history \cup {n} /\ tips' = (tips \cup {n}) \ {Parent(n)} /\ k < MaxDeltas
      /\ quarantinedHashes' = quarantinedHashes /\ overtaken' = overtaken
      BY <1>2 DEF TrackLocalDelta, Tips
<1>4. {m \in history' : m[1] = Local} = {<<Local, i>> : i \in 1..(k + 1)}
      <2>1. {m \in history' : m[1] = Local} = {<<Local, i>> : i \in 1..k} \cup {n}
            BY <1>1, <1>3
      <2>2. 1..(k + 1) = 1..k \cup {k + 1} OBVIOUS
      <2> QED BY <2>1, <2>2
<1>5. history' \subseteq (Authors \cup {Local}) \X (1..MaxDeltas)
      <2>1. k + 1 \in 1..MaxDeltas BY <1>3, DagSessionAssumption
      <2> QED BY <1>3, <2>1 DEF HealInv
<1>6. HonestDeltasAreAccepted'
      <2> SUFFICES ASSUME NEW q \in quarantinedHashes
                   PROVE  Missing(q[1])' # {} \/ \E m \in overtaken : m[1] = q[1]
          BY <1>3 DEF HonestDeltasAreAccepted
      <2>1. CASE \E m \in overtaken : m[1] = q[1] BY <2>1
      <2>2. CASE Missing(q[1]) # {}
            <3>1. PICK j \in 1..MaxDeltas : <<q[1], j>> \notin history
                                             /\ \E m \in history : m[1] = q[1] /\ m[2] > j
                  BY <2>2 DEF Missing
            <3>2. PICK m \in history : m[1] = q[1] /\ m[2] > j BY <3>1
            <3>3. <<q[1], j>> # n
                  <4> SUFFICES ASSUME q[1] = Local, j = k + 1 PROVE FALSE OBVIOUS
                  <4>1. m \in {<<Local, i>> : i \in 1..k} BY <1>1, <3>2
                  <4>2. m[2] \in 1..k BY <4>1
                  <4> QED BY <3>2, <4>2
            <3>4. j \in Missing(q[1])' BY <1>3, <3>1, <3>2, <3>3 DEF Missing
            <3> QED BY <3>4
      <2> QED BY <2>1, <2>2 DEF HealInv, HonestDeltasAreAccepted
<1>7. tips' \subseteq history' BY <1>3 DEF HealInv
<1>8. k + 1 \in Nat OBVIOUS
<1> QED BY <1>4, <1>5, <1>6, <1>7, <1>8 DEF HealInv

LEMMA IncomingHolds ==
    ASSUME HealInv, NEW a \in Authors, NEW k \in 1..MaxDeltas, ProcessIncomingNode(<<a, k>>)
    PROVE  HealInv'
<1> DEFINE n == <<a, k>>
           present == history \cup {n}
           allTips == IF n \in history THEN tips ELSE Tips(n)
           forks == Forks(n, present, allTips) \ quarantinedHashes
<1>1. CASE n \in quarantinedHashes
      <2>1. UNCHANGED healVars BY <1>1 DEF ProcessIncomingNode
      <2> QED BY <2>1 DEF healVars, HealInv, HonestDeltasAreAccepted, Missing
<1>2. CASE n \notin quarantinedHashes
      <2>1. /\ history' = present /\ tips' = allTips
            /\ quarantinedHashes' = quarantinedHashes \cup Subtrees(forks, allTips)
            /\ overtaken' = IF n \notin history /\ \E m \in history : m[1] = n[1] /\ m[2] > n[2]
                            THEN overtaken \cup {n} ELSE overtaken
            BY <1>2 DEF ProcessIncomingNode
      <2>2. history' \subseteq (Authors \cup {Local}) \X (1..MaxDeltas) BY <2>1 DEF HealInv
      <2>3. allTips \subseteq present BY DEF HealInv, Tips
      <2>4. a # Local BY DagSessionAssumption
      <2>5. {m \in history' : m[1] = Local} = {m \in history : m[1] = Local} BY <2>1, <2>4
      <2>6. ASSUME NEW q \in quarantinedHashes
            PROVE  Missing(q[1])' # {} \/ \E m \in overtaken' : m[1] = q[1]
            <3>1. CASE \E m \in overtaken : m[1] = q[1] BY <2>1, <3>1
            <3>2. CASE Missing(q[1]) # {}
                  <4>1. PICK j \in 1..MaxDeltas : <<q[1], j>> \notin history
                                                  /\ \E m \in history : m[1] = q[1] /\ m[2] > j
                        BY <3>2 DEF Missing
                  <4>2. CASE <<q[1], j>> = n
                        <5>1. q[1] = a /\ j = k BY <4>2
                        <5>2. n \in overtaken' BY <2>1, <4>1, <5>1
                        <5> QED BY <5>1, <5>2
                  <4>3. CASE <<q[1], j>> # n
                        <5>1. j \in Missing(q[1])' BY <2>1, <4>1, <4>3 DEF Missing
                        <5> QED BY <5>1
                  <4> QED BY <4>2, <4>3
            <3> QED BY <3>1, <3>2 DEF HealInv, HonestDeltasAreAccepted
      <2>7. ASSUME NEW m \in forks PROVE Missing(m[1])' # {}
            <3>1. m \in present /\ \E tip \in allTips : /\ tip[1] = m[1] /\ m[2] < tip[2]
                                                        /\ ~ Connected(m, tip, present)
                  BY DEF Forks
            <3>2. PICK tip \in allTips : /\ tip[1] = m[1] /\ m[2] < tip[2]
                                         /\ ~ Connected(m, tip, present)
                  BY <3>1
            <3>3. PICK j \in m[2]..tip[2] : <<m[1], j>> \notin present BY <3>2 DEF Connected
            <3>4. tip \in present BY <2>3
            <3>5. /\ m[2] \in 1..MaxDeltas /\ tip[2] \in 1..MaxDeltas
                  /\ tip = <<tip[1], tip[2]>>
                  BY <2>1, <2>2, <3>1, <3>4
            <3>6. j # tip[2] BY <3>2, <3>3, <3>4, <3>5
            <3>7. j \in 1..MaxDeltas /\ tip[2] > j BY <3>3, <3>5, <3>6, DagSessionAssumption
            <3>8. j \in Missing(m[1])' BY <2>1, <3>2, <3>3, <3>4, <3>7 DEF Missing
            <3> QED BY <3>8
      <2>8. ASSUME NEW q \in Subtrees(forks, allTips) PROVE Missing(q[1])' # {}
            <3> HIDE DEF forks, allTips
            <3>1. CASE q \in forks BY <2>7, <3>1
            <3>2. CASE q \in allTips /\ Parent(q) \in forks
                  <4>1. Parent(q)[1] = q[1] BY DEF Parent
                  <4>2. Missing(Parent(q)[1])' # {} BY <2>7, <3>2
                  <4> QED BY <4>1, <4>2
            <3> QED BY <3>1, <3>2 DEF Subtrees
      <2>9. HonestDeltasAreAccepted'
            <3> HIDE DEF forks, allTips, present
            <3> QED BY <2>1, <2>6, <2>8 DEF HonestDeltasAreAccepted
      <2> HIDE DEF forks
      <2> QED BY <2>1, <2>2, <2>3, <2>5, <2>9 DEF HealInv
<1> QED BY <1>1, <1>2

LEMMA HealHolds == HealInv /\ [HealNext]_healVars => HealInv'
<1> SUFFICES ASSUME HealInv, [HealNext]_healVars PROVE HealInv' OBVIOUS
<1>1. CASE TrackLocalDelta BY <1>1, TrackHolds
<1>2. ASSUME NEW a \in Authors, NEW k \in 1..MaxDeltas, ProcessIncomingNode(<<a, k>>)
      PROVE  HealInv'
      BY <1>2, IncomingHolds
<1>3. CASE UNCHANGED healVars
      BY <1>3 DEF healVars, HealInv, HonestDeltasAreAccepted, Missing
<1> QED BY <1>1, <1>2, <1>3 DEF HealNext

\* Whatever order nodes and deltas arrive in, and however many there are: common ancestors
\* are common, the tips lead to every node, and no delta of an honest author is put in
\* quarantine unless one of that author is missing or came late.
THEOREM HistoryStaysSound == DagSpec /\ HealSpec => []HistoryIsSound
<1>1. DagSpec => []DagInv BY DagStart, DagHolds, PTL DEF DagSpec
<1>2. HealSpec => []HealInv BY HealStart, HealHolds, PTL DEF HealSpec
<1>3. DagInv /\ HealInv => HistoryIsSound
      BY TipsLeadToAll, AncestorsAreCommon DEF HealInv, HistoryIsSound
<1> QED BY <1>1, <1>2, <1>3, PTL

-----------------------------------------------------------------------------
(***************************************************************************)
(* The indexer of the browser, for any history of the contract, any pages  *)
(* and any retention.                                                      *)
(***************************************************************************)

\* What the contract holds of a commitment.
ChainRow == {Row("Pending", None)} \cup {Row(o, o) : o \in Outcomes}
                \cup {Row("Disputed", o) : o \in Outcomes}

\* RowAfter, as the recursive function it is made of
IsRows(f, i, log) ==
    f = [n \in 0..Len(log) |->
            IF n = 0 THEN None
            ELSE IF log[n].id = i THEN RowsApplied(log[n], f[n - 1]) ELSE f[n - 1]]
AreRows(f, i, log) == IsRows(f, i, log) /\ \A g : IsRows(g, i, log) => g = f
Defined(i, log) == \E f : AreRows(f, i, log)

Settles(e) == e.type \in {"attested", "resolved"}
SettledAfter(log, i, p) ==
    \E m \in 1..Len(log) : m > p /\ log[m].id = i /\ Settles(log[m])
DisputedAfter(log, i, p) ==
    \E m \in 1..Len(log) : m > p /\ log[m].id = i /\ log[m].type = "disputed"

\* The panel decides, or lets the time pass: the index is not told.
Decides(e) == e.type \in Settlements \ ParsedTypes
Decided(log, i) == \E m \in 1..Len(log) : log[m].id = i /\ Decides(log[m])

\* The contract never settles what is not there or not open, so that the last parsed event
\* that settles a commitment, and whether it was disputed since, tell the row it has now,
\* or had until the panel decided.
Lawful(log, n, now) ==
    LET e == log[n]
    IN  /\ now \in ChainRow
        /\ ~ SettledAfter(log, e.id, n) =>
               /\ e.type = "created" => now = Row("Pending", None) /\ ~ Decided(log, e.id)
               /\ Settles(e) =>
                      IF Decided(log, e.id) THEN DisputedAfter(log, e.id, n)
                      ELSE /\ now.outcome = e.outcome
                           /\ now.status = e.outcome \/ DisputedAfter(log, e.id, n)
               /\ e.type = "disputed" => Decided(log, e.id) \/ now.status = "Disputed"
LawfulOf(log, i, now) ==
    /\ now \in {None} \cup ChainRow
    /\ \A n \in 1..Len(log) : log[n].id = i => Lawful(log, n, now)
    /\ Decided(log, i) => now # None /\ now.status \in Outcomes
    /\ Decided(log, i) \/ (now # None /\ now.status = "Disputed") => DisputedAfter(log, i, 0)

ContractInv ==
    /\ events \in Seq(ContractEvents)
    /\ \A i \in IndexedIds : Defined(i, events) /\ LawfulOf(events, i, RowAfter(i))

\* The events after p bring row r of commitment i to the one it has now, or, if the panel
\* has decided, to one that is disputed.
Follows(log, i, now, p, r) ==
    \/ SettledAfter(log, i, p)
    \/ IF Decided(log, i) THEN r.status = "Disputed" \/ DisputedAfter(log, i, p)
       ELSE /\ r.outcome = now.outcome
            /\ r.status = now.status \/ DisputedAfter(log, i, p)

InPage == poll.step \in {"apply", "store"}

\* The last event the rows of the index have seen
At == IF InPage THEN poll.next - Len(poll.page) ELSE meta.cursor

Polls == [step : {"idle", "cursor", "clear", "latest", "scratch", "apply", "store"},
          gap : BOOLEAN, start : {None} \cup (Nat \ {0}), page : Seq(ContractEvents),
          next : {None} \cup Nat, row : {None} \cup IndexedRow]

LocalTypeOK ==
    /\ oldestLedger \in 1..(latestLedger + 1)
    /\ commitments \in [IndexedIds -> {None} \cup IndexedRow]
    /\ meta \in [cursor : {None} \cup (0..latestLedger), lastLedgerSeq : {None} \cup Nat]
    /\ meta.cursor = None <=> meta.lastLedgerSeq = None
    /\ poll \in Polls

\* What each await of pollOnce has at hand
PollOK ==
    /\ poll.step \in {"idle", "cursor"} => poll.start = None
    /\ poll.step = "cursor" => meta.cursor # None
    /\ poll.step \in {"clear", "latest", "scratch"} /\ meta.cursor # None =>
           meta.cursor + 1 < oldestLedger
    /\ poll.step = "scratch" => poll.start \in 1..(latestLedger + 1)
    /\ poll.step \in {"latest", "scratch"} /\ ~ orphaned =>
           \A i \in IndexedIds : commitments[i] = None
    /\ InPage =>
           /\ poll.next \in 0..latestLedger
           /\ Len(poll.page) <= poll.next
           /\ \A k \in 1..Len(poll.page) : poll.page[k] = events[At + k]
           /\ poll.start = None => meta.cursor # None
           /\ meta.cursor # None => meta.cursor <= At
           /\ poll.start # None => poll.start <= At + 1
    /\ poll.step = "store" =>
           /\ poll.page # <<>> /\ Current.type = "created"
           /\ poll.row \in IndexedRow
           /\ \A i \in IndexedIds : i = Current.id =>
                  Follows(events, i, RowAfter(i), At + 1, poll.row)

\* A row that was not left behind follows the contract.
RowsFollow ==
    ~ orphaned => \A i \in IndexedIds : commitments[i] # None =>
        /\ InPage \/ meta.cursor # None
        /\ RowAfter(i) \in ChainRow
        /\ Follows(events, i, RowAfter(i), At, commitments[i])

IsIndexed(log, rows, unread, lo, hi) ==
    \A n \in 1..hi :
        n >= lo /\ log[n].type = "created" /\ log[n].id \notin unread
            => rows[log[n].id] # None

\* What was created in the window is there, of the poll under way and of the last one.
WindowKept ==
    /\ meta.cursor # None /\ meta.cursor + 1 >= oldestLedger =>
           IsIndexed(events, commitments, missed, meta.lastLedgerSeq, meta.cursor)
    /\ InPage => IsIndexed(events, commitments, missed,
                           IF poll.start = None THEN meta.lastLedgerSeq ELSE poll.start, At)

LocalInv == ContractInv /\ LocalTypeOK /\ PollOK /\ RowsFollow /\ WindowKept

-----------------------------------------------------------------------------
\* RowAfter is the last of them.
LEMMA RowAfterIs ==
    ASSUME NEW i, NEW f, AreRows(f, i, events)
    PROVE  RowAfter(i) = f[Len(events)]
<1>1. RowAfter(i) = (CHOOSE g : IsRows(g, i, events))[Len(events)]
      BY DEF RowAfter, IsRows, latestLedger
<1>2. (CHOOSE g : IsRows(g, i, events)) = f
      <2> HIDE DEF IsRows
      <2> QED BY DEF AreRows
<1> QED BY <1>1, <1>2

Extends(longer, log) ==
    /\ Len(log) \in Nat /\ Len(longer) = Len(log) + 1
    /\ \A n \in 1..Len(log) : longer[n] = log[n]
RowOver(e, i, row) == IF e.id = i THEN RowsApplied(e, row) ELSE row

\* One more event, one more row: the recursive function goes on, and is still the only one.
LEMMA RowsGoOn ==
    ASSUME NEW log, NEW i, NEW f, AreRows(f, i, log),
           NEW longer, Extends(longer, log)
    PROVE  \E h : /\ AreRows(h, i, longer)
                  /\ h[Len(longer)] = RowOver(longer[Len(longer)], i, f[Len(log)])
<1>a. /\ IsRows(f, i, log) /\ \A g : IsRows(g, i, log) => g = f
      /\ Len(log) \in Nat /\ Len(longer) = Len(log) + 1
      /\ \A n \in 1..Len(log) : longer[n] = log[n]
      BY DEF AreRows, Extends
<1> DEFINE L == Len(log)
           Last1 == IF longer[L + 1].id = i THEN RowsApplied(longer[L + 1], f[L]) ELSE f[L]
           h == [n \in 0..(L + 1) |-> IF n = L + 1 THEN Last1 ELSE f[n]]
           Term(g, n) == IF n = 0 THEN None
                          ELSE IF longer[n].id = i THEN RowsApplied(longer[n], g[n - 1])
                          ELSE g[n - 1]
<1>1. ASSUME NEW n \in 0..L PROVE f[n] = Term(f, n)
      <2>1. f[n] = IF n = 0 THEN None
                   ELSE IF log[n].id = i THEN RowsApplied(log[n], f[n - 1]) ELSE f[n - 1]
            BY <1>a DEF IsRows
      <2>2. n # 0 => n \in 1..L /\ longer[n] = log[n] BY <1>a
      <2> QED BY <2>1, <2>2
<1>2. ASSUME NEW n \in 0..(L + 1) PROVE h[n] = Term(h, n)
      <2>1. CASE n = 0
            <3>1. h[n] = f[n] /\ n \in 0..L BY <2>1
            <3>2. f[n] = None BY <1>1, <2>1, <3>1
            <3> QED BY <2>1, <3>1, <3>2
      <2>2. CASE n # 0
            <3>1. n - 1 \in 0..(L + 1) /\ n - 1 # L + 1 /\ n - 1 \in 0..L BY <1>a, <2>2
            <3>2. h[n - 1] = f[n - 1] BY <3>1
            <3>3. CASE n = L + 1
                  <4>1. h[n] = Last1 /\ n - 1 = L BY <1>a, <3>3
                  <4> HIDE DEF h
                  <4> QED BY <2>2, <3>2, <3>3, <4>1
            <3>4. CASE n # L + 1
                  <4>1. h[n] = f[n] /\ n \in 0..L BY <1>a, <3>4
                  <4>2. f[n] = Term(f, n) BY <1>1, <4>1
                  <4> HIDE DEF h
                  <4> QED BY <2>2, <3>2, <4>1, <4>2
            <3> QED BY <3>3, <3>4
      <2> QED BY <2>1, <2>2
<1>3. h = [n \in 0..(L + 1) |-> h[n]] OBVIOUS
<1>4. h[L + 1] = Last1
      <2>1. L + 1 \in 0..(L + 1) BY <1>a
      <2> QED BY <2>1
<1>5. IsRows(h, i, longer)
      <2> HIDE DEF h
      <2>1. h = [n \in 0..Len(longer) |-> Term(h, n)] BY <1>2, <1>3
      <2> QED BY <1>a, <2>1 DEF IsRows
<1>6. ASSUME NEW g, IsRows(g, i, longer) PROVE g = h
      <2> DEFINE k == [n \in 0..L |-> g[n]]
      <2>0. g = [n \in 0..(L + 1) |-> g[n]] /\ \A n \in 0..(L + 1) : g[n] = Term(g, n)
            BY <1>a, <1>6 DEF IsRows
      <2>1. IsRows(k, i, log)
            <3>1. ASSUME NEW n \in 0..L
                  PROVE k[n] = IF n = 0 THEN None
                               ELSE IF log[n].id = i THEN RowsApplied(log[n], k[n - 1])
                               ELSE k[n - 1]
                  <4>1. k[n] = g[n] /\ n \in 0..(L + 1) BY <1>a
                  <4>2. g[n] = Term(g, n) BY <2>0, <4>1
                  <4>3. CASE n = 0 BY <4>1, <4>2, <4>3
                  <4>4. CASE n # 0
                        <5>1. n - 1 \in 0..L /\ n \in 1..L BY <1>a, <4>4
                        <5>2. k[n - 1] = g[n - 1] /\ longer[n] = log[n] BY <1>a, <5>1
                        <5> HIDE DEF k
                        <5> QED BY <4>1, <4>2, <4>4, <5>2
                  <4> QED BY <4>3, <4>4
            <3>2. k = [n \in 0..L |-> k[n]] OBVIOUS
            <3> HIDE DEF k
            <3> QED BY <1>a, <3>1, <3>2 DEF IsRows
      <2>2. k = f
            <3> HIDE DEF k, IsRows
            <3> QED BY <1>a, <2>1
      <2>3. ASSUME NEW n \in 0..(L + 1) PROVE g[n] = h[n]
            <3>1. CASE n \in 0..L
                  <4>1. h[n] = f[n] /\ k[n] = g[n] BY <1>a, <3>1
                  <4> HIDE DEF h, k
                  <4> QED BY <2>2, <4>1
            <3>2. CASE n \notin 0..L
                  <4>1. n = L + 1 /\ L \in 0..L /\ n # 0 /\ n - 1 = L BY <1>a, <3>2
                  <4>2. k[L] = g[L] BY <4>1
                  <4> HIDE DEF k, h
                  <4>3. g[L] = f[L] BY <2>2, <4>2
                  <4>4. g[n] = Last1 BY <2>0, <4>1, <4>3
                  <4> QED BY <1>4, <4>1, <4>4
            <3> QED BY <3>1, <3>2
      <2> HIDE DEF h, k
      <2> QED BY <1>3, <2>0, <2>3
<1> HIDE DEF h
<1>7. AreRows(h, i, longer)
      <2> HIDE DEF IsRows
      <2> QED BY <1>5, <1>6 DEF AreRows
<1> QED BY <1>a, <1>4, <1>7 DEF RowOver

\* A ledger that closes takes the row of its commitment on, and no other.
LEMMA RowAppends ==
    ASSUME events \in Seq(ContractEvents), NEW e \in ContractEvents,
           events' = Append(events, e), NEW i, Defined(i, events)
    PROVE  /\ Defined(i, events')
           /\ RowAfter(i)' = RowOver(e, i, RowAfter(i))
<1>1. PICK f : AreRows(f, i, events) BY DEF Defined
<1>2. RowAfter(i) = f[Len(events)] BY <1>1, RowAfterIs
<1>3. Extends(events', events) /\ events'[Len(events')] = e BY DEF Extends
<1>4. PICK h : /\ AreRows(h, i, events')
               /\ h[Len(events')] = RowOver(events'[Len(events')], i, f[Len(events)])
      <2>1. \A log, longer, g : AreRows(g, i, log) /\ Extends(longer, log) =>
                \E h : /\ AreRows(h, i, longer)
                       /\ h[Len(longer)] = RowOver(longer[Len(longer)], i, g[Len(log)])
            BY RowsGoOn
      <2>2. \A longer, g : AreRows(g, i, events) /\ Extends(longer, events) =>
                \E h : /\ AreRows(h, i, longer)
                       /\ h[Len(longer)] = RowOver(longer[Len(longer)], i, g[Len(events)])
            BY <2>1
      <2> QED BY <1>1, <1>3, <2>2
<1>5. RowAfter(i)' = h[Len(events')]
      <2>1. RowAfter(i)' = (CHOOSE g : IsRows(g, i, events'))[Len(events')]
            BY DEF RowAfter, IsRows, latestLedger
      <2>2. (CHOOSE g : IsRows(g, i, events')) = h
            <3> HIDE DEF IsRows
            <3> QED BY <1>4 DEF AreRows
      <2> QED BY <2>1, <2>2
<1> QED BY <1>2, <1>3, <1>4, <1>5 DEF Defined

\* What the contract allows next
CanFollow(log, e, row) ==
    CASE e.type = "created" -> row = None
      [] e.type = "attested" -> row # None /\ row.status = "Pending"
      [] e.type = "disputed" -> /\ row # None /\ row.status \in Outcomes
                                /\ ~ DisputedAfter(log, e.id, 0)
      [] e.type \in Settlements -> row # None /\ row.status = "Disputed"

\* There are four kinds of events.
LEMMA KindsOfEvents ==
    ASSUME NEW e \in ContractEvents
    PROVE  /\ e.type = "created" \/ Settles(e) \/ e.type = "disputed" \/ Decides(e)
           /\ e.type = "created" => ~ Settles(e) /\ e.type # "disputed" /\ ~ Decides(e)
           /\ Settles(e) => e.type # "disputed" /\ ~ Decides(e)
           /\ e.type = "disputed" => ~ Decides(e)
           /\ Settles(e) \/ Decides(e) => e.outcome \in Outcomes
           /\ e.type \in ParsedTypes <=> ~ Decides(e)
BY DEF ContractEvents, Settles, Decides, Settlements, ParsedTypes, Outcomes

\* What rows of the contract there are.
LEMMA RowTypes ==
    /\ None \notin ChainRow /\ ChainRow \subseteq IndexedRow
    /\ \A r \in ChainRow :
           /\ r.status \in {"Pending", "Disputed"} \cup Outcomes
           /\ r.status \in Outcomes => r = Row(r.status, r.status)
           /\ r.status = "Pending" => r = Row("Pending", None)
           /\ r.status = "Disputed" => r.outcome \in Outcomes
BY LocalAssumption DEF ChainRow, Row, IndexedRow, Outcomes

\* What an event of a lawful contract leaves
LEMMA RowsAreLawful ==
    ASSUME NEW log, NEW e \in ContractEvents, NEW row \in {None} \cup ChainRow,
           CanFollow(log, e, row)
    PROVE  /\ RowsApplied(e, row) \in ChainRow
           /\ e.type = "created" => row = None /\ RowsApplied(e, row) = Row("Pending", None)
           /\ Settles(e) => row # None /\ RowsApplied(e, row) = Row(e.outcome, e.outcome)
           /\ e.type = "disputed" => /\ row # None /\ row.status \in Outcomes
                                     /\ RowsApplied(e, row) = Row("Disputed", row.outcome)
                                     /\ ~ DisputedAfter(log, e.id, 0)
           /\ Decides(e) => /\ row # None /\ row.status = "Disputed"
                            /\ RowsApplied(e, row) = Row(e.outcome, e.outcome)
<1> USE DEF Settlements, ParsedTypes
<1>1. CASE e.type = "created"
      BY <1>1, RowTypes DEF CanFollow, RowsApplied, Settles, Decides, ChainRow
<1>2. CASE Settles(e) \/ Decides(e)
      <2>1. e.outcome \in Outcomes BY <1>2, KindsOfEvents
      <2>2. e.type \in {"attested", "resolved", "voteres", "votefall"} BY <1>2 DEF Settles, Decides
      <2>3. RowsApplied(e, row) = Row(e.outcome, e.outcome) BY <2>2 DEF RowsApplied
      <2>4. row # None /\ (e.type # "attested" => row.status = "Disputed") BY <2>2 DEF CanFollow
      <2>5. e.type # "created" /\ e.type # "disputed" BY <2>2
      <2>6. Row(e.outcome, e.outcome) \in ChainRow BY <2>1 DEF ChainRow
      <2>7. Decides(e) => e.type # "attested" BY DEF Decides
      <2> QED BY <2>3, <2>4, <2>5, <2>6, <2>7
<1>3. CASE e.type = "disputed"
      <2>1. /\ row # None /\ row.status \in Outcomes /\ row \in ChainRow
            /\ ~ DisputedAfter(log, e.id, 0) BY <1>3 DEF CanFollow
      <2>2. row = Row(row.status, row.status) BY <2>1, RowTypes
      <2>3. row.outcome = row.status BY <2>2 DEF Row
      <2>4. RowsApplied(e, row) = [row EXCEPT !.status = "Disputed"] BY <1>3 DEF RowsApplied
      <2>5. RowsApplied(e, row) = Row("Disputed", row.outcome) BY <2>2, <2>4 DEF Row
      <2>6. Row("Disputed", row.outcome) \in ChainRow BY <2>1, <2>3 DEF ChainRow
      <2>7. e.type # "created" /\ ~ Settles(e) /\ ~ Decides(e) BY <1>3 DEF Settles, Decides
      <2> QED BY <1>3, <2>1, <2>5, <2>6, <2>7
<1> QED BY <1>1, <1>2, <1>3, KindsOfEvents

\* What one more event adds to what comes after p.
LEMMA AfterGrows ==
    ASSUME NEW log, NEW longer, Extends(longer, log), NEW i, NEW p
    PROVE  /\ SettledAfter(longer, i, p) <=>
                  \/ SettledAfter(log, i, p)
                  \/ Len(longer) > p /\ longer[Len(longer)].id = i /\ Settles(longer[Len(longer)])
           /\ DisputedAfter(longer, i, p) <=>
                  \/ DisputedAfter(log, i, p)
                  \/ /\ Len(longer) > p /\ longer[Len(longer)].id = i
                     /\ longer[Len(longer)].type = "disputed"
           /\ Decided(longer, i) <=>
                  Decided(log, i) \/ (longer[Len(longer)].id = i /\ Decides(longer[Len(longer)]))
<1> DEFINE L == Len(log)
<1>1. L \in Nat /\ Len(longer) = L + 1 /\ \A n \in 1..L : longer[n] = log[n] BY DEF Extends
<1>2. 1..(L + 1) = (1..L) \cup {L + 1} BY <1>1
<1> QED BY <1>1, <1>2 DEF SettledAfter, DisputedAfter, Decided

\* The contract stays lawful, and what follows it goes on following it.
LEMMA LawGoesOn ==
    ASSUME NEW log, NEW longer, Extends(longer, log),
           NEW i, NEW now, LawfulOf(log, i, now),
           NEW e, e = longer[Len(longer)], e \in ContractEvents,
           e.id = i => CanFollow(log, e, now)
    PROVE  /\ LawfulOf(longer, i, RowOver(e, i, now))
           /\ now \in ChainRow => RowOver(e, i, now) \in ChainRow
           /\ \A p \in 0..Len(log) : \A r :
                  now \in ChainRow /\ Follows(log, i, now, p, r)
                      => Follows(longer, i, RowOver(e, i, now), p, r)
<1> DEFINE L == Len(log)
           after == RowOver(e, i, now)
<1>1. L \in Nat /\ Len(longer) = L + 1 /\ e = longer[L + 1]
      /\ \A n \in 1..L : longer[n] = log[n] BY DEF Extends
<1>2. /\ \A p : /\ SettledAfter(longer, i, p) <=>
                        SettledAfter(log, i, p) \/ (L + 1 > p /\ e.id = i /\ Settles(e))
                /\ DisputedAfter(longer, i, p) <=>
                        DisputedAfter(log, i, p) \/ (L + 1 > p /\ e.id = i /\ e.type = "disputed")
      /\ Decided(longer, i) <=> Decided(log, i) \/ (e.id = i /\ Decides(e))
      BY <1>1, AfterGrows
<1>3. /\ now \in {None} \cup ChainRow /\ \A n \in 1..L : log[n].id = i => Lawful(log, n, now)
      /\ Decided(log, i) => now # None /\ now.status \in Outcomes
      /\ Decided(log, i) \/ (now # None /\ now.status = "Disputed") => DisputedAfter(log, i, 0)
      BY DEF LawfulOf
<1>4. CASE e.id # i
      <2>1. after = now BY <1>4 DEF RowOver
      <2>2. /\ \A p : /\ SettledAfter(longer, i, p) <=> SettledAfter(log, i, p)
                      /\ DisputedAfter(longer, i, p) <=> DisputedAfter(log, i, p)
            /\ Decided(longer, i) <=> Decided(log, i)
            BY <1>2, <1>4
      <2>3. \A n \in 1..(L + 1) : longer[n].id = i => n \in 1..L /\ longer[n] = log[n]
            BY <1>1, <1>4
      <2>4. ASSUME NEW n \in 1..(L + 1), longer[n].id = i PROVE Lawful(longer, n, now)
            <3>1. n \in 1..L /\ longer[n] = log[n] BY <2>3, <2>4
            <3>2. Lawful(log, n, now) BY <1>3, <2>4, <3>1
            <3> QED BY <2>2, <2>4, <3>1, <3>2 DEF Lawful
      <2>5. \A p, r : Follows(log, i, now, p, r) => Follows(longer, i, now, p, r)
            BY <2>2 DEF Follows
      <2> QED BY <1>1, <1>3, <2>1, <2>2, <2>4, <2>5 DEF LawfulOf
<1>5. CASE e.id = i
      <2>0. CanFollow(log, e, now) BY <1>5
      <2>1. after = RowsApplied(e, now) BY <1>5 DEF RowOver
      <2>2. /\ after \in ChainRow
            /\ e.type = "created" => now = None /\ after = Row("Pending", None)
            /\ Settles(e) => now # None /\ after = Row(e.outcome, e.outcome)
            /\ e.type = "disputed" => /\ now # None /\ now.status \in Outcomes
                                      /\ after = Row("Disputed", now.outcome)
                                      /\ ~ DisputedAfter(log, e.id, 0)
            /\ Decides(e) => /\ now # None /\ now.status = "Disputed"
                             /\ after = Row(e.outcome, e.outcome)
            BY <1>3, <2>0, <2>1, RowsAreLawful
      <2>k. /\ e.type = "created" \/ Settles(e) \/ e.type = "disputed" \/ Decides(e)
            /\ e.type = "created" => ~ Settles(e) /\ e.type # "disputed" /\ ~ Decides(e)
            /\ Settles(e) => e.type # "disputed" /\ ~ Decides(e)
            /\ e.type = "disputed" => ~ Decides(e)
            /\ Settles(e) \/ Decides(e) => e.outcome \in Outcomes
            BY KindsOfEvents
      <2>d. /\ ~ Decided(log, i)
            /\ Decided(longer, i) <=> Decides(e)
            <3>1. ~ (now = None /\ now # None) OBVIOUS
            <3>2. CASE Decided(log, i)
                  <4>1. now # None /\ now.status \in Outcomes /\ DisputedAfter(log, i, 0)
                        BY <1>3, <3>2
                  <4>2. e.type # "created" /\ e.type # "disputed" BY <1>5, <2>2, <4>1
                  <4>3. e.type \in {"attested"} \cup Settlements
                        BY <2>k, <4>2 DEF Settles, Decides, Settlements, ParsedTypes
                  <4>4. now.status \in {"Pending", "Disputed"}
                        BY <2>0, <4>2, <4>3 DEF CanFollow, Settlements
                  <4> QED BY <4>1, <4>4 DEF Outcomes
            <3> QED BY <1>2, <1>5, <3>2
      <2>4. Lawful(longer, L + 1, after)
            <3>1. Settles(e) => after.outcome = e.outcome /\ after.status = e.outcome
                  BY <2>2 DEF Row
            <3>2. e.type = "disputed" => after.status = "Disputed" BY <2>2 DEF Row
            <3> QED BY <1>1, <1>5, <2>2, <2>d, <2>k, <3>1, <3>2 DEF Lawful
      <2>5. ASSUME NEW n \in 1..L, longer[n].id = i PROVE Lawful(longer, n, after)
            <3>1. longer[n] = log[n] /\ L + 1 > n BY <1>1
            <3>2. Lawful(log, n, now) /\ now \in ChainRow BY <1>3, <2>5, <3>1 DEF Lawful
            <3>3. CASE Settles(e)
                  <4>1. SettledAfter(longer, i, n) BY <1>2, <1>5, <3>1, <3>3
                  <4> QED BY <2>2, <2>5, <4>1 DEF Lawful
            <3>4. CASE e.type = "created" BY <2>2, <3>2, <3>4, RowTypes
            <3>5. CASE e.type = "disputed"
                  <4>1. /\ now.status \in Outcomes /\ after.status = "Disputed"
                        /\ after.outcome = now.outcome
                        BY <2>2, <3>5 DEF Row
                  <4>2. DisputedAfter(longer, i, n) BY <1>2, <1>5, <3>1, <3>5
                  <4>3. CASE SettledAfter(longer, i, n) BY <2>2, <2>5, <4>3 DEF Lawful
                  <4>4. CASE ~ SettledAfter(longer, i, n)
                        <5>1. ~ SettledAfter(log, i, n) BY <1>2, <4>4
                        <5>2. log[n].type # "created"
                              BY <2>5, <3>1, <3>2, <4>1, <5>1 DEF Lawful, Row, Outcomes
                        <5>3. ~ Decided(longer, i) BY <2>d, <2>k, <3>5
                        <5> QED BY <2>2, <2>5, <2>d, <3>1, <3>2, <4>1, <4>2, <5>1, <5>2, <5>3
                            DEF Lawful
                  <4> QED BY <4>3, <4>4
            <3>6. CASE Decides(e)
                  <4>1. now.status = "Disputed" /\ Decided(longer, i) BY <2>2, <2>d, <3>6
                  <4>2. CASE SettledAfter(longer, i, n) BY <2>2, <2>5, <4>2 DEF Lawful
                  <4>3. CASE ~ SettledAfter(longer, i, n)
                        <5>1. ~ SettledAfter(log, i, n) BY <1>2, <4>3
                        <5>2. log[n].type # "created"
                              BY <2>5, <3>1, <3>2, <4>1, <5>1 DEF Lawful, Row
                        <5>3. Settles(log[n]) => DisputedAfter(log, i, n)
                              <6>1. Settles(log[n]) =>
                                        /\ now.outcome = log[n].outcome
                                        /\ now.status = log[n].outcome \/ DisputedAfter(log, i, n)
                                    BY <2>5, <2>d, <3>1, <3>2, <5>1 DEF Lawful
                              <6>2. now.outcome # "Disputed"
                                    BY <3>2, <4>1, RowTypes DEF Outcomes
                              <6> QED BY <4>1, <6>1, <6>2
                        <5>4. DisputedAfter(log, i, n) => DisputedAfter(longer, i, n) BY <1>2
                        <5> QED BY <2>2, <2>5, <3>1, <4>1, <5>2, <5>3, <5>4 DEF Lawful
                  <4> QED BY <4>2, <4>3
            <3> QED BY <2>k, <3>3, <3>4, <3>5, <3>6
      <2>6. ASSUME NEW p \in 0..L, NEW r, now \in ChainRow, Follows(log, i, now, p, r)
            PROVE  Follows(longer, i, after, p, r)
            <3>0. L + 1 > p BY <1>1
            <3>1. CASE Settles(e)
                  <4>1. SettledAfter(longer, i, p) BY <1>2, <1>5, <3>0, <3>1
                  <4> QED BY <4>1 DEF Follows
            <3>2. CASE e.type = "created" BY <2>2, <2>6, <3>2, RowTypes
            <3>3. CASE e.type = "disputed"
                  <4>1. DisputedAfter(longer, i, p) BY <1>2, <1>5, <3>0, <3>3
                  <4>2. after.outcome = now.outcome BY <2>2, <3>3 DEF Row
                  <4> QED BY <1>2, <2>6, <2>d, <4>1, <4>2 DEF Follows
            <3>4. CASE Decides(e)
                  <4>1. now.status = "Disputed" /\ Decided(longer, i) BY <2>2, <2>d, <3>4
                  <4> QED BY <1>2, <2>6, <2>d, <4>1 DEF Follows
            <3> QED BY <2>k, <3>1, <3>2, <3>3, <3>4
      <2>7. ASSUME NEW n \in 1..(L + 1), longer[n].id = i PROVE Lawful(longer, n, after)
            <3>1. CASE n = L + 1 BY <2>4, <3>1
            <3>2. CASE n # L + 1
                  <4>1. n \in 1..L BY <1>1, <3>2
                  <4> QED BY <2>5, <2>7, <4>1
            <3> QED BY <3>1, <3>2
      <2>8. after # None BY <2>2, RowTypes
      <2>9. Decided(longer, i) => after.status \in Outcomes BY <2>2, <2>d, <2>k DEF Row
      <2>10. Decided(longer, i) \/ after.status = "Disputed" => DisputedAfter(longer, i, 0)
            <3>1. CASE e.type = "disputed" BY <1>1, <1>2, <1>5, <3>1
            <3>2. CASE Decides(e) BY <1>2, <1>3, <2>2, <3>2
            <3>3. CASE e.type = "created" \/ Settles(e)
                  <4>1. ~ Decided(longer, i) BY <2>d, <2>k, <3>3
                  <4>2. after.status # "Disputed" BY <2>2, <2>k, <3>3 DEF Row, Outcomes
                  <4> QED BY <4>1, <4>2
            <3> QED BY <2>k, <3>1, <3>2, <3>3
      <2> QED BY <1>1, <2>2, <2>6, <2>7, <2>8, <2>9, <2>10 DEF LawfulOf
<1> QED BY <1>4, <1>5

\* A row that follows the contract from p does so from before.
LEMMA FollowsFromBefore ==
    ASSUME NEW log, NEW i, NEW now, NEW p \in Int, NEW q \in Int, q <= p, NEW r,
           Len(log) \in Nat, Follows(log, i, now, p, r)
    PROVE  Follows(log, i, now, q, r)
<1>1. \A m \in 1..Len(log) : m > p => m > q OBVIOUS
<1> QED BY <1>1 DEF Follows, SettledAfter, DisputedAfter


\* What the invariant says of the types, and of the event that is due.
LEMMA LocalFacts ==
    ASSUME LocalInv
    PROVE  /\ events \in Seq(ContractEvents) /\ Len(events) \in Nat
           /\ \A n \in 1..Len(events) :
                  /\ events[n] \in ContractEvents /\ events[n].id \in IndexedIds
                  /\ \/ events[n].type = "created" \/ Settles(events[n])
                     \/ events[n].type = "disputed" \/ Decides(events[n])
           /\ poll.page \in Seq(ContractEvents) /\ Len(poll.page) \in Nat
           /\ meta.cursor # None => meta.cursor \in 0..Len(events) /\ meta.lastLedgerSeq \in Nat
           /\ InPage => /\ At \in 0..Len(events) /\ At + Len(poll.page) = poll.next
                        /\ poll.next \in 0..Len(events)
           /\ InPage /\ poll.page # <<>> =>
                  /\ Current = events[At + 1] /\ At + 1 \in 1..Len(events)
                  /\ Tail(poll.page) \in Seq(ContractEvents)
                  /\ Len(Tail(poll.page)) = Len(poll.page) - 1
                  /\ \A k \in 1..Len(Tail(poll.page)) : Tail(poll.page)[k] = events[At + 1 + k]
<1>1. events \in Seq(ContractEvents) /\ Len(events) \in Nat BY DEF LocalInv, ContractInv
<1>2. ASSUME NEW n \in 1..Len(events)
      PROVE  /\ events[n] \in ContractEvents /\ events[n].id \in IndexedIds
             /\ \/ events[n].type = "created" \/ Settles(events[n])
                \/ events[n].type = "disputed" \/ Decides(events[n])
      <2>1. events[n] \in ContractEvents BY <1>1, ElementOfSeq
      <2>2. events[n].id \in IndexedIds BY <2>1 DEF ContractEvents
      <2> QED BY <2>1, <2>2, KindsOfEvents
<1>3. poll.page \in Seq(ContractEvents) /\ Len(poll.page) \in Nat
      <2>1. poll.page \in Seq(ContractEvents) BY DEF LocalInv, LocalTypeOK, Polls
      <2> QED BY <2>1
<1>4. meta.cursor # None => meta.cursor \in 0..Len(events) /\ meta.lastLedgerSeq \in Nat
      BY DEF LocalInv, LocalTypeOK, latestLedger
<1>5. InPage => /\ At \in 0..Len(events) /\ At + Len(poll.page) = poll.next
                /\ poll.next \in 0..Len(events)
      <2> SUFFICES ASSUME InPage PROVE /\ At \in 0..Len(events) /\ At + Len(poll.page) = poll.next
                                       /\ poll.next \in 0..Len(events)
          OBVIOUS
      <2>1. poll.next \in 0..Len(events) /\ Len(poll.page) <= poll.next
            BY DEF LocalInv, PollOK, latestLedger
      <2>2. At = poll.next - Len(poll.page) BY DEF At
      <2> QED BY <1>1, <1>3, <2>1, <2>2
<1>6. InPage /\ poll.page # <<>> =>
                  /\ Current = events[At + 1] /\ At + 1 \in 1..Len(events)
                  /\ Tail(poll.page) \in Seq(ContractEvents)
                  /\ Len(Tail(poll.page)) = Len(poll.page) - 1
                  /\ \A k \in 1..Len(Tail(poll.page)) : Tail(poll.page)[k] = events[At + 1 + k]
      <2> SUFFICES ASSUME InPage, poll.page # <<>>
                   PROVE  /\ Current = events[At + 1] /\ At + 1 \in 1..Len(events)
                          /\ Tail(poll.page) \in Seq(ContractEvents)
                          /\ Len(Tail(poll.page)) = Len(poll.page) - 1
                          /\ \A k \in 1..Len(Tail(poll.page)) :
                                 Tail(poll.page)[k] = events[At + 1 + k]
          OBVIOUS
      <2> DEFINE q == poll.page
                 a == At
      <2>1. \A k \in 1..Len(q) : q[k] = events[a + k] BY DEF LocalInv, PollOK
      <2>2. /\ q # <<>> /\ q \in Seq(ContractEvents) /\ Len(q) \in Nat
            /\ a \in 0..Len(events) /\ a + Len(q) \in 0..Len(events) BY <1>3, <1>5
      <2>3. Current = Head(q) BY DEF Current
      <2> HIDE DEF q, a
      <2>4. Head(q) = q[1] /\ 1 \in 1..Len(q) /\ Tail(q) \in Seq(ContractEvents)
            /\ Len(Tail(q)) = Len(q) - 1
            /\ \A k \in 1..Len(Tail(q)) : k + 1 \in 1..Len(q) /\ Tail(q)[k] = q[k + 1]
            BY <2>2
      <2>5. Current = events[a + 1] /\ a + 1 \in 1..Len(events) BY <1>1, <2>1, <2>2, <2>3, <2>4
      <2>6. ASSUME NEW k \in 1..Len(Tail(q)) PROVE Tail(q)[k] = events[a + 1 + k]
            <3>1. Tail(q)[k] = events[a + (k + 1)] BY <2>1, <2>4
            <3>2. a + (k + 1) = a + 1 + k BY <2>2, <2>4
            <3> QED BY <3>1, <3>2
      <2> QED BY <2>4, <2>5, <2>6 DEF q, a
<1> QED BY <1>1, <1>2, <1>3, <1>4, <1>5, <1>6

\* While no ledger closes the contract stays as it is.
LEMMA SameContract ==
    ASSUME ContractInv, UNCHANGED events
    PROVE  ContractInv' /\ \A i : RowAfter(i)' = RowAfter(i)
<1>1. \A i : RowAfter(i)' = RowAfter(i) BY DEF RowAfter, latestLedger
<1> QED BY <1>1 DEF ContractInv

\* The first state of the index satisfies the invariant.
LEMMA LocalStart == LocalInit => LocalInv
<1> SUFFICES ASSUME LocalInit PROVE LocalInv OBVIOUS
<1>0. Len(events) = 0 /\ latestLedger = 0 /\ events = <<>> BY DEF LocalInit, latestLedger
<1>1. ASSUME NEW i PROVE Defined(i, events) /\ RowAfter(i) = None
      <2> DEFINE f == [n \in {0} |-> None]
      <2>1. 0..Len(events) = {0} BY <1>0
      <2>2. ASSUME NEW g, g = f PROVE IsRows(g, i, events)
            <3>1. f = [n \in {0} |->
                    IF n = 0 THEN None
                    ELSE IF events[n].id = i THEN RowsApplied(events[n], g[n - 1]) ELSE g[n - 1]]
                  OBVIOUS
            <3> QED BY <2>1, <2>2, <3>1 DEF IsRows
      <2>3. ASSUME NEW g, IsRows(g, i, events) PROVE g = f
            <3>1. g = [n \in {0} |->
                    IF n = 0 THEN None
                    ELSE IF events[n].id = i THEN RowsApplied(events[n], g[n - 1]) ELSE g[n - 1]]
                  BY <2>1, <2>3 DEF IsRows
            <3>2. g[0] = None /\ g = [n \in {0} |-> g[n]] BY <3>1
            <3> QED BY <3>2
      <2>4. f[0] = None OBVIOUS
      <2>5. AreRows(f, i, events)
            <3> HIDE DEF f, IsRows
            <3> QED BY <2>2, <2>3 DEF AreRows
      <2> HIDE DEF f
      <2>6. RowAfter(i) = f[Len(events)] BY <2>5, RowAfterIs
      <2> QED BY <1>0, <2>4, <2>5, <2>6 DEF Defined
<1>2. ContractInv BY <1>0, <1>1 DEF ContractInv, LawfulOf, Decided
<1>3. LocalTypeOK
      <2>1. meta = [cursor |-> None, lastLedgerSeq |-> None] BY DEF LocalInit
      <2>2. poll \in Polls BY DEF LocalInit, NoPoll, Polls
      <2> QED BY <1>0, <2>1, <2>2 DEF LocalInit, LocalTypeOK
<1>4. ~ InPage /\ poll.step = "idle" /\ poll.start = None /\ meta.cursor = None
      /\ \A i \in IndexedIds : commitments[i] = None
      BY DEF LocalInit, InPage, NoPoll
<1> QED BY <1>2, <1>3, <1>4 DEF LocalInv, PollOK, RowsFollow, WindowKept

\* The contract goes on while the index is where it is.
LEMMA ClosingKeepsIndex == ASSUME LocalInv, LedgerClosed PROVE LocalInv'
<1> DEFINE L == Len(events)
<1>0. UNCHANGED <<oldestLedger, commitments, meta, poll, missed, orphaned>> BY DEF LedgerClosed
<1>1. PICK e \in ContractEvents : Enabled(e) /\ events' = Append(events, e) BY DEF LedgerClosed
<1>2. events \in Seq(ContractEvents) /\ L \in Nat BY LocalFacts
<1>3. /\ events' \in Seq(ContractEvents) /\ Len(events') = L + 1 /\ events'[L + 1] = e
      /\ \A n \in 1..L : events'[n] = events[n]
      BY <1>1, <1>2
<1>4. Extends(events', events) /\ e = events'[Len(events')] BY <1>2, <1>3 DEF Extends
<1>5. CanFollow(events, e, RowAfter(e.id))
      <2>1. DisputedAfter(events, e.id, 0) => Happened(e.id, {"disputed"})
            BY DEF DisputedAfter, Happened, latestLedger
      <2>2. Enabled(e) BY <1>1
      <2> HIDE DEF Happened, DisputedAfter
      <2> DEFINE row == RowAfter(e.id)
      <2>3. CASE e.type = "created" BY <2>2, <2>3 DEF Enabled, CanFollow, Settlements
      <2>4. CASE e.type = "attested" BY <2>2, <2>4 DEF Enabled, CanFollow, Settlements
      <2>5. CASE e.type = "disputed" BY <2>1, <2>2, <2>5 DEF Enabled, CanFollow, Settlements
      <2>6. CASE e.type \in Settlements
            <3>1. e.type \notin {"created", "attested", "disputed"} BY <2>6 DEF Settlements
            <3> QED BY <2>2, <2>6, <3>1 DEF Enabled, CanFollow
      <2>7. e.type \in {"created", "attested", "disputed"} \cup Settlements
            BY DEF ContractEvents, Settlements
      <2> QED BY <2>3, <2>4, <2>5, <2>6, <2>7
<1>6. ASSUME NEW i \in IndexedIds
      PROVE  /\ Defined(i, events') /\ LawfulOf(events', i, RowAfter(i)')
             /\ RowAfter(i) \in ChainRow => RowAfter(i)' \in ChainRow
             /\ \A p \in 0..L : \A r :
                    RowAfter(i) \in ChainRow /\ Follows(events, i, RowAfter(i), p, r)
                        => Follows(events', i, RowAfter(i)', p, r)
      <2>1. Defined(i, events) /\ LawfulOf(events, i, RowAfter(i)) BY DEF LocalInv, ContractInv
      <2>2. Defined(i, events') /\ RowAfter(i)' = RowOver(e, i, RowAfter(i))
            BY <1>1, <1>2, <2>1, RowAppends
      <2>3. e.id = i => CanFollow(events, e, RowAfter(i)) BY <1>5
      <2> DEFINE now == RowAfter(i)
      <2> HIDE DEF now
      <2>4. LawfulOf(events, i, now) /\ (e.id = i => CanFollow(events, e, now)) BY <2>1, <2>3 DEF now
      <2>5. /\ LawfulOf(events', i, RowOver(e, i, now))
            /\ now \in ChainRow => RowOver(e, i, now) \in ChainRow
            /\ \A p \in 0..Len(events) : \A r :
                   now \in ChainRow /\ Follows(events, i, now, p, r)
                       => Follows(events', i, RowOver(e, i, now), p, r)
            BY <1>4, <2>4, LawGoesOn
      <2> QED BY <2>2, <2>5 DEF now
<1>7. ContractInv' BY <1>3, <1>6 DEF ContractInv
<1>8. latestLedger' = L + 1 /\ latestLedger = L BY <1>3 DEF latestLedger
<1>9. LocalTypeOK'
      <2>1. LocalTypeOK BY DEF LocalInv
      <2>2. 1..(L + 1) \subseteq 1..(L + 1 + 1) /\ 0..L \subseteq 0..(L + 1) BY <1>2
      <2> QED BY <1>0, <1>8, <2>1, <2>2 DEF LocalTypeOK
<1>10. InPage' = InPage /\ At' = At /\ Current' = Current BY <1>0 DEF InPage, At, Current
<1>11. PollOK'
      <2>1. /\ PollOK
            /\ InPage => At \in 0..L /\ At + Len(poll.page) = poll.next /\ poll.next \in 0..L
            /\ Len(poll.page) \in Nat /\ poll.page \in Seq(ContractEvents)
            BY LocalFacts DEF LocalInv
      <2>2. ASSUME InPage, NEW k \in 1..Len(poll.page) PROVE poll.page[k] = events'[At + k]
            <3>1. At + k \in 1..L BY <1>2, <2>1, <2>2
            <3>2. poll.page[k] = events[At + k] BY <2>1, <2>2 DEF PollOK
            <3> QED BY <1>3, <3>1, <3>2
      <2>3. ASSUME poll.step = "store", NEW i \in IndexedIds, i = Current.id
            PROVE  Follows(events', i, RowAfter(i)', At + 1, poll.row)
            <3>1. InPage /\ poll.page # <<>> /\ Current.type = "created"
                  /\ Follows(events, i, RowAfter(i), At + 1, poll.row)
                  BY <2>1, <2>3 DEF PollOK, InPage
            <3>2. Current = events[At + 1] /\ At + 1 \in 1..L BY <3>1, LocalFacts
            <3>3. RowAfter(i) \in ChainRow
                  BY <2>3, <3>2 DEF LocalInv, ContractInv, LawfulOf, Lawful
            <3>4. At + 1 \in 0..L BY <1>2, <3>2
            <3> QED BY <1>6, <3>1, <3>3, <3>4
      <2>4. poll.step = "scratch" => poll.start \in 1..(L + 1 + 1)
            BY <1>2, <1>8, <2>1 DEF PollOK
      <2>5. InPage => poll.next \in 0..(L + 1) BY <1>2, <2>1
      <2> QED BY <1>0, <1>8, <1>10, <2>1, <2>2, <2>3, <2>4, <2>5 DEF PollOK
<1>12. RowsFollow'
      <2> SUFFICES ASSUME ~ orphaned, NEW i \in IndexedIds, commitments[i] # None
                   PROVE  /\ InPage \/ meta.cursor # None
                          /\ RowAfter(i)' \in ChainRow
                          /\ Follows(events', i, RowAfter(i)', At, commitments[i])
          BY <1>0, <1>10 DEF RowsFollow
      <2>1. /\ InPage \/ meta.cursor # None
            /\ RowAfter(i) \in ChainRow
            /\ Follows(events, i, RowAfter(i), At, commitments[i])
            BY DEF LocalInv, RowsFollow
      <2>2. At \in 0..L
            <3>1. InPage => At \in 0..L BY LocalFacts
            <3>2. ~ InPage => At = meta.cursor /\ meta.cursor \in 0..L BY <2>1, LocalFacts DEF At
            <3> QED BY <3>1, <3>2
      <2> QED BY <1>6, <2>1, <2>2
<1>13. ASSUME NEW lo, NEW hi \in 0..L, IsIndexed(events, commitments, missed, lo, hi)
       PROVE  IsIndexed(events', commitments, missed, lo, hi)
      <2>1. \A n \in 1..hi : n \in 1..L /\ events'[n] = events[n] BY <1>2, <1>3
      <2> QED BY <1>13, <2>1 DEF IsIndexed
<1>14. WindowKept'
      <2>1. meta.cursor # None => meta.cursor \in 0..L BY LocalFacts
      <2>2. InPage => At \in 0..L BY LocalFacts
      <2>3. meta.cursor # None /\ meta.cursor + 1 >= oldestLedger =>
                IsIndexed(events', commitments, missed, meta.lastLedgerSeq, meta.cursor)
            BY <1>13, <2>1 DEF LocalInv, WindowKept
      <2>4. InPage => IsIndexed(events', commitments, missed,
                                IF poll.start = None THEN meta.lastLedgerSeq ELSE poll.start, At)
            BY <1>13, <2>2 DEF LocalInv, WindowKept
      <2> QED BY <1>0, <1>10, <2>3, <2>4 DEF WindowKept
<1> QED BY <1>7, <1>9, <1>11, <1>12, <1>14 DEF LocalInv


\* The node forgets an event; a cursor before it is out of date now, and stays so.
LEMMA ForgettingKeepsIndex == ASSUME LocalInv, EventsForgotten PROVE LocalInv'
<1>0. UNCHANGED <<events, commitments, meta, poll, missed, orphaned>>
      /\ oldestLedger' = oldestLedger + 1 /\ oldestLedger <= latestLedger - Retention
      BY DEF EventsForgotten
<1>1. ContractInv' /\ \A i : RowAfter(i)' = RowAfter(i) BY <1>0, SameContract DEF LocalInv
<1>2. InPage' = InPage /\ At' = At /\ Current' = Current /\ latestLedger' = latestLedger
      BY <1>0 DEF InPage, At, Current, latestLedger
<1>3. latestLedger \in Nat /\ oldestLedger \in Nat /\ (meta.cursor # None => meta.cursor \in Nat)
      /\ oldestLedger' \in 1..(latestLedger + 1)
      <2>1. latestLedger \in Nat /\ (meta.cursor # None => meta.cursor \in Nat)
            BY LocalFacts DEF latestLedger
      <2>2. oldestLedger \in 1..(latestLedger + 1) BY DEF LocalInv, LocalTypeOK
      <2> QED BY <1>0, <2>1, <2>2, LocalAssumption
<1>4. LocalTypeOK' BY <1>0, <1>2, <1>3 DEF LocalInv, LocalTypeOK
<1>5. PollOK'
      <2>1. PollOK BY DEF LocalInv
      <2>2. meta.cursor # None /\ meta.cursor + 1 < oldestLedger => meta.cursor + 1 < oldestLedger'
            BY <1>0, <1>3
      <2> QED BY <1>0, <1>1, <1>2, <2>1, <2>2 DEF PollOK
<1>6. RowsFollow' BY <1>0, <1>1, <1>2 DEF LocalInv, RowsFollow
<1>7. WindowKept'
      <2>1. meta.cursor # None /\ meta.cursor + 1 >= oldestLedger' => meta.cursor + 1 >= oldestLedger
            BY <1>0, <1>3
      <2> QED BY <1>0, <1>2, <2>1 DEF LocalInv, WindowKept
<1> QED BY <1>1, <1>4, <1>5, <1>6, <1>7 DEF LocalInv

\* A step that reads nothing yet, and one that does not concern the index at all
LEMMA MovingKeepsIndex ==
    ASSUME LocalInv, UNCHANGED <<events, oldestLedger, commitments, meta, missed, orphaned>>,
           ~ InPage, poll' \in Polls,
           poll'.step \in {"idle", "cursor", "clear", "latest", "scratch"},
           poll'.step \in {"idle", "cursor"} => poll'.start = None,
           poll'.step = "cursor" => meta.cursor # None,
           poll'.step \in {"clear", "latest", "scratch"} /\ meta.cursor # None =>
               meta.cursor + 1 < oldestLedger,
           poll'.step = "scratch" => poll'.start \in 1..(latestLedger + 1),
           poll'.step \in {"latest", "scratch"} /\ ~ orphaned =>
               \A i \in IndexedIds : commitments[i] = None
    PROVE  LocalInv'
<1>1. ContractInv' /\ \A i : RowAfter(i)' = RowAfter(i) BY SameContract DEF LocalInv
<1>2. ~ InPage' /\ At' = At /\ latestLedger' = latestLedger BY DEF InPage, At, latestLedger
<1>3. LocalTypeOK' BY <1>2 DEF LocalInv, LocalTypeOK
<1>4. PollOK' BY <1>2 DEF PollOK
<1>5. RowsFollow' BY <1>1, <1>2 DEF LocalInv, RowsFollow
<1>6. WindowKept' BY <1>2 DEF LocalInv, WindowKept
<1> QED BY <1>1, <1>3, <1>4, <1>5, <1>6 DEF LocalInv

\* A step that changes nothing of the index and its poll.
LEMMA StayingKeepsIndex ==
    ASSUME LocalInv, UNCHANGED <<events, oldestLedger, commitments, meta, poll, missed, orphaned>>
    PROVE  LocalInv'
<1>1. ContractInv' /\ \A i : RowAfter(i)' = RowAfter(i) BY SameContract DEF LocalInv
<1>2. InPage' = InPage /\ At' = At /\ Current' = Current /\ latestLedger' = latestLedger
      BY DEF InPage, At, Current, latestLedger
<1>3. LocalTypeOK' BY <1>2 DEF LocalInv, LocalTypeOK
<1>4. PollOK' BY <1>1, <1>2 DEF LocalInv, PollOK
<1>5. RowsFollow' BY <1>1, <1>2 DEF LocalInv, RowsFollow
<1>6. WindowKept' BY <1>2 DEF LocalInv, WindowKept
<1> QED BY <1>1, <1>3, <1>4, <1>5, <1>6 DEF LocalInv

\* A page is read from where the rows have got to, or into an index without rows.
LEMMA PageKeepsIndex ==
    ASSUME LocalInv, UNCHANGED <<events, oldestLedger, commitments, meta, missed, orphaned>>,
           ~ InPage, NEW from \in 1..(Len(events) + 1), Page(from),
           poll.start = None => /\ meta.cursor # None /\ meta.cursor + 1 >= oldestLedger
                                /\ from = meta.cursor + 1,
           poll.start # None => /\ from = poll.start
                                /\ meta.cursor # None => meta.cursor < from
                                /\ ~ orphaned => \A i \in IndexedIds : commitments[i] = None
    PROVE  LocalInv'
<1> DEFINE L == Len(events)
           end == PageEnd(from)
           read == SubSeq(events, from, end)
<1>0. L \in Nat /\ events \in Seq(ContractEvents) /\ latestLedger = L
      /\ (meta.cursor # None => meta.cursor \in Nat)
      BY LocalFacts DEF latestLedger
<1>1. end \in (from - 1)..L
      <2>1. end = IF from + pageLimit - 1 < L THEN from + pageLimit - 1 ELSE L
            BY <1>0 DEF PageEnd
      <2> HIDE DEF end
      <2> QED BY <1>0, <2>1, LocalAssumption
<1> HIDE DEF end
<1>2. /\ read \in Seq(ContractEvents) /\ Len(read) = end - from + 1
      /\ \A k \in 1..Len(read) : read[k] = events[from - 1 + k]
      <2>1. Len(read) = IF from <= end THEN end - from + 1 ELSE 0
            BY <1>0, <1>1, SubSeqProperties
      <2>2. Len(read) = end - from + 1 BY <1>0, <1>1, <2>1
      <2>3. \A k \in 1..(end - from + 1) : read[k] = events[from + k - 1]
            BY <1>0, <1>1, SubSeqProperties
      <2>4. \A k \in 1..(end - from + 1) : from + k - 1 = from - 1 + k BY <1>0, <1>1
      <2>5. read \in Seq(ContractEvents)
            <3>1. \A k \in 1..L : events[k] \in ContractEvents BY <1>0, ElementOfSeq
            <3>2. \A k \in from..end : k \in 1..L BY <1>0, <1>1
            <3> QED BY <1>0, <1>1, <3>1, <3>2, SubSeqProperties
      <2> QED BY <2>2, <2>3, <2>4, <2>5
<1> HIDE DEF read
<1>3. poll' = [poll EXCEPT !.step = "apply", !.next = end, !.page = read]
      BY DEF Page, NextCursor, end, read
<1>4. poll \in Polls BY DEF LocalInv, LocalTypeOK
<1>5. /\ poll' \in Polls /\ poll'.step = "apply" /\ poll'.next = end /\ poll'.page = read
      /\ poll'.start = poll.start
      <2>1. end \in Nat BY <1>0, <1>1
      <2> QED BY <1>2, <1>3, <1>4, <2>1 DEF Polls
<1>6. InPage' /\ At' = from - 1
      <2>1. InPage' BY <1>5 DEF InPage
      <2>2. At' = end - Len(read) BY <1>5, <2>1 DEF At
      <2> QED BY <1>0, <1>1, <1>2, <2>1, <2>2
<1>7. ContractInv' /\ \A i : RowAfter(i)' = RowAfter(i) BY SameContract DEF LocalInv
<1>8. LocalTypeOK' BY <1>5 DEF LocalInv, LocalTypeOK, latestLedger
<1>9. PollOK'
      <2>1. meta.cursor # None => meta.cursor <= from - 1
            <3>1. CASE poll.start = None BY <1>0, <3>1
            <3>2. CASE poll.start # None BY <1>0, <3>2
            <3> QED BY <3>1, <3>2
      <2>2. Len(read) <= end BY <1>0, <1>1, <1>2
      <2>3. end \in 0..latestLedger' BY <1>0, <1>1 DEF latestLedger
      <2>4. \A k \in 1..Len(read) : read[k] = events[At' + k] BY <1>2, <1>6
      <2>5. poll.start # None => poll.start <= At' + 1 BY <1>0, <1>6
      <2> QED BY <1>5, <1>6, <2>1, <2>2, <2>3, <2>4, <2>5 DEF PollOK
<1>10. RowsFollow'
      <2> SUFFICES ASSUME ~ orphaned, NEW i \in IndexedIds, commitments[i] # None
                   PROVE  /\ RowAfter(i) \in ChainRow
                          /\ Follows(events, i, RowAfter(i), from - 1, commitments[i])
          BY <1>6, <1>7 DEF RowsFollow
      <2>1. poll.start = None OBVIOUS
      <2>2. At = meta.cursor /\ from - 1 = meta.cursor BY <1>0, <2>1 DEF At
      <2> QED BY <2>2 DEF LocalInv, RowsFollow
<1>11. WindowKept'
      <2>1. IsIndexed(events, commitments, missed,
                      IF poll.start = None THEN meta.lastLedgerSeq ELSE poll.start, from - 1)
            <3>1. CASE poll.start = None
                  <4>1. from - 1 = meta.cursor BY <1>0, <3>1
                  <4> QED BY <3>1, <4>1 DEF LocalInv, WindowKept
            <3>2. CASE poll.start # None
                  <4>1. \A n \in 1..(from - 1) : ~ (n >= from) BY <1>0
                  <4> QED BY <3>2, <4>1 DEF IsIndexed
            <3> QED BY <3>1, <3>2
      <2> QED BY <1>5, <1>6, <2>1 DEF LocalInv, WindowKept
<1> QED BY <1>7, <1>8, <1>9, <1>10, <1>11 DEF LocalInv

\* The event that is due has been dealt with: the next one is.
LEMMA AdvancingKeepsIndex ==
    ASSUME LocalInv, UNCHANGED <<events, oldestLedger, meta, orphaned>>,
           InPage, poll.page # <<>>,
           poll' \in Polls, poll'.step = "apply", poll'.page = Tail(poll.page),
           poll'.next = poll.next, poll'.start = poll.start,
           commitments' \in [IndexedIds -> {None} \cup IndexedRow],
           \A i \in IndexedIds : i # Current.id => commitments'[i] = commitments[i],
           commitments[Current.id] # None => commitments'[Current.id] # None,
           ~ orphaned /\ commitments'[Current.id] # None =>
               \A i \in IndexedIds : i = Current.id =>
                   /\ RowAfter(i) \in ChainRow
                   /\ Follows(events, i, RowAfter(i), At + 1, commitments'[i]),
           \A i : i \notin missed' =>
               i \notin missed \/ (i = Current.id /\ commitments'[i] # None),
           Current.type = "created" => Current.id \in missed' \/ commitments'[Current.id] # None
    PROVE  LocalInv'
<1> DEFINE L == Len(events)
           c == Current.id
<1>0. /\ L \in Nat /\ At \in 0..L /\ Current = events[At + 1] /\ At + 1 \in 1..L
      /\ At + Len(poll.page) = poll.next /\ poll.next \in 0..L /\ Len(poll.page) \in Nat
      /\ Tail(poll.page) \in Seq(ContractEvents) /\ Len(Tail(poll.page)) = Len(poll.page) - 1
      /\ \A k \in 1..Len(Tail(poll.page)) : Tail(poll.page)[k] = events[At + 1 + k]
      BY LocalFacts
<1>1. c \in IndexedIds BY <1>0, LocalFacts
<1>2. InPage' /\ At' = At + 1
      <2>1. InPage' BY DEF InPage
      <2>2. At' = poll.next - Len(Tail(poll.page)) BY <2>1 DEF At
      <2> QED BY <1>0, <2>1, <2>2
<1>3. ContractInv' /\ \A i : RowAfter(i)' = RowAfter(i) BY SameContract DEF LocalInv
<1>4. LocalTypeOK' BY DEF LocalInv, LocalTypeOK, latestLedger
<1>5. PollOK'
      <2>1. /\ poll.start = None => meta.cursor # None
            /\ meta.cursor # None => meta.cursor <= At
            /\ poll.start # None => poll.start <= At + 1
            BY DEF LocalInv, PollOK
      <2>2. meta.cursor # None => meta.cursor <= At + 1 BY <1>0, <2>1, LocalFacts
      <2>3. poll.start # None => poll.start <= At + 1 + 1
            <3>1. poll.start # None => poll.start \in Nat BY DEF LocalInv, LocalTypeOK, Polls
            <3> QED BY <1>0, <2>1, <3>1
      <2>4. Len(Tail(poll.page)) <= poll.next BY <1>0
      <2>5. latestLedger' = L BY DEF latestLedger
      <2> QED BY <1>0, <1>2, <2>1, <2>2, <2>3, <2>4, <2>5 DEF PollOK
<1>6. RowsFollow'
      <2> SUFFICES ASSUME ~ orphaned, NEW i \in IndexedIds, commitments'[i] # None
                   PROVE  /\ RowAfter(i) \in ChainRow
                          /\ Follows(events, i, RowAfter(i), At + 1, commitments'[i])
          BY <1>2, <1>3 DEF RowsFollow
      <2>1. CASE i = c BY <2>1
      <2>2. CASE i # c
            <3>1. commitments'[i] = commitments[i] BY <2>2
            <3>2. RowAfter(i) \in ChainRow /\ Follows(events, i, RowAfter(i), At, commitments[i])
                  BY <3>1 DEF LocalInv, RowsFollow
            <3>3. \A m \in 1..L : m > At /\ events[m].id = i => m > At + 1
                  <4> SUFFICES ASSUME NEW m \in 1..L, m > At, events[m].id = i PROVE m > At + 1
                      OBVIOUS
                  <4>1. m # At + 1 BY <1>0, <2>2
                  <4> QED BY <1>0, <4>1
            <3>4. /\ SettledAfter(events, i, At) => SettledAfter(events, i, At + 1)
                  /\ DisputedAfter(events, i, At) => DisputedAfter(events, i, At + 1)
                  BY <3>3 DEF SettledAfter, DisputedAfter
            <3> QED BY <3>1, <3>2, <3>4 DEF Follows
      <2> QED BY <2>1, <2>2
<1>7. ASSUME NEW lo, NEW hi \in 0..L, IsIndexed(events, commitments, missed, lo, hi)
      PROVE  IsIndexed(events, commitments', missed', lo, hi)
      <2> SUFFICES ASSUME NEW n \in 1..hi, n >= lo, events[n].type = "created",
                          events[n].id \notin missed'
                   PROVE  commitments'[events[n].id] # None
          BY DEF IsIndexed
      <2>1. events[n].id \in IndexedIds
            <3>1. n \in 1..L BY <1>0
            <3> QED BY <3>1, LocalFacts
      <2>2. CASE events[n].id = c /\ commitments'[c] # None BY <2>2
      <2>3. CASE ~ (events[n].id = c /\ commitments'[c] # None)
            <3>1. events[n].id \notin missed BY <2>3
            <3>2. commitments[events[n].id] # None BY <1>7, <3>1 DEF IsIndexed
            <3> QED BY <2>1, <2>3, <3>2
      <2> QED BY <2>2, <2>3
<1>8. WindowKept'
      <2> DEFINE lo == IF poll.start = None THEN meta.lastLedgerSeq ELSE poll.start
      <2>1. IsIndexed(events, commitments, missed, lo, At) BY DEF LocalInv, WindowKept
      <2>2. IsIndexed(events, commitments', missed', lo, At)
            <3> HIDE DEF lo
            <3> QED BY <1>0, <1>7, <2>1
      <2>3. IsIndexed(events, commitments', missed', lo, At + 1)
            <3> HIDE DEF lo
            <3>1. \A n \in 1..(At + 1) : n = At + 1 \/ n \in 1..At BY <1>0
            <3>2. events[At + 1].type = "created" =>
                      events[At + 1].id \in missed' \/ commitments'[events[At + 1].id] # None
                  BY <1>0
            <3> QED BY <2>2, <3>1, <3>2 DEF IsIndexed
      <2>4. meta.cursor # None => meta.cursor \in 0..L BY LocalFacts
      <2>5. meta.cursor # None /\ meta.cursor + 1 >= oldestLedger =>
                IsIndexed(events, commitments', missed', meta.lastLedgerSeq, meta.cursor)
            BY <1>7, <2>4 DEF LocalInv, WindowKept
      <2> QED BY <1>2, <2>3, <2>5 DEF WindowKept
<1> QED BY <1>3, <1>4, <1>5, <1>6, <1>8 DEF LocalInv


\* What a step of the poll changes of its record
LEMMA Going ==
    ASSUME poll \in Polls, NEW s \in {"idle", "cursor", "clear", "latest", "scratch"}, Goto(s)
    PROVE  poll' \in Polls /\ poll'.step = s /\ poll'.start = poll.start
BY DEF Goto, Polls

\* A poll that has ended.
LEMMA IdlePoll == NoPoll \in Polls /\ NoPoll.step = "idle" /\ NoPoll.start = None
BY DEF NoPoll, Polls

\* The steps of pollOnce, one by one.
LEMMA TickKeepsIndex == ASSUME LocalInv, PollTick PROVE LocalInv'
<1>1. poll \in Polls /\ poll.step = "idle" /\ ~ InPage /\ poll.start = None
      BY DEF LocalInv, LocalTypeOK, PollTick, InPage, PollOK
<1>2. UNCHANGED <<events, oldestLedger, commitments, meta, missed, orphaned>> BY DEF PollTick
<1>3. CASE meta.cursor = None
      <2>1. Goto("latest") BY <1>3 DEF PollTick
      <2>2. poll' \in Polls /\ poll'.step = "latest" BY <1>1, <2>1, Going
      <2>3. ~ orphaned => \A i \in IndexedIds : commitments[i] = None
            BY <1>1, <1>3 DEF LocalInv, RowsFollow
      <2> QED BY <1>1, <1>2, <1>3, <2>2, <2>3, MovingKeepsIndex
<1>4. CASE meta.cursor # None
      <2>1. Goto("cursor") BY <1>4 DEF PollTick
      <2>2. poll' \in Polls /\ poll'.step = "cursor" /\ poll'.start = None BY <1>1, <2>1, Going
      <2> QED BY <1>1, <1>2, <1>4, <2>2, MovingKeepsIndex
<1> QED BY <1>3, <1>4

LEMMA CursorKeepsIndex == ASSUME LocalInv, FetchFromCursor PROVE LocalInv'
<1>1. poll \in Polls /\ poll.step = "cursor" /\ ~ InPage /\ poll.start = None /\ meta.cursor # None
      BY DEF LocalInv, LocalTypeOK, FetchFromCursor, InPage, PollOK
<1>2. UNCHANGED <<events, oldestLedger, commitments, meta, missed, orphaned>>
      BY DEF FetchFromCursor
<1>3. meta.cursor \in 0..Len(events) /\ Len(events) \in Nat /\ oldestLedger \in Nat
      <2>1. oldestLedger \in 1..(latestLedger + 1) /\ latestLedger = Len(events)
            BY DEF LocalInv, LocalTypeOK, latestLedger
      <2> QED BY <1>1, <2>1, LocalFacts
<1>4. CASE meta.cursor + 1 < oldestLedger
      <2>1. Goto("clear") BY <1>4 DEF FetchFromCursor
      <2>2. poll' \in Polls /\ poll'.step = "clear" BY <1>1, <2>1, Going
      <2> QED BY <1>1, <1>2, <1>4, <2>2, MovingKeepsIndex
<1>5. CASE ~ (meta.cursor + 1 < oldestLedger)
      <2>1. Page(meta.cursor + 1) BY <1>5 DEF FetchFromCursor
      <2>2. meta.cursor + 1 \in 1..(Len(events) + 1) /\ meta.cursor + 1 >= oldestLedger
            BY <1>3, <1>5
      <2> QED BY <1>1, <1>2, <2>1, <2>2, PageKeepsIndex
<1> QED BY <1>4, <1>5

LEMMA ClearingKeepsIndex == ASSUME LocalInv, ClearCommitments PROVE LocalInv'
<1>0. /\ UNCHANGED <<events, oldestLedger, meta, missed>> /\ orphaned' = FALSE
      /\ commitments' = [i \in IndexedIds |-> None]
      /\ poll' = [poll EXCEPT !.step = "latest", !.gap = TRUE] /\ poll.step = "clear"
      BY DEF ClearCommitments
<1>1. poll \in Polls BY DEF LocalInv, LocalTypeOK
<1>2. poll' \in Polls /\ poll'.step = "latest" BY <1>0, <1>1 DEF Polls
<1>3. ~ InPage /\ ~ InPage' BY <1>0, <1>2 DEF InPage
<1>4. ContractInv' BY <1>0, SameContract DEF LocalInv
<1>5. LocalTypeOK' BY <1>0, <1>2 DEF LocalInv, LocalTypeOK, latestLedger
<1>6. meta.cursor # None => meta.cursor + 1 < oldestLedger BY <1>0 DEF LocalInv, PollOK
<1>7. PollOK' BY <1>0, <1>2, <1>3, <1>6 DEF PollOK
<1>8. RowsFollow' BY <1>0 DEF RowsFollow
<1>9. WindowKept'
      <2>1. meta.cursor # None => meta.cursor \in Nat BY LocalFacts
      <2>2. oldestLedger \in Nat
            <3>1. oldestLedger \in 1..(latestLedger + 1) BY DEF LocalInv, LocalTypeOK
            <3> QED BY <3>1
      <2>3. meta.cursor # None => ~ (meta.cursor + 1 >= oldestLedger) BY <1>6, <2>1, <2>2
      <2> QED BY <1>0, <1>3, <2>3 DEF WindowKept
<1> QED BY <1>4, <1>5, <1>7, <1>8, <1>9 DEF LocalInv

LEMMA LatestKeepsIndex == ASSUME LocalInv, FetchLatest PROVE LocalInv'
<1> DEFINE first == latestLedger - lookbackLedgers
           from == IF first > 1 THEN first ELSE 1
<1>0. /\ UNCHANGED <<events, oldestLedger, commitments, meta, missed, orphaned>>
      /\ poll' = [poll EXCEPT !.step = "scratch", !.start = from] /\ poll.step = "latest"
      BY DEF FetchLatest
<1>1. poll \in Polls /\ ~ InPage BY <1>0 DEF LocalInv, LocalTypeOK, InPage
<1>2. from \in 1..(latestLedger + 1) /\ from \in Nat \ {0}
      <2>1. latestLedger \in Nat BY LocalFacts DEF latestLedger
      <2> QED BY <2>1, LocalAssumption
<1> HIDE DEF from
<1>3. poll' \in Polls /\ poll'.step = "scratch" /\ poll'.start = from BY <1>0, <1>1, <1>2 DEF Polls
<1>4. /\ meta.cursor # None => meta.cursor + 1 < oldestLedger
      /\ ~ orphaned => \A i \in IndexedIds : commitments[i] = None
      BY <1>0 DEF LocalInv, PollOK
<1> QED BY <1>0, <1>1, <1>2, <1>3, <1>4, MovingKeepsIndex

LEMMA ScratchKeepsIndex == ASSUME LocalInv, FetchFromScratch PROVE LocalInv'
<1>0. /\ UNCHANGED <<events, oldestLedger, commitments, meta, missed, orphaned>>
      /\ poll.step = "scratch"
      BY DEF FetchFromScratch
<1>1. poll \in Polls /\ ~ InPage BY <1>0 DEF LocalInv, LocalTypeOK, InPage
<1>2. /\ meta.cursor # None => meta.cursor + 1 < oldestLedger
      /\ ~ orphaned => \A i \in IndexedIds : commitments[i] = None
      /\ poll.start \in 1..(latestLedger + 1)
      BY <1>0 DEF LocalInv, PollOK
<1>3. latestLedger = Len(events) /\ Len(events) \in Nat /\ oldestLedger \in Nat
      /\ (meta.cursor # None => meta.cursor \in Nat)
      <2>1. oldestLedger \in 1..(latestLedger + 1) /\ latestLedger = Len(events)
            BY DEF LocalInv, LocalTypeOK, latestLedger
      <2> QED BY <2>1, LocalFacts
<1>4. poll.start # None BY <1>2, <1>3, LocalAssumption
<1>5. CASE poll.start >= oldestLedger
      <2>1. Page(poll.start) BY <1>5 DEF FetchFromScratch
      <2>2. meta.cursor # None => meta.cursor < poll.start BY <1>2, <1>3, <1>5
      <2> QED BY <1>0, <1>1, <1>2, <1>3, <1>4, <2>1, <2>2, PageKeepsIndex
<1>6. CASE ~ (poll.start >= oldestLedger) /\ poll.gap
      <2>1. poll' = NoPoll BY <1>6 DEF FetchFromScratch
      <2> QED BY <1>0, <1>1, <2>1, IdlePoll, MovingKeepsIndex
<1>7. CASE ~ (poll.start >= oldestLedger) /\ ~ poll.gap
      <2>1. Goto("clear") BY <1>7 DEF FetchFromScratch
      <2>2. poll' \in Polls /\ poll'.step = "clear" BY <1>1, <2>1, Going
      <2> QED BY <1>0, <1>1, <1>2, <2>2, MovingKeepsIndex
<1> QED BY <1>5, <1>6, <1>7

\* The contract is read for a commitment whose first event is due.
LEMMA ReadRowFollows ==
    ASSUME LocalInv, InPage, poll.page # <<>>, Current.type = "created",
           NEW i \in IndexedIds, i = Current.id
    PROVE  /\ RowAfter(i) \in ChainRow
           /\ toCommitment(i) \in IndexedRow
           /\ Follows(events, i, RowAfter(i), At + 1, toCommitment(i))
<1> DEFINE now == RowAfter(i)
<1>1. Current = events[At + 1] /\ At + 1 \in 1..Len(events) BY LocalFacts
<1>2. Lawful(events, At + 1, now) BY <1>1 DEF LocalInv, ContractInv, LawfulOf
<1>3. toCommitment(i) = Row(now.status, IF now.status \in {"Pending", "Disputed"} THEN None
                                        ELSE now.status)
      BY DEF toCommitment
<1> HIDE DEF now
<1>4. now \in ChainRow
      /\ (~ SettledAfter(events, i, At + 1) => now = Row("Pending", None) /\ ~ Decided(events, i))
      BY <1>1, <1>2 DEF Lawful
<1>5. now.status \in {"Pending", "Disputed"} \cup Outcomes
      /\ (now.status \in Outcomes => now = Row(now.status, now.status))
      /\ (now.status = "Pending" => now = Row("Pending", None)) BY <1>4, RowTypes
<1>6. toCommitment(i) \in IndexedRow BY <1>3, <1>5 DEF Row, IndexedRow
<1>7. ~ SettledAfter(events, i, At + 1) => toCommitment(i) = now
      BY <1>3, <1>4 DEF Row
<1>8. Follows(events, i, now, At + 1, toCommitment(i)) BY <1>4, <1>7 DEF Follows
<1> QED BY <1>4, <1>6, <1>8 DEF now

\* LookUp is answered, and the row is kept until it is stored; or it is not.
LEMMA LookingUpKeepsIndex == ASSUME LocalInv, LookUp PROVE LocalInv'
<1>0. /\ UNCHANGED <<events, oldestLedger, commitments, meta, orphaned>>
      /\ poll.step = "apply" /\ poll.page # <<>> /\ Current.type = "created" /\ InPage
      BY DEF LookUp, InPage
<1>1. poll \in Polls BY DEF LocalInv, LocalTypeOK
<1>2. /\ Current = events[At + 1] /\ At + 1 \in 1..Len(events) /\ Current.id \in IndexedIds
      /\ Tail(poll.page) \in Seq(ContractEvents) /\ At \in 0..Len(events) /\ Len(events) \in Nat
      BY <1>0, LocalFacts
<1>3. CASE poll' = [poll EXCEPT !.step = "store", !.row = toCommitment(Current.id)]
              /\ UNCHANGED <<missed, interruptions>>
      <2> DEFINE read == toCommitment(Current.id)
      <2>1. read \in IndexedRow BY <1>0, <1>2, ReadRowFollows
      <2>2. \A i \in IndexedIds : i = Current.id =>
                Follows(events, i, RowAfter(i), At + 1, read)
            BY <1>0, ReadRowFollows
      <2> HIDE DEF read
      <2>3. /\ poll' \in Polls /\ poll'.step = "store" /\ poll'.row = read
            /\ poll'.page = poll.page /\ poll'.next = poll.next /\ poll'.start = poll.start
            BY <1>1, <1>3, <2>1 DEF Polls, read
      <2>4. InPage' /\ At' = At /\ Current' = Current
            BY <1>0, <2>3 DEF InPage, At, Current
      <2>5. ContractInv' /\ \A i : RowAfter(i)' = RowAfter(i) BY <1>0, SameContract DEF LocalInv
      <2>6. LocalTypeOK' BY <1>0, <2>3 DEF LocalInv, LocalTypeOK, latestLedger
      <2>7. PollOK' BY <1>0, <2>1, <2>2, <2>3, <2>4, <2>5 DEF LocalInv, PollOK, latestLedger
      <2>8. RowsFollow' BY <1>0, <2>4, <2>5 DEF LocalInv, RowsFollow
      <2>9. WindowKept' BY <1>0, <1>3, <2>3, <2>4 DEF LocalInv, WindowKept
      <2> QED BY <2>5, <2>6, <2>7, <2>8, <2>9 DEF LocalInv
<1>4. CASE /\ missed' = missed \cup {Current.id}
           /\ poll' = [poll EXCEPT !.page = Tail(poll.page)]
      <2>1. /\ poll' \in Polls /\ poll'.step = "apply" /\ poll'.page = Tail(poll.page)
            /\ poll'.next = poll.next /\ poll'.start = poll.start
            BY <1>0, <1>1, <1>2, <1>4 DEF Polls
      <2>2. ASSUME ~ orphaned, NEW i \in IndexedIds, i = Current.id, commitments[i] # None
            PROVE  /\ RowAfter(i) \in ChainRow
                   /\ Follows(events, i, RowAfter(i), At + 1, commitments[i])
            <3>1. RowAfter(i) \in ChainRow /\ Follows(events, i, RowAfter(i), At, commitments[i])
                  BY <2>2 DEF LocalInv, RowsFollow
            <3>2. \A m \in 1..Len(events) :
                      m > At /\ (Settles(events[m]) \/ events[m].type = "disputed") => m > At + 1
                  <4> SUFFICES ASSUME NEW m \in 1..Len(events), m > At,
                                      Settles(events[m]) \/ events[m].type = "disputed"
                               PROVE  m > At + 1
                      OBVIOUS
                  <4>1. m # At + 1 BY <1>0, <1>2 DEF Settles
                  <4> QED BY <1>2, <4>1
            <3>3. /\ SettledAfter(events, i, At) => SettledAfter(events, i, At + 1)
                  /\ DisputedAfter(events, i, At) => DisputedAfter(events, i, At + 1)
                  BY <3>2 DEF SettledAfter, DisputedAfter
            <3> QED BY <3>1, <3>3 DEF Follows
      <2>3. commitments \in [IndexedIds -> {None} \cup IndexedRow] BY DEF LocalInv, LocalTypeOK
      <2> QED BY <1>0, <1>4, <2>1, <2>2, <2>3, AdvancingKeepsIndex
<1> QED BY <1>3, <1>4 DEF LookUp

\* The row that was read is stored.
LEMMA UpsertKeepsIndex == ASSUME LocalInv, UpsertCommitment PROVE LocalInv'
<1>0. /\ UNCHANGED <<events, oldestLedger, meta, orphaned>> /\ poll.step = "store" /\ InPage
      /\ commitments' = [commitments EXCEPT ![Current.id] = poll.row]
      /\ missed' = missed \ {Current.id}
      /\ poll' = [poll EXCEPT !.step = "apply", !.row = None, !.page = Tail(poll.page)]
      BY DEF UpsertCommitment, InPage
<1>1. poll \in Polls /\ commitments \in [IndexedIds -> {None} \cup IndexedRow]
      BY DEF LocalInv, LocalTypeOK
<1>2. /\ poll.page # <<>> /\ Current.type = "created" /\ poll.row \in IndexedRow
      /\ \A i \in IndexedIds : i = Current.id => Follows(events, i, RowAfter(i), At + 1, poll.row)
      BY <1>0 DEF LocalInv, PollOK
<1>3. /\ Current = events[At + 1] /\ At + 1 \in 1..Len(events) /\ Current.id \in IndexedIds
      /\ Tail(poll.page) \in Seq(ContractEvents)
      BY <1>0, <1>2, LocalFacts
<1>4. /\ poll' \in Polls /\ poll'.step = "apply" /\ poll'.page = Tail(poll.page)
      /\ poll'.next = poll.next /\ poll'.start = poll.start
      BY <1>0, <1>1, <1>3 DEF Polls
<1>5. /\ commitments'[Current.id] = poll.row /\ poll.row # None
      /\ \A i \in IndexedIds : i # Current.id => commitments'[i] = commitments[i]
      /\ commitments' \in [IndexedIds -> {None} \cup IndexedRow]
      BY <1>0, <1>1, <1>2, <1>3, LocalAssumption
<1>6. \A i \in IndexedIds : i = Current.id =>
          RowAfter(i) \in ChainRow /\ Follows(events, i, RowAfter(i), At + 1, commitments'[i])
      BY <1>0, <1>2, <1>5, ReadRowFollows
<1>7. \A i : i \notin missed' => i \notin missed \/ (i = Current.id /\ commitments'[i] # None)
      BY <1>0, <1>5
<1> QED BY <1>0, <1>2, <1>4, <1>5, <1>6, <1>7, AdvancingKeepsIndex

\* A row to which the event that is due is applied follows from there.
LEMMA PatchedRowFollows ==
    ASSUME LocalInv, InPage, poll.page # <<>>, Current.type \in ParsedTypes \ {"created"},
           NEW i \in IndexedIds, i = Current.id, NEW r \in IndexedRow
    PROVE  /\ RowsApplied(Current, r) \in IndexedRow
           /\ RowAfter(i) \in ChainRow /\ Follows(events, i, RowAfter(i), At, r) =>
                  Follows(events, i, RowAfter(i), At + 1, RowsApplied(Current, r))
<1> DEFINE now == RowAfter(i)
           e == events[At + 1]
           n == At + 1
<1>1. /\ Current = e /\ n \in 1..Len(events) /\ Len(events) \in Nat /\ e \in ContractEvents
      /\ At \in 0..Len(events)
      BY LocalFacts
<1>2. Lawful(events, n, now) BY <1>1 DEF LocalInv, ContractInv, LawfulOf
<1>3. e.id = i BY <1>1
<1>4. (Settles(e) \/ e.type = "disputed") /\ (Settles(e) => e.outcome \in Outcomes)
      BY <1>1, KindsOfEvents
<1> HIDE DEF now
<1>5. CASE Settles(e)
      <2>1. RowsApplied(e, r) = Row(e.outcome, e.outcome) /\ e.outcome \in Outcomes
            BY <1>4, <1>5 DEF RowsApplied, Settles, Settlements
      <2>2. RowsApplied(e, r) \in IndexedRow BY <2>1 DEF Row, IndexedRow
      <2>3. ~ SettledAfter(events, i, n) =>
                IF Decided(events, i) THEN DisputedAfter(events, i, n)
                ELSE /\ now.outcome = e.outcome
                     /\ now.status = e.outcome \/ DisputedAfter(events, i, n)
            BY <1>2, <1>3, <1>5 DEF Lawful
      <2>4. Follows(events, i, now, n, RowsApplied(e, r)) BY <2>1, <2>3 DEF Follows, Row
      <2> QED BY <1>1, <2>2, <2>4 DEF now
<1>6. CASE e.type = "disputed"
      <2>1. RowsApplied(e, r) = [r EXCEPT !.status = "Disputed"] BY <1>6 DEF RowsApplied
      <2>2. /\ RowsApplied(e, r) \in IndexedRow /\ RowsApplied(e, r).status = "Disputed"
            /\ RowsApplied(e, r).outcome = r.outcome
            BY <2>1 DEF IndexedRow
      <2>3. ~ SettledAfter(events, i, n) => Decided(events, i) \/ now.status = "Disputed"
            BY <1>2, <1>3, <1>6 DEF Lawful
      <2>4. SettledAfter(events, i, At) => SettledAfter(events, i, n)
            <3>1. \A m \in 1..Len(events) : m > At /\ Settles(events[m]) => m > n
                  <4> SUFFICES ASSUME NEW m \in 1..Len(events), m > At, Settles(events[m])
                               PROVE  m > n
                      OBVIOUS
                  <4>1. m # n BY <1>6 DEF Settles
                  <4> QED BY <1>1, <4>1
            <3> QED BY <3>1 DEF SettledAfter
      <2>5. Follows(events, i, now, At, r) => Follows(events, i, now, n, RowsApplied(e, r))
            BY <2>2, <2>3, <2>4 DEF Follows
      <2> QED BY <1>1, <2>2, <2>5 DEF now
<1> QED BY <1>4, <1>5, <1>6

\* The event that is due is applied, or there is no row to apply it to.
LEMMA PatchKeepsIndex == ASSUME LocalInv, PatchCommitmentStatus PROVE LocalInv'
<1>0. /\ UNCHANGED <<events, oldestLedger, meta, missed, orphaned>> /\ poll.step = "apply" /\ InPage
      /\ poll.page # <<>> /\ Current.type \in ParsedTypes \ {"created"}
      /\ commitments' = [commitments EXCEPT ![Current.id] =
             IF commitments[Current.id] = None THEN None
             ELSE RowsApplied(Current, commitments[Current.id])]
      /\ poll' = [poll EXCEPT !.page = Tail(poll.page)]
      BY DEF PatchCommitmentStatus, InPage
<1>1. poll \in Polls /\ commitments \in [IndexedIds -> {None} \cup IndexedRow]
      BY DEF LocalInv, LocalTypeOK
<1>2. /\ Current = events[At + 1] /\ At + 1 \in 1..Len(events) /\ Current.id \in IndexedIds
      /\ Tail(poll.page) \in Seq(ContractEvents)
      BY <1>0, LocalFacts
<1>3. /\ poll' \in Polls /\ poll'.step = "apply" /\ poll'.page = Tail(poll.page)
      /\ poll'.next = poll.next /\ poll'.start = poll.start
      BY <1>0, <1>1, <1>2 DEF Polls
<1> DEFINE old == commitments[Current.id]
<1>4. old # None => RowsApplied(Current, old) \in IndexedRow BY <1>0, <1>1, <1>2, PatchedRowFollows
<1>5. /\ commitments'[Current.id] = IF old = None THEN None ELSE RowsApplied(Current, old)
      /\ \A i \in IndexedIds : i # Current.id => commitments'[i] = commitments[i]
      /\ commitments' \in [IndexedIds -> {None} \cup IndexedRow]
      BY <1>0, <1>1, <1>2, <1>4
<1>6. old # None => commitments'[Current.id] # None BY <1>4, <1>5, LocalAssumption
<1>7. ASSUME ~ orphaned, commitments'[Current.id] # None, NEW i \in IndexedIds, i = Current.id
      PROVE  /\ RowAfter(i) \in ChainRow
             /\ Follows(events, i, RowAfter(i), At + 1, commitments'[i])
      <2>1. old # None /\ old \in IndexedRow BY <1>1, <1>5, <1>7
      <2>2. RowAfter(i) \in ChainRow /\ Follows(events, i, RowAfter(i), At, old)
            BY <1>7, <2>1 DEF LocalInv, RowsFollow
      <2>3. Follows(events, i, RowAfter(i), At + 1, RowsApplied(Current, old))
            BY <1>0, <1>7, <2>1, <2>2, PatchedRowFollows
      <2> QED BY <1>5, <1>7, <2>1, <2>2, <2>3
<1> QED BY <1>0, <1>3, <1>5, <1>6, <1>7, AdvancingKeepsIndex

\* An event that is not parsed is passed by, and takes no row to where it follows less.
LEMMA SkippingKeepsIndex == ASSUME LocalInv, SkipEvent PROVE LocalInv'
<1>0. /\ UNCHANGED <<events, oldestLedger, commitments, meta, missed, orphaned>>
      /\ poll.step = "apply" /\ InPage /\ poll.page # <<>> /\ Current.type \notin ParsedTypes
      /\ poll' = [poll EXCEPT !.page = Tail(poll.page)]
      BY DEF SkipEvent, InPage
<1>1. poll \in Polls /\ commitments \in [IndexedIds -> {None} \cup IndexedRow]
      BY DEF LocalInv, LocalTypeOK
<1>2. /\ Current = events[At + 1] /\ At + 1 \in 1..Len(events) /\ Current.id \in IndexedIds
      /\ Tail(poll.page) \in Seq(ContractEvents) /\ Current \in ContractEvents
      /\ Len(events) \in Nat /\ At \in 0..Len(events)
      BY <1>0, LocalFacts
<1>3. /\ poll' \in Polls /\ poll'.step = "apply" /\ poll'.page = Tail(poll.page)
      /\ poll'.next = poll.next /\ poll'.start = poll.start
      BY <1>0, <1>1, <1>2 DEF Polls
<1>4. /\ Current.type # "created" /\ ~ Settles(Current) /\ Current.type # "disputed"
      <2>1. Decides(Current) BY <1>0, <1>2, KindsOfEvents
      <2> QED BY <1>2, <2>1, KindsOfEvents
<1>5. ASSUME ~ orphaned, commitments'[Current.id] # None, NEW i \in IndexedIds, i = Current.id
      PROVE  /\ RowAfter(i) \in ChainRow
             /\ Follows(events, i, RowAfter(i), At + 1, commitments'[i])
      <2>1. RowAfter(i) \in ChainRow /\ Follows(events, i, RowAfter(i), At, commitments[i])
            BY <1>0, <1>5 DEF LocalInv, RowsFollow
      <2>2. \A m \in 1..Len(events) :
                m > At /\ (Settles(events[m]) \/ events[m].type = "disputed") => m > At + 1
            <3> SUFFICES ASSUME NEW m \in 1..Len(events), m > At,
                                Settles(events[m]) \/ events[m].type = "disputed"
                         PROVE  m > At + 1
                OBVIOUS
            <3>1. m # At + 1 BY <1>2, <1>4
            <3> QED BY <1>2, <3>1
      <2>3. /\ SettledAfter(events, i, At) => SettledAfter(events, i, At + 1)
            /\ DisputedAfter(events, i, At) => DisputedAfter(events, i, At + 1)
            BY <2>2 DEF SettledAfter, DisputedAfter
      <2> QED BY <1>0, <2>1, <2>3 DEF Follows
<1> QED BY <1>0, <1>1, <1>3, <1>4, <1>5, AdvancingKeepsIndex

\* The page has been applied: the cursor is where the rows are.
LEMMA MetaKeepsIndex == ASSUME LocalInv, SetMeta PROVE LocalInv'
<1> DEFINE L == Len(events)
           lo == IF poll.start = None THEN meta.lastLedgerSeq ELSE poll.start
<1>0. /\ UNCHANGED <<events, oldestLedger, commitments, missed, orphaned>> /\ InPage
      /\ poll.page = <<>> /\ meta' = [cursor |-> poll.next, lastLedgerSeq |-> lo]
      /\ poll' = NoPoll
      BY DEF SetMeta, InPage
<1>1. L \in Nat /\ At \in 0..L /\ At = poll.next /\ poll.next # None
      <2>1. L \in Nat /\ At \in 0..L /\ At + Len(poll.page) = poll.next BY <1>0, LocalFacts
      <2>2. Len(poll.page) = 0 BY <1>0
      <2> QED BY <2>1, <2>2, LocalAssumption
<1>2. lo \in Nat /\ lo # None
      <2>1. poll.start = None => meta.cursor # None BY <1>0 DEF LocalInv, PollOK
      <2>2. poll.start # None => poll.start \in Nat BY DEF LocalInv, LocalTypeOK, Polls
      <2> QED BY <2>1, <2>2, LocalFacts, LocalAssumption
<1>3. IsIndexed(events, commitments, missed, lo, At) BY <1>0 DEF LocalInv, WindowKept
<1> HIDE DEF lo
<1>4. meta'.cursor = At /\ meta'.lastLedgerSeq = lo BY <1>0, <1>1
<1>5. ~ InPage' /\ At' = At
      <2>1. ~ InPage' BY <1>0, IdlePoll DEF InPage
      <2> QED BY <1>4, <2>1 DEF At
<1>6. ContractInv' /\ \A i : RowAfter(i)' = RowAfter(i) BY <1>0, SameContract DEF LocalInv
<1>7. LocalTypeOK' BY <1>0, <1>1, <1>2, IdlePoll DEF LocalInv, LocalTypeOK, latestLedger
<1>8. PollOK' BY <1>0, <1>5, IdlePoll DEF PollOK
<1>9. RowsFollow'
      <2> SUFFICES ASSUME ~ orphaned, NEW i \in IndexedIds, commitments[i] # None
                   PROVE  /\ RowAfter(i) \in ChainRow
                          /\ Follows(events, i, RowAfter(i), At, commitments[i])
          BY <1>0, <1>1, <1>4, <1>5, <1>6 DEF RowsFollow
      <2> QED BY DEF LocalInv, RowsFollow
<1>10. WindowKept' BY <1>0, <1>3, <1>4, <1>5 DEF WindowKept
<1> QED BY <1>6, <1>7, <1>8, <1>9, <1>10 DEF LocalInv

\* A poll that breaks off falls back to the cursor; without one its rows are left behind.
LEMMA BreakingOffKeepsIndex ==
    ASSUME LocalInv, UNCHANGED <<events, oldestLedger, commitments, meta, missed>>,
           orphaned' = (\/ orphaned
                        \/ meta.cursor = None /\ \E i \in IndexedIds : commitments[i] # None),
           poll' = NoPoll
    PROVE  LocalInv'
<1>1. ContractInv' /\ \A i : RowAfter(i)' = RowAfter(i) BY SameContract DEF LocalInv
<1>2. ~ InPage' /\ At' = meta.cursor
      <2>1. ~ InPage' BY IdlePoll DEF InPage
      <2> QED BY <2>1 DEF At
<1>3. LocalTypeOK' BY IdlePoll DEF LocalInv, LocalTypeOK, latestLedger
<1>4. PollOK' BY <1>2, IdlePoll DEF PollOK
<1>5. RowsFollow'
      <2> SUFFICES ASSUME ~ orphaned', NEW i \in IndexedIds, commitments[i] # None
                   PROVE  /\ meta.cursor # None /\ RowAfter(i) \in ChainRow
                          /\ Follows(events, i, RowAfter(i), meta.cursor, commitments[i])
          BY <1>1, <1>2 DEF RowsFollow
      <2>1. ~ orphaned /\ meta.cursor # None OBVIOUS
      <2>2. RowAfter(i) \in ChainRow /\ Follows(events, i, RowAfter(i), At, commitments[i])
            BY <2>1 DEF LocalInv, RowsFollow
      <2>3. meta.cursor \in Int /\ At \in Int /\ meta.cursor <= At /\ Len(events) \in Nat
            <3>1. meta.cursor \in 0..Len(events) /\ Len(events) \in Nat BY <2>1, LocalFacts
            <3>2. CASE InPage
                  <4>1. At \in 0..Len(events) BY <3>2, LocalFacts
                  <4>2. meta.cursor <= At BY <2>1, <3>2 DEF LocalInv, PollOK
                  <4> QED BY <3>1, <4>1, <4>2
            <3>3. CASE ~ InPage
                  <4>1. At = meta.cursor BY <3>3 DEF At
                  <4> QED BY <3>1, <4>1
            <3> QED BY <3>2, <3>3
      <2>4. Follows(events, i, RowAfter(i), meta.cursor, commitments[i])
            <3> DEFINE now == RowAfter(i)
                       p == At
                       q == meta.cursor
                       r == commitments[i]
            <3>1. q \in Int /\ p \in Int /\ q <= p /\ Follows(events, i, now, p, r)
                  BY <2>2, <2>3
            <3> HIDE DEF now, p, q, r
            <3>2. Follows(events, i, now, q, r) BY <2>3, <3>1, FollowsFromBefore
            <3> QED BY <3>2 DEF now, q, r
      <2> QED BY <2>1, <2>2, <2>4
<1>6. WindowKept' BY <1>2 DEF LocalInv, WindowKept
<1> QED BY <1>1, <1>3, <1>4, <1>5, <1>6 DEF LocalInv

\* Every step of the contract, the node and the browser keeps the invariant.
LEMMA IndexStep == LocalInv /\ [LocalNext]_localVars => LocalInv'
<1> SUFFICES ASSUME LocalInv, [LocalNext]_localVars PROVE LocalInv' OBVIOUS
<1>1. CASE LedgerClosed BY <1>1, ClosingKeepsIndex
<1>2. CASE EventsForgotten BY <1>2, ForgettingKeepsIndex
<1>3. CASE PollStep
      BY <1>3, TickKeepsIndex, CursorKeepsIndex, ClearingKeepsIndex, LatestKeepsIndex,
         ScratchKeepsIndex, LookingUpKeepsIndex, UpsertKeepsIndex, PatchKeepsIndex,
         SkippingKeepsIndex, MetaKeepsIndex DEF PollStep
<1>4. CASE PollFails \/ Reload
      BY <1>4, BreakingOffKeepsIndex DEF PollFails, Reload, Interrupted
<1>5. ASSUME NEW m, SetMode(m) PROVE LocalInv' BY <1>5, StayingKeepsIndex DEF SetMode
<1>6. CASE UNCHANGED localVars BY <1>6, StayingKeepsIndex DEF localVars
<1> QED BY <1>1, <1>2, <1>3, <1>4, <1>5, <1>6 DEF LocalNext

\* With no event left to apply, a row that follows the contract is its row.
LEMMA IndexIsRight == LocalInv => IndexIsCurrent /\ WindowIsIndexed
<1> SUFFICES ASSUME LocalInv, CaughtUp PROVE IndexIsCurrent /\ WindowIsIndexed
    BY DEF IndexIsCurrent, WindowIsIndexed
<1> DEFINE L == Len(events)
<1>0. ~ InPage /\ meta.cursor = L /\ At = L BY DEF CaughtUp, InPage, At, latestLedger
<1>1. L \in Nat /\ L # None BY LocalFacts, LocalAssumption
<1>2. IndexIsCurrent
      <2> SUFFICES ASSUME ~ orphaned, NEW i \in IndexedIds, commitments[i] # None
                   PROVE  IF Decided(events, i) THEN commitments[i].status = "Disputed"
                          ELSE commitments[i] = RowAfter(i)
          BY DEF IndexIsCurrent, Happened, Decided, Decides, latestLedger
      <2> DEFINE now == RowAfter(i)
                 r == commitments[i]
      <2>1. now \in ChainRow /\ Follows(events, i, now, L, r)
            BY <1>0 DEF LocalInv, RowsFollow
      <2>2. r \in IndexedRow BY DEF LocalInv, LocalTypeOK
      <2> HIDE DEF now, r
      <2>3. ~ SettledAfter(events, i, L) /\ ~ DisputedAfter(events, i, L)
            BY <1>1 DEF SettledAfter, DisputedAfter
      <2>4. IF Decided(events, i) THEN r.status = "Disputed"
            ELSE r.outcome = now.outcome /\ r.status = now.status BY <2>1, <2>3 DEF Follows
      <2>5. now \in IndexedRow BY <2>1, RowTypes
      <2> QED BY <2>2, <2>4, <2>5 DEF IndexedRow, now, r
<1>3. WindowIsIndexed
      <2>1. oldestLedger \in 1..(L + 1) BY DEF LocalInv, LocalTypeOK, latestLedger
      <2>2. meta.cursor + 1 >= oldestLedger BY <1>0, <1>1, <2>1
      <2>3. IsIndexed(events, commitments, missed, meta.lastLedgerSeq, L)
            BY <1>0, <1>1, <2>2 DEF LocalInv, WindowKept
      <2> QED BY <2>3 DEF WindowIsIndexed, IsIndexed, latestLedger
<1> QED BY <1>2, <1>3

\* For any commitments, events and polls: an index that has caught up shows what the contract
\* holds, except that what a panel has decided is shown disputed, and everything that was
\* created in its window, whatever broke off on the way.
THEOREM IndexStaysCurrent == LocalSpec => [](IndexIsCurrent /\ WindowIsIndexed)
<1> QED BY LocalStart, IndexStep, IndexIsRight, PTL DEF LocalSpec

-----------------------------------------------------------------------------
(***************************************************************************)
(* The live feed, for any sockets, events and commitments.                 *)
(***************************************************************************)

PublishedEvent == [number : Nat, id : LiveIds, sequence : Nat]
Socket == [state : {"connecting", "open", "closing", "closed"}, messages : Seq(PublishedEvent)]

LiveTypeOK ==
    /\ published \in Seq(PublishedEvent)
    /\ sockets \in Seq(Socket)
    /\ realtime \in [LiveIds -> Nat]
    /\ lastProcessedSequence \in Nat

\* The ledgers are published in order.
InOrder ==
    /\ \A n \in 1..Len(published) : published[n].number = n
    /\ \A m, n \in 1..Len(published) : m <= n => published[m].sequence <= published[n].sequence

\* Whatever is on its way was published.
NothingMadeUp ==
    \A s \in 1..Len(sockets) : \A k \in 1..Len(sockets[s].messages) :
        \E n \in 1..Len(published) : sockets[s].messages[k] = published[n]

\* What the store shows comes from no ledger after the one processed last.
ShownIsProcessed ==
    \A i \in LiveIds : realtime[i] # 0 =>
        /\ realtime[i] \in 1..Len(published)
        /\ published[realtime[i]].sequence <= lastProcessedSequence

LiveInv == LiveTypeOK /\ InOrder /\ NothingMadeUp /\ ShownIsProcessed

Forward == \A i \in LiveIds : realtime'[i] >= realtime[i]

\* The store takes an event of a later ledger only, which no event it shows is after.
LEMMA ApplyingGoesForward ==
    ASSUME LiveInv, NEW n \in 1..Len(published), applyEvent(published[n])
    PROVE  /\ realtime' \in [LiveIds -> Nat] /\ lastProcessedSequence' \in Nat
           /\ Forward
           /\ \A i \in LiveIds : realtime'[i] # 0 =>
                  /\ realtime'[i] \in 1..Len(published)
                  /\ published[realtime'[i]].sequence <= lastProcessedSequence'
<1> DEFINE e == published[n]
<1>0. \A m \in 1..Len(published) : published[m] \in PublishedEvent
      BY ElementOfSeq DEF LiveInv, LiveTypeOK
<1>1. e \in PublishedEvent /\ e.number = n BY <1>0 DEF LiveInv, InOrder
<1>2. CASE e.sequence <= lastProcessedSequence
      <2>1. UNCHANGED <<realtime, lastProcessedSequence>> BY <1>2 DEF applyEvent
      <2> QED BY <2>1 DEF LiveInv, LiveTypeOK, ShownIsProcessed, Forward
<1>3. CASE ~ (e.sequence <= lastProcessedSequence)
      <2>1. realtime' = [realtime EXCEPT ![e.id] = n] /\ lastProcessedSequence' = e.sequence
            BY <1>1, <1>3 DEF applyEvent
      <2>2. e.sequence \in Nat /\ lastProcessedSequence \in Nat /\ n \in Nat /\ n # 0
            BY <1>1 DEF LiveInv, LiveTypeOK, PublishedEvent
      <2>3. \A i \in LiveIds : realtime[i] \in Nat /\ realtime'[i] = IF i = e.id THEN n ELSE realtime[i]
            BY <2>1 DEF LiveInv, LiveTypeOK
      <2>4. realtime[e.id] <= n
            <3>1. e.id \in LiveIds BY <1>1 DEF PublishedEvent
            <3>2. CASE realtime[e.id] = 0 BY <2>2, <3>2
            <3>3. CASE realtime[e.id] # 0
                  <4> DEFINE m == realtime[e.id]
                  <4>1. m \in 1..Len(published) /\ published[m].sequence <= lastProcessedSequence
                        BY <3>1, <3>3 DEF LiveInv, ShownIsProcessed
                  <4>2. n <= m => e.sequence <= published[m].sequence
                        BY <4>1 DEF LiveInv, InOrder
                  <4>3. published[m].sequence \in Nat
                        BY <1>0, <4>1 DEF PublishedEvent
                  <4>4. ~ (n <= m) BY <1>3, <2>2, <4>1, <4>2, <4>3
                  <4> QED BY <2>2, <4>1, <4>4
            <3> QED BY <3>2, <3>3
      <2>5. realtime' \in [LiveIds -> Nat] BY <2>1, <2>2 DEF LiveInv, LiveTypeOK
      <2>6. Forward BY <2>2, <2>3, <2>4 DEF Forward
      <2>7. ASSUME NEW i \in LiveIds, realtime'[i] # 0
            PROVE  /\ realtime'[i] \in 1..Len(published)
                   /\ published[realtime'[i]].sequence <= lastProcessedSequence'
            <3>1. CASE i = e.id BY <2>1, <2>2, <2>3, <3>1
            <3>2. CASE i # e.id
                  <4>1. realtime'[i] = realtime[i] BY <2>3, <3>2
                  <4>2. /\ realtime[i] \in 1..Len(published)
                        /\ published[realtime[i]].sequence <= lastProcessedSequence
                        BY <2>7, <4>1 DEF LiveInv, ShownIsProcessed
                  <4>3. published[realtime[i]].sequence \in Nat
                        BY <1>0, <4>2 DEF PublishedEvent
                  <4> QED BY <1>3, <2>1, <2>2, <4>1, <4>2, <4>3
            <3> QED BY <3>1, <3>2
      <2> QED BY <2>1, <2>2, <2>5, <2>6, <2>7
<1> QED BY <1>2, <1>3

\* Sockets that carry no message they did not carry before carry what was published.
LEMMA SocketsChange ==
    ASSUME LiveInv, UNCHANGED published, sockets' \in Seq(Socket),
           \A s \in 1..Len(sockets') :
               \/ sockets'[s].messages = <<>>
               \/ s \in 1..Len(sockets) /\ sockets'[s].messages = sockets[s].messages
    PROVE  NothingMadeUp'
<1> SUFFICES ASSUME NEW s \in 1..Len(sockets'), NEW k \in 1..Len(sockets'[s].messages)
             PROVE  \E n \in 1..Len(published) : sockets'[s].messages[k] = published[n]
    BY DEF NothingMadeUp
<1>1. sockets'[s].messages # <<>> OBVIOUS
<1>2. s \in 1..Len(sockets) /\ sockets'[s].messages = sockets[s].messages BY <1>1
<1> QED BY <1>2 DEF LiveInv, NothingMadeUp

\* A published event is the last, of a ledger no earlier than those before.
LEMMA PublishingStays ==
    ASSUME LiveInv, PublishEvent
    PROVE  LiveInv' /\ UNCHANGED realtime
<1>0. UNCHANGED <<realtime, lastProcessedSequence>> BY DEF PublishEvent
<1> DEFINE last == IF published = <<>> THEN 1 ELSE published[Len(published)].sequence
<1>1. PICK id \in LiveIds, newLedger \in {0, 1} :
        LET e == [number |-> Len(published) + 1, id |-> id, sequence |-> last + newLedger]
        IN  /\ published' = Append(published, e)
            /\ sockets' = [s \in DOMAIN sockets |->
                   IF sockets[s].state = "open"
                   THEN [sockets[s] EXCEPT !.messages = Append(@, e)] ELSE sockets[s]]
      BY DEF PublishEvent
<1> DEFINE e == [number |-> Len(published) + 1, id |-> id, sequence |-> last + newLedger]
           N == Len(published)
<1>2. published \in Seq(PublishedEvent) /\ sockets \in Seq(Socket) /\ N \in Nat
      BY DEF LiveInv, LiveTypeOK
<1>3. last \in Nat /\ \A m \in 1..N : published[m].sequence \in Nat /\ published[m].sequence <= last
      <2>1. CASE N = 0 BY <1>2, <2>1
      <2>2. CASE N # 0
            <3>1. published # <<>> /\ N \in 1..N BY <1>2, <2>2
            <3>2. \A m \in 1..N : published[m] \in PublishedEvent BY <1>2
            <3>3. \A m \in 1..N : m <= N => published[m].sequence <= published[N].sequence
                  BY <3>1 DEF LiveInv, InOrder
            <3> QED BY <1>2, <3>1, <3>2, <3>3 DEF PublishedEvent
      <2> QED BY <2>1, <2>2
<1>4. e \in PublishedEvent BY <1>2, <1>3 DEF PublishedEvent
<1>5. e.sequence = last + newLedger /\ e.number = N + 1 OBVIOUS
<1> HIDE DEF e, last
<1>6. published' = Append(published, e) BY <1>1 DEF e
<1>7. sockets' = [s \in 1..Len(sockets) |->
                   IF sockets[s].state = "open"
                   THEN [sockets[s] EXCEPT !.messages = Append(sockets[s].messages, e)]
                   ELSE sockets[s]]
      BY <1>1, <1>2 DEF e
<1>8. published' \in Seq(PublishedEvent) /\ Len(published') = N + 1
      BY <1>2, <1>4, <1>6
<1>9. \A m \in 1..(N + 1) : published'[m] = IF m = N + 1 THEN e ELSE published[m]
      BY <1>2, <1>4, <1>6
<1>10. InOrder'
      <2>1. ASSUME NEW m \in 1..(N + 1) PROVE published'[m].number = m
            <3>1. CASE m = N + 1 BY <1>5, <1>9, <3>1
            <3>2. CASE m # N + 1
                  <4>1. m \in 1..N BY <1>2, <3>2
                  <4> QED BY <1>9, <4>1, <3>2 DEF LiveInv, InOrder
            <3> QED BY <3>1, <3>2
      <2>2. ASSUME NEW m \in 1..(N + 1), NEW n \in 1..(N + 1), m <= n
            PROVE  published'[m].sequence <= published'[n].sequence
            <3>1. CASE n # N + 1
                  <4>1. m \in 1..N /\ n \in 1..N /\ m # N + 1 BY <1>2, <2>2, <3>1
                  <4> QED BY <1>9, <2>2, <3>1, <4>1 DEF LiveInv, InOrder
            <3>2. CASE n = N + 1 /\ m # N + 1
                  <4>1. m \in 1..N BY <1>2, <3>2
                  <4>2. published'[n] = e /\ published'[m] = published[m] BY <1>9, <3>2
                  <4> QED BY <1>3, <1>5, <4>1, <4>2
            <3>3. CASE n = N + 1 /\ m = N + 1
                  <4>1. published'[n] = e /\ published'[m] = e BY <1>9, <3>3
                  <4> QED BY <1>3, <1>5, <4>1
            <3> QED BY <3>1, <3>2, <3>3
      <2> QED BY <1>8, <2>1, <2>2 DEF InOrder
<1>11. ASSUME NEW s \in 1..Len(sockets)
       PROVE  /\ sockets'[s] \in Socket
              /\ \A k \in 1..Len(sockets'[s].messages) :
                     \E n \in 1..(N + 1) : sockets'[s].messages[k] = published'[n]
      <2> DEFINE old == sockets[s].messages
      <2>a. sockets[s] \in Socket BY <1>2, ElementOfSeq
      <2>0. sockets[s] \in Socket /\ old \in Seq(PublishedEvent) BY <2>a DEF Socket
      <2>1. \A k \in 1..Len(old) : \E n \in 1..N : old[k] = published[n]
            BY DEF LiveInv, NothingMadeUp
      <2>2. \A k \in 1..Len(old) : \E n \in 1..(N + 1) : old[k] = published'[n]
            <3> SUFFICES ASSUME NEW k \in 1..Len(old)
                         PROVE  \E n \in 1..(N + 1) : old[k] = published'[n] OBVIOUS
            <3>1. PICK n \in 1..N : old[k] = published[n] BY <2>1
            <3>2. n \in 1..(N + 1) /\ n # N + 1 BY <1>2
            <3> QED BY <1>9, <3>1, <3>2
      <2>3. CASE sockets[s].state # "open"
            <3>1. sockets'[s] = sockets[s] BY <1>7, <2>3
            <3> QED BY <2>0, <2>2, <3>1
      <2>4. CASE sockets[s].state = "open"
            <3>1. sockets'[s] = [sockets[s] EXCEPT !.messages = Append(old, e)] BY <1>7, <2>4
            <3>2. sockets'[s].messages = Append(old, e) BY <2>0, <3>1 DEF Socket
            <3>3. sockets'[s] \in Socket BY <1>4, <2>0, <3>1 DEF Socket
            <3>4. ASSUME NEW k \in 1..Len(Append(old, e))
                  PROVE  \E n \in 1..(N + 1) : Append(old, e)[k] = published'[n]
                  <4>1. CASE k \in 1..Len(old)
                        <5>1. Append(old, e)[k] = old[k] BY <1>4, <2>0, <4>1
                        <5> QED BY <2>2, <4>1, <5>1
                  <4>2. CASE k \notin 1..Len(old)
                        <5>1. Append(old, e)[k] = e BY <1>4, <2>0, <4>2
                        <5>2. N + 1 \in 1..(N + 1) /\ published'[N + 1] = e BY <1>2, <1>9
                        <5> QED BY <5>1, <5>2
                  <4> QED BY <4>1, <4>2
            <3> QED BY <3>2, <3>3, <3>4
      <2> QED BY <2>3, <2>4
<1>12. sockets' \in Seq(Socket) /\ Len(sockets') = Len(sockets)
      <2>1. sockets' \in [1..Len(sockets) -> Socket] BY <1>7, <1>11
      <2>2. Len(sockets) \in Nat BY <1>2
      <2> QED BY <2>1, <2>2
<1>13. NothingMadeUp' BY <1>8, <1>11, <1>12 DEF NothingMadeUp
<1>14. ShownIsProcessed'
      <2> SUFFICES ASSUME NEW i \in LiveIds, realtime[i] # 0
                   PROVE  /\ realtime[i] \in 1..(N + 1)
                          /\ published'[realtime[i]].sequence <= lastProcessedSequence
          BY <1>0, <1>8 DEF ShownIsProcessed
      <2>1. realtime[i] \in 1..N /\ published[realtime[i]].sequence <= lastProcessedSequence
            BY DEF LiveInv, ShownIsProcessed
      <2>2. realtime[i] \in 1..(N + 1) /\ realtime[i] # N + 1 BY <1>2, <2>1
      <2> QED BY <1>9, <2>1, <2>2
<1> QED BY <1>0, <1>8, <1>10, <1>12, <1>13, <1>14 DEF LiveInv, LiveTypeOK

\* A message brings an event that was published.
LEMMA MessageGoesForward ==
    ASSUME LiveInv, NEW s \in DOMAIN sockets, OnMessage(s)
    PROVE  LiveInv' /\ Forward
<1> DEFINE old == sockets[s].messages
<1>1. sockets \in Seq(Socket) /\ s \in 1..Len(sockets) /\ sockets[s] \in Socket
      <2>1. sockets \in Seq(Socket) BY DEF LiveInv, LiveTypeOK
      <2> QED BY <2>1, ElementOfSeq
<1>2. old \in Seq(PublishedEvent) /\ old # <<>> BY <1>1 DEF OnMessage, Socket
<1>3. 1 \in 1..Len(old) /\ Head(old) = old[1] BY <1>2
<1>4. PICK n \in 1..Len(published) : Head(old) = published[n]
      BY <1>1, <1>3 DEF LiveInv, NothingMadeUp
<1>5. applyEvent(published[n]) BY <1>4 DEF OnMessage
<1>6. UNCHANGED published /\ sockets' = [sockets EXCEPT ![s].messages = Tail(old)]
      BY DEF OnMessage
<1>7. Tail(old) \in Seq(PublishedEvent) /\ Len(Tail(old)) = Len(old) - 1
      /\ \A k \in 1..Len(Tail(old)) : k + 1 \in 1..Len(old) /\ Tail(old)[k] = old[k + 1]
      BY <1>2
<1>8. sockets' \in Seq(Socket) /\ Len(sockets') = Len(sockets)
      <2>1. [sockets[s] EXCEPT !.messages = Tail(old)] \in Socket BY <1>1, <1>7 DEF Socket
      <2>2. sockets' = [sockets EXCEPT ![s] = [sockets[s] EXCEPT !.messages = Tail(old)]] BY <1>6
      <2> QED BY <1>1, <2>1, <2>2
<1>9. NothingMadeUp'
      <2> SUFFICES ASSUME NEW r \in 1..Len(sockets), NEW k \in 1..Len(sockets'[r].messages)
                   PROVE  \E m \in 1..Len(published) : sockets'[r].messages[k] = published[m]
          BY <1>6, <1>8 DEF NothingMadeUp
      <2>1. CASE r # s
            <3>1. sockets'[r] = sockets[r] BY <1>1, <1>6, <2>1
            <3> QED BY <3>1 DEF LiveInv, NothingMadeUp
      <2>2. CASE r = s
            <3>1. sockets'[r].messages = Tail(old) BY <1>1, <1>6, <2>2 DEF Socket
            <3>2. k + 1 \in 1..Len(old) /\ Tail(old)[k] = old[k + 1] BY <1>7, <3>1
            <3> QED BY <1>1, <3>1, <3>2 DEF LiveInv, NothingMadeUp
      <2> QED BY <2>1, <2>2
<1>10. /\ realtime' \in [LiveIds -> Nat] /\ lastProcessedSequence' \in Nat
       /\ Forward
       /\ \A i \in LiveIds : realtime'[i] # 0 =>
              /\ realtime'[i] \in 1..Len(published)
              /\ published[realtime'[i]].sequence <= lastProcessedSequence'
      BY <1>5, ApplyingGoesForward
<1>11. ShownIsProcessed' BY <1>6, <1>10 DEF ShownIsProcessed
<1>12. InOrder' BY <1>6 DEF LiveInv, InOrder
<1>13. LiveTypeOK' BY <1>6, <1>8, <1>10 DEF LiveInv, LiveTypeOK
<1> QED BY <1>9, <1>10, <1>11, <1>12, <1>13 DEF LiveInv

\* Everything else only opens, closes and forgets sockets.
LEMMA SocketsOnly ==
    ASSUME LiveInv, UNCHANGED <<published, realtime, lastProcessedSequence>>,
           sockets' \in Seq(Socket),
           \A s \in 1..Len(sockets') :
               \/ sockets'[s].messages = <<>>
               \/ s \in 1..Len(sockets) /\ sockets'[s].messages = sockets[s].messages
    PROVE  LiveInv' /\ Forward
<1>1. NothingMadeUp' BY SocketsChange
<1>2. Forward
      <2>1. \A i \in LiveIds : realtime[i] \in Nat BY DEF LiveInv, LiveTypeOK
      <2> QED BY <2>1 DEF Forward
<1> QED BY <1>1, <1>2 DEF LiveInv, LiveTypeOK, InOrder, ShownIsProcessed

\* A new socket carries nothing yet.
LEMMA ConnectingOpens ==
    ASSUME LiveInv, ConnectSocket
    PROVE  /\ sockets' \in Seq(Socket)
           /\ \A s \in 1..Len(sockets') :
                  \/ sockets'[s].messages = <<>>
                  \/ s \in 1..Len(sockets) /\ sockets'[s].messages = sockets[s].messages
<1>1. sockets \in Seq(Socket) BY DEF LiveInv, LiveTypeOK
<1>2. CASE UNCHANGED sockets BY <1>1, <1>2
<1>3. CASE sockets' = Append(sockets, [state |-> "connecting", messages |-> <<>>])
      <2> DEFINE fresh == [state |-> "connecting", messages |-> <<>>]
      <2>1. fresh \in Socket /\ fresh.messages = <<>> BY DEF Socket
      <2> HIDE DEF fresh
      <2>2. sockets' = Append(sockets, fresh) BY <1>3 DEF fresh
      <2>3. \A s \in 1..Len(sockets') :
               \/ sockets'[s] = fresh
               \/ s \in 1..Len(sockets) /\ sockets'[s] = sockets[s]
            BY <1>1, <2>1, <2>2
      <2> QED BY <1>1, <2>1, <2>2, <2>3
<1> QED BY <1>2, <1>3 DEF ConnectSocket

\* Every step keeps the invariant and takes the store forward.
LEMMA LiveStep == LiveInv /\ [LiveNext]_liveVars => LiveInv' /\ Forward
<1> SUFFICES ASSUME LiveInv, [LiveNext]_liveVars PROVE LiveInv' /\ Forward OBVIOUS
<1>0. sockets \in Seq(Socket) /\ DOMAIN sockets = 1..Len(sockets)
      /\ \A s \in 1..Len(sockets) : sockets[s] \in Socket
      BY DEF LiveInv, LiveTypeOK
<1> DEFINE AddsNothing == \A s \in 1..Len(sockets') :
               \/ sockets'[s].messages = <<>>
               \/ s \in 1..Len(sockets) /\ sockets'[s].messages = sockets[s].messages
<1>1. CASE PublishEvent
      <2>1. LiveInv' /\ UNCHANGED realtime BY <1>1, PublishingStays
      <2>2. \A i \in LiveIds : realtime[i] \in Nat BY DEF LiveInv, LiveTypeOK
      <2> QED BY <2>1, <2>2 DEF Forward
<1>2. ASSUME NEW s \in DOMAIN sockets, OnMessage(s) PROVE LiveInv' /\ Forward
      BY <1>2, MessageGoesForward
<1>3. ASSUME NEW s \in DOMAIN sockets, OnOpen(s) PROVE LiveInv' /\ Forward
      <2>1. [sockets[s] EXCEPT !.state = "open"] \in Socket BY <1>0 DEF Socket
      <2>2. sockets' = [sockets EXCEPT ![s] = [sockets[s] EXCEPT !.state = "open"]]
            BY <1>3 DEF OnOpen
      <2>3. sockets' \in Seq(Socket) /\ Len(sockets') = Len(sockets) BY <1>0, <2>1, <2>2
      <2>4. \A r \in 1..Len(sockets) : sockets'[r].messages = sockets[r].messages
            BY <1>0, <2>2 DEF Socket
      <2>5. AddsNothing BY <2>3, <2>4
      <2> QED BY <1>3, <2>3, <2>5, SocketsOnly DEF OnOpen
<1>4. ASSUME NEW s \in DOMAIN sockets, OnClose(s) PROVE LiveInv' /\ Forward
      <2> DEFINE gone == [state |-> "closed", messages |-> <<>>]
      <2>1. gone \in Socket /\ gone.messages = <<>> BY DEF Socket
      <2> HIDE DEF gone
      <2>2. sockets' = [sockets EXCEPT ![s] = gone] BY <1>4 DEF OnClose, gone
      <2>3. sockets' \in Seq(Socket) /\ Len(sockets') = Len(sockets) BY <1>0, <2>1, <2>2
      <2>4. \A r \in 1..Len(sockets) : sockets'[r] = gone \/ sockets'[r] = sockets[r]
            BY <1>0, <2>2
      <2>5. AddsNothing BY <2>1, <2>3, <2>4
      <2> QED BY <1>4, <2>3, <2>5, SocketsOnly DEF OnClose
<1>5. CASE ReconnectSocket \/ MountApp
      <2>1. sockets' \in Seq(Socket) /\ AddsNothing
            BY <1>5, ConnectingOpens DEF ReconnectSocket, MountApp
      <2> QED BY <1>5, <2>1, SocketsOnly DEF ReconnectSocket, MountApp
<1>6. CASE UnmountApp
      <2>1. sockets' = IF ws = None THEN sockets ELSE [sockets EXCEPT ![ws].state = "closing"]
            BY <1>6 DEF UnmountApp
      <2>2. CASE sockets' = sockets
            <3>1. sockets' \in Seq(Socket) /\ AddsNothing BY <1>0, <2>2
            <3> QED BY <1>6, <3>1, SocketsOnly DEF UnmountApp
      <2>3. CASE sockets' # sockets
            <3>1. sockets' = [r \in 1..Len(sockets) |->
                      IF r = ws THEN [sockets[r] EXCEPT !.state = "closing"] ELSE sockets[r]]
                  BY <1>0, <2>1, <2>3
            <3>2. \A r \in 1..Len(sockets) :
                      [sockets[r] EXCEPT !.state = "closing"] \in Socket
                  BY <1>0 DEF Socket
            <3>3. sockets' \in [1..Len(sockets) -> Socket] BY <1>0, <3>1, <3>2
            <3>4. sockets' \in Seq(Socket) /\ Len(sockets') = Len(sockets) BY <1>0, <3>3
            <3>5. \A r \in 1..Len(sockets) : sockets'[r].messages = sockets[r].messages
                  BY <1>0, <3>1 DEF Socket
            <3>6. AddsNothing BY <3>4, <3>5
            <3> QED BY <1>6, <3>4, <3>6, SocketsOnly DEF UnmountApp
      <2> QED BY <2>2, <2>3
<1>7. CASE UNCHANGED liveVars
      <2>1. sockets' \in Seq(Socket) /\ AddsNothing BY <1>0, <1>7 DEF liveVars
      <2> QED BY <1>7, <2>1, SocketsOnly DEF liveVars
<1> QED BY <1>1, <1>2, <1>3, <1>4, <1>5, <1>6, <1>7 DEF LiveNext

\* For any sockets and events: the store never goes back to an older state of a commitment.
THEOREM StoreNeverGoesBack == LiveSpec => StoreNeverAges
<1>1. LiveInit => LiveInv
      BY DEF LiveInit, LiveInv, LiveTypeOK, InOrder, NothingMadeUp, ShownIsProcessed
<1>2. LiveInv /\ [LiveNext]_liveVars => LiveInv' BY LiveStep
<1>3. LiveInv /\ [LiveNext]_liveVars
          => [\A i \in LiveIds : realtime'[i] >= realtime[i]]_liveVars
      BY LiveStep DEF Forward
<1> QED BY <1>1, <1>2, <1>3, PTL DEF LiveSpec, StoreNeverAges
-----------------------------------------------------------------------------
(***************************************************************************)
(* The rollup of the client: what it claims of a commitment can be proved. *)
(***************************************************************************)

\* The numbers below each member of a finite set are told apart by how many they are.
LEMMA AscendingIsSorted ==
    ASSUME NEW S \in SUBSET Nat, IsFiniteSet(S)
    PROVE  /\ Cardinality(S) \in Nat
           /\ Ascending(S) \in [1..Cardinality(S) -> S]
<1> DEFINE below(i) == {j \in S : j < i}
           f == [i \in S |-> Cardinality(below(i))]
           n == Cardinality(S)
<1>0. \A i \in S : i \in Nat OBVIOUS
<1>1. n \in Nat BY FS_CardinalityType
<1>2. \A i \in S : /\ IsFiniteSet(below(i)) /\ Cardinality(below(i)) \in Nat
                   /\ Cardinality(below(i)) < n
      <2> TAKE i \in S
      <2>1. below(i) \subseteq S /\ below(i) # S BY <1>0
      <2> QED BY <2>1, FS_Subset, FS_CardinalityType
<1>3. \A i \in S, j \in S : i < j => Cardinality(below(i)) < Cardinality(below(j))
      <2> SUFFICES ASSUME NEW i \in S, NEW j \in S, i < j
                   PROVE  Cardinality(below(i)) < Cardinality(below(j))
          OBVIOUS
      <2>1. \A x \in S : x < i => x < j
            BY <1>0
      <2>2. below(i) \subseteq below(j) BY <2>1
      <2>3. i \in below(j) /\ i \notin below(i) BY <1>0
      <2> QED BY <2>2, <2>3, <1>2, FS_Subset
<1>4. f \in [S -> 0..(n - 1)]
      BY <1>1, <1>2
<1>5. f \in Injection(S, 0..(n - 1))
      <2>1. \A i \in S, j \in S : f[i] = f[j] => i = j
            <3> SUFFICES ASSUME NEW i \in S, NEW j \in S, i # j PROVE f[i] # f[j]
                OBVIOUS
            <3>1. i < j \/ j < i BY <1>0
            <3> QED BY <3>1, <1>2, <1>3
      <2> HIDE DEF f
      <2> QED BY <2>1, <1>4 DEF Injection, IsInjective
<1>6. IsFiniteSet(0..(n - 1)) /\ Cardinality(0..(n - 1)) = n
      <2> HIDE DEF n
      <2>1. 0 \in Int /\ n - 1 \in Int BY <1>1
      <2> QED BY <1>1, <2>1, FS_Interval
<1>7. f \in Surjection(S, 0..(n - 1))
      <2> HIDE DEF f, n
      <2>1. Cardinality(S) = Cardinality(0..(n - 1)) BY <1>6 DEF n
      <2> QED BY <1>5, <1>6, <2>1, FS_Injection
<1>8. \A k \in 1..n : \E i \in S : Cardinality(below(i)) = k - 1
      <2> TAKE k \in 1..n
      <2>1. k - 1 \in 0..(n - 1) BY <1>1
      <2>2. PICK i \in S : f[i] = k - 1 
            <3> HIDE DEF f
            <3> QED BY <2>1, <1>7 DEF Surjection
      <2> QED BY <2>2
<1>9. \A k \in 1..n : (CHOOSE i \in S : Cardinality(below(i)) = k - 1) \in S
      BY <1>8
<1> QED BY <1>1, <1>9 DEF Ascending

\* The paths that a tree over the leaves of commitments can give
Paths == {<<>>} \cup {getProof(LeafHashes(batch), k) : batch \in Seq(Nat), k \in Nat}

Record ==
    [status : {"PendingRollup", "OnChainFinalized", "ForceIncludePending", "ForceIncluded"},
     commitment : Nat, leafHash : {LeafOf(id) : id \in Nat}, proof : Paths,
     batchSequence : Nat, enqueuedAt : Nat, leafIndex : Nat]

RollupTypes ==
    /\ rollupTime \in Nat
    /\ records \in Seq(Record)
    /\ IsFiniteSet(outOfOrder)
    /\ accumulator \in Seq(Nat)
    /\ openBatchSequence \in Nat \ {0}
    /\ sealedBatches \in Seq([root : Seq(Nat), commitments : SUBSET Record])
    /\ Len(sealedBatches) = openBatchSequence - 1
    /\ forcing \in Seq(Seq(Record) \ {<<>>})

\* The leaves of batch b: those of its root once it is sealed.
LeavesIn(b, leaves, sealed, open) == IF b < open THEN sealed[b].root ELSE leaves

\* Records and leaves say the same: each record has its leaf, and each leaf is of a record.
Covers(recs, leaves, sealed, open) ==
    /\ \A i \in 1..Len(recs) :
           LET own == LeavesIn(recs[i].batchSequence, leaves, sealed, open) IN
           /\ recs[i].batchSequence \in 1..open
           /\ recs[i].leafIndex \in 1..Len(own)
           /\ own[recs[i].leafIndex] = i - 1
    /\ \A b \in 1..open : \A k \in 1..Len(LeavesIn(b, leaves, sealed, open)) :
           LET i == LeavesIn(b, leaves, sealed, open)[k] + 1 IN
           i \in 1..Len(recs) /\ recs[i].batchSequence = b /\ recs[i].leafIndex = k

\* The record has the leaf of its commitment, and the path that the tree over this batch
\* gave for it when the batch had n leaves.
Had(r, batch, n) ==
    /\ r.leafHash = LeafOf(r.commitment)
    /\ n \in r.leafIndex..Len(batch)
    /\ r.proof = getProof(LeafHashes(SubSeq(batch, 1, n)), r.leafIndex)

Kept(recs, r, batch) == Overtaken(recs, r) \/ \E n \in Nat : Had(r, batch, n)
KeptNow(recs, r, batch) == Overtaken(recs, r) \/ Had(r, batch, Len(batch))

\* Each record proves its commitment, as far as it still can.
RecordsKept(recs, leaves, sealed, open) ==
    \A i \in 1..Len(recs) :
        LET own == LeavesIn(recs[i].batchSequence, leaves, sealed, open) IN
        /\ recs[i].commitment = i - 1
        /\ Kept(recs, recs[i], own)
        /\ recs[i].status \in {"PendingRollup", "OnChainFinalized"} => KeptNow(recs, recs[i], own)

\* What a sealed batch lists proves its commitment.
BatchesKept(sealed) ==
    \A b \in 1..Len(sealed) : \A r \in sealed[b].commitments :
        /\ r.leafIndex \in 1..Len(sealed[b].root)
        /\ sealed[b].root[r.leafIndex] = r.commitment
        /\ Had(r, sealed[b].root, Len(sealed[b].root))

\* What a pass lists is of a record, and was kept when it was listed.
Listed(r, recs, leaves, sealed, open) ==
    /\ r.commitment + 1 \in 1..Len(recs)
    /\ r.batchSequence = recs[r.commitment + 1].batchSequence
    /\ r.leafIndex = recs[r.commitment + 1].leafIndex
    /\ Kept(recs, r, LeavesIn(r.batchSequence, leaves, sealed, open))

PassesKept(passes, recs, leaves, sealed, open) ==
    \A p \in 1..Len(passes) : \A k \in 1..Len(passes[p]) :
        Listed(passes[p][k], recs, leaves, sealed, open)

Sound(recs, leaves, sealed, open, passes) ==
    /\ Covers(recs, leaves, sealed, open)
    /\ RecordsKept(recs, leaves, sealed, open)
    /\ BatchesKept(sealed)
    /\ PassesKept(passes, recs, leaves, sealed, open)

RollupInv ==
    /\ RollupTypes
    /\ Sound(records, accumulator, sealedBatches, openBatchSequence, forcing)
    /\ FinalOnlyIfAccepted

\* What IncludedIsFinal says of a step.
IncludedStays ==
    \A i \in 1..Len(records) :
        \/ records[i].status \notin {"OnChainFinalized", "ForceIncluded"}
        \/ \E p \in 1..Len(forcing) : \E k \in 1..Len(forcing[p]) : forcing[p][k].commitment = i - 1
        \/ records'[i].status = records[i].status

\* The records are of the same commitments, at the same places.
SamePlaces(recs, old) ==
    /\ recs \in Seq(Record) /\ Len(recs) = Len(old)
    /\ \A i \in 1..Len(old) : /\ recs[i].commitment = old[i].commitment
                              /\ recs[i].batchSequence = old[i].batchSequence
                              /\ recs[i].leafIndex = old[i].leafIndex

LEMMA CoversSurvives ==
    ASSUME NEW recs, NEW old \in Seq(Record), NEW leaves, NEW sealed, NEW open \in Nat,
           Covers(old, leaves, sealed, open), SamePlaces(recs, old)
    PROVE  Covers(recs, leaves, sealed, open)
<1> DEFINE own(b) == LeavesIn(b, leaves, sealed, open)
<1>1. Len(recs) = Len(old) BY DEF SamePlaces
<1>2. \A i \in 1..Len(recs) :
           /\ recs[i].batchSequence \in 1..open
           /\ recs[i].leafIndex \in 1..Len(own(recs[i].batchSequence))
           /\ own(recs[i].batchSequence)[recs[i].leafIndex] = i - 1
      BY <1>1 DEF Covers, SamePlaces
<1>3. \A b \in 1..open : \A k \in 1..Len(own(b)) :
           /\ own(b)[k] + 1 \in 1..Len(recs)
           /\ recs[own(b)[k] + 1].batchSequence = b /\ recs[own(b)[k] + 1].leafIndex = k
      BY <1>1 DEF Covers, SamePlaces
<1> QED BY <1>2, <1>3 DEF Covers

\* What was overtaken stays so.
LEMMA KeptSurvives ==
    ASSUME NEW recs, NEW old, Len(old) \in Nat, SamePlaces(recs, old), NEW r, NEW batch
    PROVE  /\ Kept(old, r, batch) => Kept(recs, r, batch)
           /\ KeptNow(old, r, batch) => KeptNow(recs, r, batch)
<1>1. Overtaken(old, r) => Overtaken(recs, r)
      BY DEF Overtaken, SamePlaces
<1> QED BY <1>1 DEF Kept, KeptNow

\* A listed record replaces the one of its commitment.
LEMMA MarkedKeeps ==
    ASSUME NEW recs \in Seq(Record), NEW r \in Record,
           NEW status \in {"ForceIncludePending", "ForceIncluded"},
           NEW leaves, NEW sealed, NEW open \in Nat, NEW passes,
           Sound(recs, leaves, sealed, open, passes), Listed(r, recs, leaves, sealed, open)
    PROVE  LET new == Marked(recs, r, status) IN
           /\ SamePlaces(new, recs)
           /\ \A i \in 1..Len(recs) : \/ i # r.commitment + 1 /\ new[i] = recs[i]
                                      \/ i = r.commitment + 1 /\ new[i].status = status
           /\ Sound(new, leaves, sealed, open, passes)
<1> DEFINE new == Marked(recs, r, status)
           n == r.commitment + 1
           mine == [r EXCEPT !.status = status]
<1>1. recs \in [1..Len(recs) -> Record] /\ Len(recs) \in Nat
      BY SeqDef
<1>2. n \in 1..Len(recs) /\ r.batchSequence = recs[n].batchSequence /\ r.leafIndex = recs[n].leafIndex
      BY DEF Listed
<1>3. /\ mine \in Record /\ mine.status = status /\ mine.commitment = r.commitment
      /\ mine.batchSequence = r.batchSequence /\ mine.leafIndex = r.leafIndex
      /\ mine.leafHash = r.leafHash /\ mine.proof = r.proof
      BY DEF Record
<1>4. new = [recs EXCEPT ![n] = mine] BY DEF Marked
<1>5. \A i \in 1..Len(recs) : recs[i].commitment = i - 1
      BY DEF Sound, RecordsKept
<1>6. r.commitment \in Nat /\ recs[n].commitment = r.commitment
      <2>1. r.commitment \in Nat BY DEF Record
      <2>2. recs[n].commitment = n - 1 BY <1>2, <1>5
      <2> QED BY <2>1, <2>2
<1> HIDE DEF new, mine, n
<1>7. /\ new \in Seq(Record) /\ Len(new) = Len(recs) /\ new[n] = mine
      /\ \A i \in 1..Len(recs) : i # n => new[i] = recs[i]
      <2>1. new \in [1..Len(recs) -> Record] BY <1>1, <1>2, <1>3, <1>4
      <2>2. new[n] = mine /\ \A i \in 1..Len(recs) : i # n => new[i] = recs[i]
            BY <1>1, <1>2, <1>4
      <2> QED BY <1>1, <2>1, <2>2, SeqDef
<1>8. SamePlaces(new, recs)
      BY <1>2, <1>3, <1>6, <1>7 DEF SamePlaces
<1>9. Covers(new, leaves, sealed, open) BY <1>8, CoversSurvives DEF Sound
<1>10. RecordsKept(new, leaves, sealed, open)
      <2> DEFINE own(b) == LeavesIn(b, leaves, sealed, open)
      <2>1. ASSUME NEW i \in 1..Len(recs), i # n
            PROVE  /\ new[i].commitment = i - 1
                   /\ Kept(new, new[i], own(new[i].batchSequence))
                   /\ new[i].status \in {"PendingRollup", "OnChainFinalized"}
                          => KeptNow(new, new[i], own(new[i].batchSequence))
            <3>1. new[i] = recs[i] BY <1>7, <2>1
            <3>2. /\ Kept(recs, recs[i], own(recs[i].batchSequence))
                  /\ recs[i].status \in {"PendingRollup", "OnChainFinalized"}
                         => KeptNow(recs, recs[i], own(recs[i].batchSequence))
                  BY DEF Sound, RecordsKept
            <3> QED BY <1>1, <1>5, <1>8, <3>1, <3>2, KeptSurvives
      <2>2. /\ new[n].commitment = n - 1
            /\ Kept(new, new[n], own(new[n].batchSequence))
            /\ new[n].status \notin {"PendingRollup", "OnChainFinalized"}
            <3>1. Kept(recs, r, own(r.batchSequence)) BY DEF Listed
            <3>2. Kept(new, r, own(r.batchSequence)) BY <1>1, <1>8, <3>1, KeptSurvives
            <3>3. Kept(new, mine, own(r.batchSequence))
                  BY <1>3, <3>2 DEF Kept, Overtaken, Had
            <3>4. n - 1 = r.commitment BY <1>6 DEF n
            <3> QED BY <1>3, <1>7, <3>3, <3>4
      <2> HIDE DEF own
      <2>3. ASSUME NEW i \in 1..Len(new)
            PROVE  /\ new[i].commitment = i - 1
                   /\ Kept(new, new[i], own(new[i].batchSequence))
                   /\ new[i].status \in {"PendingRollup", "OnChainFinalized"}
                          => KeptNow(new, new[i], own(new[i].batchSequence))
            <3>1. i \in 1..Len(recs) BY <1>7
            <3> QED BY <3>1, <2>1, <2>2
      <2> QED BY <2>3 DEF RecordsKept, own
<1>11. PassesKept(passes, new, leaves, sealed, open)
      <2> SUFFICES ASSUME NEW p \in 1..Len(passes), NEW k \in 1..Len(passes[p])
                   PROVE  Listed(passes[p][k], new, leaves, sealed, open)
          BY DEF PassesKept
      <2>1. Listed(passes[p][k], recs, leaves, sealed, open) BY DEF Sound, PassesKept
      <2> QED BY <1>1, <1>8, <2>1, KeptSurvives DEF Listed, SamePlaces
<1>12. Sound(new, leaves, sealed, open, passes) BY <1>9, <1>10, <1>11 DEF Sound
<1>13. \A i \in 1..Len(recs) : \/ i # n /\ new[i] = recs[i]
                               \/ i = n /\ new[i].status = status
      BY <1>3, <1>7
<1> QED BY <1>8, <1>12, <1>13 DEF new, n

\* The commitments that enqueue(id) adds are numbered from id on.
LEMMA AddedInOrder ==
    ASSUME IsFiniteSet(outOfOrder), NEW id \in Nat
    PROVE  /\ Applied(id) \in Seq(Nat) /\ Len(Applied(id)) \in Nat \ {0}
           /\ \A k \in 1..Len(Applied(id)) : Applied(id)[k] = id + k - 1
<1> DEFINE run == {last \in outOfOrder : last >= id + 1 /\ (id + 1)..last \subseteq outOfOrder}
           n == Cardinality(run)
           rest == [k \in 1..n |-> id + 1 + k - 1]
<1>1. n \in Nat
      <2>1. run \subseteq outOfOrder OBVIOUS
      <2>2. IsFiniteSet(run) BY <2>1, FS_Subset
      <2> QED BY <2>2, FS_CardinalityType
<1>2. Drained(id + 1) = rest BY DEF Drained
<1> HIDE DEF n
<1>3. rest \in [1..n -> Nat] BY <1>1
<1>4. rest \in Seq(Nat) /\ Len(rest) = n
      BY <1>1, <1>3, SeqDef
<1>5. <<id>> \in Seq(Nat) /\ Len(<<id>>) = 1 /\ <<id>>[1] = id OBVIOUS
<1>6. \A k \in 1..n : rest[k] = id + k BY <1>1
<1> HIDE DEF rest
<1>7. /\ <<id>> \o rest \in Seq(Nat) /\ Len(<<id>> \o rest) = 1 + n
      /\ \A k \in 1..(1 + n) : (<<id>> \o rest)[k] = IF k <= 1 THEN <<id>>[k] ELSE rest[k - 1]
      BY <1>4, <1>5, ConcatProperties
<1>8. \A k \in 1..(1 + n) : (<<id>> \o rest)[k] = id + k - 1
      BY <1>1, <1>5, <1>6, <1>7
<1> QED BY <1>1, <1>2, <1>7, <1>8 DEF Applied

\* Sealing the open batch gives its leaves to its root, and opens an empty one.
LEMMA SealKeeps ==
    ASSUME RollupTypes, NEW recs \in Seq(Record), NEW leaves \in Seq(Nat), NEW byTick,
           Sound(recs, leaves, sealedBatches, openBatchSequence, forcing),
           maybeSeal(recs, leaves, byTick)
    PROVE  /\ accumulator' \in Seq(Nat)
           /\ openBatchSequence' \in Nat \ {0}
           /\ sealedBatches' \in Seq([root : Seq(Nat), commitments : SUBSET Record])
           /\ Len(sealedBatches') = openBatchSequence' - 1
           /\ Sound(recs, accumulator', sealedBatches', openBatchSequence', forcing)
<1>1. CASE ~(sealing = NotSealing /\ shouldSeal(recs))
      BY <1>1 DEF maybeSeal, RollupTypes
<1>2. CASE sealing = NotSealing /\ shouldSeal(recs)
      <2> DEFINE open == openBatchSequence
                 batch == [root |-> leaves, commitments |-> {recs[i] : i \in OpenPending(recs)}]
                 own(b) == LeavesIn(b, leaves, sealedBatches, open)
                 new(b) == LeavesIn(b, <<>>, Append(sealedBatches, batch), open + 1)
      <2>1. /\ sealedBatches' = Append(sealedBatches, batch)
            /\ openBatchSequence' = open + 1 /\ accumulator' = <<>>
            BY <1>2 DEF maybeSeal
      <2>2. open \in Nat \ {0} /\ Len(sealedBatches) = open - 1
            BY DEF RollupTypes
      <2>3. batch \in [root : Seq(Nat), commitments : SUBSET Record]
            <3>1. \A i \in OpenPending(recs) : recs[i] \in Record
                  BY ElementOfSeq DEF OpenPending
            <3> QED BY <3>1
      <2> HIDE DEF batch
      <2>4. /\ Append(sealedBatches, batch) \in Seq([root : Seq(Nat), commitments : SUBSET Record])
            /\ Len(Append(sealedBatches, batch)) = open
            /\ \A b \in 1..(open - 1) : Append(sealedBatches, batch)[b] = sealedBatches[b]
            /\ Append(sealedBatches, batch)[open] = batch
            <3>1. sealedBatches \in Seq([root : Seq(Nat), commitments : SUBSET Record])
                  BY DEF RollupTypes
            <3>2. /\ Append(sealedBatches, batch)
                         \in Seq([root : Seq(Nat), commitments : SUBSET Record])
                  /\ Len(Append(sealedBatches, batch)) = Len(sealedBatches) + 1
                  /\ \A b \in 1..Len(sealedBatches) :
                         Append(sealedBatches, batch)[b] = sealedBatches[b]
                  /\ Append(sealedBatches, batch)[Len(sealedBatches) + 1] = batch
                  BY <2>3, <3>1, AppendProperties
            <3>3. Len(sealedBatches) + 1 = open BY <2>2
            <3> QED BY <2>2, <3>2, <3>3
      <2>5. \A b \in 1..open : new(b) = own(b)
            <3> TAKE b \in 1..open
            <3>1. CASE b < open BY <3>1, <2>2, <2>4 DEF LeavesIn
            <3>2. CASE b = open BY <3>2, <2>2, <2>4 DEF LeavesIn, batch
            <3> QED BY <3>1, <3>2, <2>2
      <2>6. new(open + 1) = <<>> BY <2>2 DEF LeavesIn
      <2>7. \A i \in 1..Len(recs) :
                /\ recs[i].batchSequence \in 1..(open + 1)
                /\ recs[i].leafIndex \in 1..Len(new(recs[i].batchSequence))
                /\ new(recs[i].batchSequence)[recs[i].leafIndex] = i - 1
            <3> TAKE i \in 1..Len(recs)
            <3>1. /\ recs[i].batchSequence \in 1..open
                  /\ recs[i].leafIndex \in 1..Len(own(recs[i].batchSequence))
                  /\ own(recs[i].batchSequence)[recs[i].leafIndex] = i - 1
                  BY DEF Sound, Covers
            <3>2. new(recs[i].batchSequence) = own(recs[i].batchSequence)
                  BY <3>1, <2>5
            <3> HIDE DEF new, own
            <3> QED BY <3>1, <3>2, <2>2
      <2>8. \A b \in 1..(open + 1) : \A k \in 1..Len(new(b)) :
                /\ new(b)[k] + 1 \in 1..Len(recs)
                /\ recs[new(b)[k] + 1].batchSequence = b /\ recs[new(b)[k] + 1].leafIndex = k
            <3> TAKE b \in 1..(open + 1)
            <3>1. CASE b \in 1..open
                  <4>1. \A k \in 1..Len(own(b)) :
                            /\ own(b)[k] + 1 \in 1..Len(recs)
                            /\ recs[own(b)[k] + 1].batchSequence = b
                            /\ recs[own(b)[k] + 1].leafIndex = k
                        BY <3>1 DEF Sound, Covers
                  <4>2. new(b) = own(b) BY <3>1, <2>5
                  <4> HIDE DEF new, own
                  <4> QED BY <4>1, <4>2
            <3>2. CASE b = open + 1
                  BY <3>2, <2>6
            <3> QED BY <3>1, <3>2, <2>2
      <2>9. Covers(recs, <<>>, Append(sealedBatches, batch), open + 1)
            BY <2>7, <2>8 DEF Covers
      <2>10. \A i \in 1..Len(recs) :
                 /\ recs[i].batchSequence \in 1..open
                 /\ recs[i].batchSequence = open =>
                        recs[i].leafIndex \in 1..Len(leaves) /\ leaves[recs[i].leafIndex] = i - 1
            BY <2>2 DEF Sound, Covers, LeavesIn
      <2> HIDE DEF new, own
      <2>11. RecordsKept(recs, <<>>, Append(sealedBatches, batch), open + 1)
            <3> SUFFICES ASSUME NEW i \in 1..Len(recs)
                         PROVE  LET now == new(recs[i].batchSequence) IN
                                /\ recs[i].commitment = i - 1
                                /\ Kept(recs, recs[i], now)
                                /\ recs[i].status \in {"PendingRollup", "OnChainFinalized"}
                                       => KeptNow(recs, recs[i], now)
                BY DEF RecordsKept, new
            <3>1. new(recs[i].batchSequence) = own(recs[i].batchSequence) BY <2>5, <2>10
            <3>2. LET now == own(recs[i].batchSequence) IN
                  /\ recs[i].commitment = i - 1
                  /\ Kept(recs, recs[i], now)
                  /\ recs[i].status \in {"PendingRollup", "OnChainFinalized"}
                         => KeptNow(recs, recs[i], now)
                  BY DEF Sound, RecordsKept, own
            <3> QED BY <3>1, <3>2
      <2>12. PassesKept(forcing, recs, <<>>, Append(sealedBatches, batch), open + 1)
            <3> SUFFICES ASSUME NEW p \in 1..Len(forcing), NEW k \in 1..Len(forcing[p])
                         PROVE  Listed(forcing[p][k], recs, <<>>, Append(sealedBatches, batch), open + 1)
                BY DEF PassesKept
            <3> DEFINE r == forcing[p][k]
            <3>1. Listed(r, recs, leaves, sealedBatches, open) BY DEF Sound, PassesKept
            <3> HIDE DEF r
            <3>2. new(r.batchSequence) = own(r.batchSequence)
                  BY <3>1, <2>5, <2>10 DEF Listed
            <3>3. Listed(r, recs, <<>>, Append(sealedBatches, batch), open + 1)
                  BY <3>1, <3>2 DEF Listed, new, own
            <3> QED BY <3>3 DEF r
      <2>13. BatchesKept(Append(sealedBatches, batch))
            <3>1. ASSUME NEW r \in batch.commitments
                  PROVE  /\ r.leafIndex \in 1..Len(batch.root)
                         /\ batch.root[r.leafIndex] = r.commitment
                         /\ Had(r, batch.root, Len(batch.root))
                  <4>1. batch.root = leaves /\ batch.commitments = {recs[i] : i \in OpenPending(recs)}
                        BY DEF batch
                  <4>2. PICK i \in OpenPending(recs) : r = recs[i] BY <3>1, <4>1
                  <4>3. /\ i \in 1..Len(recs) /\ recs[i].batchSequence = open
                        /\ recs[i].status = "PendingRollup"
                        BY DEF OpenPending
                  <4>4. KeptNow(recs, r, own(open)) /\ r.commitment = i - 1
                        BY <4>2, <4>3 DEF Sound, RecordsKept, own
                  <4>5. own(open) = leaves BY <2>2 DEF own, LeavesIn
                  <4>6. ~Overtaken(recs, r)
                        BY <2>2, <2>10, <4>2, <4>3 DEF Overtaken
                  <4> QED BY <2>10, <4>1, <4>2, <4>3, <4>4, <4>5, <4>6 DEF KeptNow
            <3>2. ASSUME NEW b \in 1..open, NEW r \in Append(sealedBatches, batch)[b].commitments
                  PROVE  LET root == Append(sealedBatches, batch)[b].root IN
                         /\ r.leafIndex \in 1..Len(root) /\ root[r.leafIndex] = r.commitment
                         /\ Had(r, root, Len(root))
                  <4>1. CASE b = open BY <2>4, <3>1, <3>2, <4>1
                  <4>2. CASE b # open
                        <5>1. b \in 1..(open - 1) BY <2>2, <4>2
                        <5>2. Append(sealedBatches, batch)[b] = sealedBatches[b] BY <5>1, <2>4
                        <5>3. b \in 1..Len(sealedBatches) BY <5>1, <2>2
                        <5> QED BY <3>2, <5>2, <5>3 DEF Sound, BatchesKept
                  <4> QED BY <4>1, <4>2
            <3> QED BY <2>4, <3>2 DEF BatchesKept
      <2>14. Sound(recs, <<>>, Append(sealedBatches, batch), open + 1, forcing)
            BY <2>9, <2>11, <2>12, <2>13 DEF Sound
      <2> QED BY <2>1, <2>2, <2>4, <2>14
<1> QED BY <1>1, <1>2

\* A pass over what expired marks a record that was pending.
LEMMA PassKeeps ==
    ASSUME RollupTypes, NEW recs \in Seq(Record), checkForcedInclusions(recs),
           NEW leaves, NEW sealed, NEW open \in Nat, Sound(recs, leaves, sealed, open, forcing)
    PROVE  /\ forcing' \in Seq(Seq(Record) \ {<<>>})
           /\ Sound(records', leaves, sealed, open, forcing')
           /\ SamePlaces(records', recs)
           /\ \A i \in 1..Len(recs) :
                  \/ records'[i] = recs[i]
                  \/ /\ recs[i].status = "PendingRollup"
                     /\ records'[i].status # "OnChainFinalized"
<1> DEFINE S == Expired(recs)
           n == Cardinality(S)
           pass == [k \in DOMAIN Ascending(S) |-> recs[Ascending(S)[k]]]
<1>1. S \in SUBSET Nat /\ IsFiniteSet(S) /\ S \subseteq 1..Len(recs)
      <2>1. S \subseteq 1..Len(recs) BY DEF Expired
      <2>2. Len(recs) \in Nat BY LenProperties
      <2>3. IsFiniteSet(1..Len(recs)) BY <2>2, FS_Interval
      <2> QED BY <2>1, <2>2, <2>3, FS_Subset
<1>2. n \in Nat /\ Ascending(S) \in [1..n -> S]
      BY <1>1, AscendingIsSorted
<1>3. \A i \in S : recs[i] \in Record /\ recs[i].status = "PendingRollup"
                  /\ Listed(recs[i], recs, leaves, sealed, open)
                  /\ recs[i].commitment + 1 = i
      <2> TAKE i \in S
      <2>1. i \in 1..Len(recs) /\ recs[i].status = "PendingRollup" BY DEF Expired
      <2>2. recs[i] \in Record BY <2>1, ElementOfSeq
      <2>3. /\ recs[i].commitment = i - 1
            /\ Kept(recs, recs[i], LeavesIn(recs[i].batchSequence, leaves, sealed, open))
            BY <2>1 DEF Sound, RecordsKept
      <2>4. recs[i].commitment + 1 = i BY <2>1, <2>3
      <2> QED BY <2>1, <2>2, <2>3, <2>4 DEF Listed
<1> HIDE DEF S, n
<1>4. CASE Ascending(S) = <<>>
      <2>1. records' = recs /\ forcing' = forcing BY <1>4 DEF checkForcedInclusions, S
      <2> QED BY <2>1 DEF SamePlaces, RollupTypes
<1>5. CASE Ascending(S) # <<>>
      <2>1. /\ forcing' = Append(forcing, pass)
            /\ records' = Marked(recs, pass[1], "ForceIncludePending")
            BY <1>5 DEF checkForcedInclusions, S
      <2>2. n # 0 BY <1>2, <1>5
      <2>3. \A k \in 1..n : pass[k] = recs[Ascending(S)[k]] /\ Ascending(S)[k] \in S
            BY <1>2
      <2>4. pass \in Seq(Record) /\ Len(pass) = n
            <3>1. pass \in [1..n -> Record] BY <1>2, <1>3
            <3> QED BY <1>2, <3>1, SeqDef
      <2> HIDE DEF pass
      <2>5. pass \in Seq(Record) \ {<<>>} BY <2>2, <2>4, <1>2
      <2>6. forcing \in Seq(Seq(Record) \ {<<>>}) BY DEF RollupTypes
      <2>7. /\ forcing' \in Seq(Seq(Record) \ {<<>>}) /\ Len(forcing') = Len(forcing) + 1
            /\ \A p \in 1..Len(forcing) : forcing'[p] = forcing[p]
            /\ forcing'[Len(forcing) + 1] = pass
            BY <2>1, <2>5, <2>6, AppendProperties
      <2>8. PassesKept(forcing', recs, leaves, sealed, open)
            <3> SUFFICES ASSUME NEW p \in 1..Len(forcing'), NEW k \in 1..Len(forcing'[p])
                         PROVE  Listed(forcing'[p][k], recs, leaves, sealed, open)
                BY DEF PassesKept
            <3>1. CASE p \in 1..Len(forcing)
                  BY <2>7, <3>1 DEF Sound, PassesKept
            <3>2. CASE p = Len(forcing) + 1
                  BY <2>3, <2>4, <2>7, <3>2, <1>3
            <3>3. Len(forcing) \in Nat BY <2>6, LenProperties
            <3> QED BY <2>7, <3>1, <3>2, <3>3
      <2>9. Sound(recs, leaves, sealed, open, forcing') BY <2>8 DEF Sound
      <2>10. PICK m \in S : pass[1] = recs[m] /\ pass[1] \in Record /\ pass[1].commitment + 1 = m
                             /\ Listed(pass[1], recs, leaves, sealed, open)
            <3>1. 1 \in 1..n BY <1>2, <2>2
            <3> QED BY <1>3, <2>3, <3>1
      <2>11. /\ SamePlaces(records', recs)
             /\ \A i \in 1..Len(recs) :
                    \/ i # m /\ records'[i] = recs[i]
                    \/ i = m /\ records'[i].status = "ForceIncludePending"
             /\ Sound(records', leaves, sealed, open, forcing')
            BY <2>1, <2>9, <2>10, MarkedKeeps
      <2> QED BY <1>3, <2>7, <2>11
<1> QED BY <1>4, <1>5

\* The chain accepted a batch: its records that are pending become final.
LEMMA FinalizedKeeps ==
    ASSUME NEW recs \in Seq(Record), NEW batch,
           NEW leaves, NEW sealed, NEW open \in Nat, NEW passes,
           Sound(recs, leaves, sealed, open, passes)
    PROVE  /\ SamePlaces(Finalized(recs, batch), recs)
           /\ Sound(Finalized(recs, batch), leaves, sealed, open, passes)
           /\ \A i \in 1..Len(recs) :
                  \/ Finalized(recs, batch)[i] = recs[i]
                  \/ recs[i].status = "PendingRollup" /\ recs[i].batchSequence = batch
<1>1. Len(recs) \in Nat /\ \A i \in 1..Len(recs) : recs[i] \in Record
      BY LenProperties, ElementOfSeq
<1>2. Finalized(recs, batch) \in [1..Len(recs) -> Record]
      BY <1>1 DEF Finalized, Record
<1>3. Finalized(recs, batch) \in Seq(Record) /\ Len(Finalized(recs, batch)) = Len(recs)
      BY <1>1, <1>2, SeqDef
<1> DEFINE new == Finalized(recs, batch)
<1>4. \A i \in 1..Len(recs) :
          /\ new[i].commitment = recs[i].commitment
          /\ new[i].batchSequence = recs[i].batchSequence
          /\ new[i].leafIndex = recs[i].leafIndex
          /\ new[i].leafHash = recs[i].leafHash /\ new[i].proof = recs[i].proof
          /\ \/ new[i] = recs[i]
             \/ recs[i].status = "PendingRollup" /\ recs[i].batchSequence = batch
      BY <1>1 DEF Finalized, Record
<1>5. new \in Seq(Record) /\ Len(new) = Len(recs) BY <1>3
<1> HIDE DEF new
<1>6. SamePlaces(new, recs) BY <1>4, <1>5 DEF SamePlaces
<1>7. Covers(new, leaves, sealed, open) BY <1>6, CoversSurvives DEF Sound
<1>8. RecordsKept(new, leaves, sealed, open)
      <2> SUFFICES ASSUME NEW i \in 1..Len(recs)
                   PROVE  LET own == LeavesIn(new[i].batchSequence, leaves, sealed, open) IN
                          /\ new[i].commitment = i - 1
                          /\ Kept(new, new[i], own)
                          /\ new[i].status \in {"PendingRollup", "OnChainFinalized"}
                                 => KeptNow(new, new[i], own)
          BY <1>5 DEF RecordsKept
      <2> DEFINE own == LeavesIn(recs[i].batchSequence, leaves, sealed, open)
      <2>1. /\ recs[i].commitment = i - 1
            /\ Kept(recs, recs[i], own)
            /\ recs[i].status \in {"PendingRollup", "OnChainFinalized"}
                   => KeptNow(recs, recs[i], own)
            BY DEF Sound, RecordsKept
      <2> HIDE DEF own
      <2>2. /\ Kept(recs, recs[i], own) => Kept(new, recs[i], own)
            /\ KeptNow(recs, recs[i], own) => KeptNow(new, recs[i], own)
            BY <1>1, <1>6, KeptSurvives
      <2>3. /\ Kept(new, recs[i], own) => Kept(new, new[i], own)
            /\ KeptNow(new, recs[i], own) => KeptNow(new, new[i], own)
            BY <1>4 DEF Kept, KeptNow, Had, Overtaken
      <2>4. new[i].status \in {"PendingRollup", "OnChainFinalized"}
                => recs[i].status \in {"PendingRollup", "OnChainFinalized"}
            BY <1>4
      <2>5. new[i].batchSequence = recs[i].batchSequence /\ new[i].commitment = recs[i].commitment
            BY <1>4
      <2> QED BY <2>1, <2>2, <2>3, <2>4, <2>5 DEF own
<1>9. PassesKept(passes, new, leaves, sealed, open)
      <2> SUFFICES ASSUME NEW p \in 1..Len(passes), NEW k \in 1..Len(passes[p])
                   PROVE  Listed(passes[p][k], new, leaves, sealed, open)
          BY DEF PassesKept
      <2>1. Listed(passes[p][k], recs, leaves, sealed, open) BY DEF Sound, PassesKept
      <2> QED BY <1>1, <1>6, <2>1, KeptSurvives DEF Listed, SamePlaces
<1>10. Sound(new, leaves, sealed, open, passes) BY <1>7, <1>8, <1>9 DEF Sound
<1> QED BY <1>4, <1>6, <1>10 DEF new

\* A step keeps the invariant, and the status of what is on the chain.
RollupGoesOn == RollupInv' /\ IncludedStays

\* A batch that has more leaves begins with those it had.
LEMMA BeginsTheSame ==
    ASSUME NEW start \in Seq(Nat), NEW longer \in Seq(Nat), Len(start) <= Len(longer),
           \A k \in 1..Len(start) : longer[k] = start[k], NEW n \in Nat, n <= Len(start)
    PROVE  SubSeq(longer, 1, n) = SubSeq(start, 1, n)
<1>1. Len(start) \in Nat /\ Len(longer) \in Nat BY LenProperties
<1>2. \A k \in 1..n : start[k] \in Nat /\ longer[k] \in Nat /\ longer[k] = start[k]
      <2> TAKE k \in 1..n
      <2>1. k \in 1..Len(start) /\ k \in 1..Len(longer) BY <1>1
      <2> QED BY <2>1, ElementOfSeq
<1>3. /\ SubSeq(start, 1, n) \in Seq(Nat) /\ SubSeq(longer, 1, n) \in Seq(Nat)
      /\ Len(SubSeq(start, 1, n)) = n /\ Len(SubSeq(longer, 1, n)) = n
      /\ \A k \in 1..n : SubSeq(start, 1, n)[k] = start[k] /\ SubSeq(longer, 1, n)[k] = longer[k]
      <2>1. 1 \in Int /\ n \in Int /\ n - 1 + 1 = n /\ \A k \in 1..n : 1 + k - 1 = k OBVIOUS
      <2>2. /\ SubSeq(start, 1, n) \in Seq(Nat)
            /\ Len(SubSeq(start, 1, n)) = IF 1 <= n THEN n - 1 + 1 ELSE 0
            /\ \A k \in 1..(n - 1 + 1) : SubSeq(start, 1, n)[k] = start[1 + k - 1]
            BY <1>2, <2>1, SubSeqProperties
      <2>3. /\ SubSeq(longer, 1, n) \in Seq(Nat)
            /\ Len(SubSeq(longer, 1, n)) = IF 1 <= n THEN n - 1 + 1 ELSE 0
            /\ \A k \in 1..(n - 1 + 1) : SubSeq(longer, 1, n)[k] = longer[1 + k - 1]
            BY <1>2, <2>1, SubSeqProperties
      <2> QED BY <2>1, <2>2, <2>3
<1>4. \A k \in 1..Len(SubSeq(longer, 1, n)) : SubSeq(longer, 1, n)[k] = SubSeq(start, 1, n)[k]
      BY <1>2, <1>3
<1> QED BY <1>3, <1>4, SeqEqual

\* A refreshed record has the leaf and the path at its index, or what it had.
LEMMA RefreshedHas ==
    ASSUME NEW old \in Seq(Record), NEW leaves \in Seq(Nat)
    PROVE  LET recs == Refreshed(old, leaves) IN
           /\ SamePlaces(recs, old)
           /\ \A i \in 1..Len(old) :
                  /\ recs[i].status = old[i].status
                  /\ \/ /\ recs[i].leafIndex \in 1..Len(leaves)
                        /\ recs[i].leafHash = LeafOf(leaves[recs[i].leafIndex])
                        /\ recs[i].proof = getProof(LeafHashes(leaves), recs[i].leafIndex)
                     \/ recs[i].leafIndex \notin 1..Len(leaves) /\ recs[i] = old[i]
<1> DEFINE path(r) == getProof(LeafHashes(leaves), r.leafIndex)
           leaf(r) == LeafOf(leaves[r.leafIndex])
           filled(r) == [r EXCEPT !.leafHash = leaf(r), !.proof = path(r)]
           entry(r) == IF r.leafIndex \in 1..Len(leaves) THEN filled(r) ELSE r
           recs == Refreshed(old, leaves)
<1>1. /\ Len(old) \in Nat /\ \A i \in 1..Len(old) : old[i] \in Record
      /\ Len(leaves) \in Nat /\ DOMAIN leaves = 1..Len(leaves)
      /\ \A k \in 1..Len(leaves) : leaves[k] \in Nat
      BY LenProperties, ElementOfSeq
<1>2. recs = [i \in 1..Len(old) |-> entry(old[i])]
      BY <1>1 DEF Refreshed
<1>3. ASSUME NEW r \in Record, r.leafIndex \in 1..Len(leaves)
      PROVE  leaf(r) \in {LeafOf(id) : id \in Nat} /\ path(r) \in Paths
      <2>1. leaves[r.leafIndex] \in Nat BY <1>1, <1>3
      <2>2. r.leafIndex \in Nat BY <1>3
      <2> QED BY <2>1, <2>2 DEF Paths
<1> HIDE DEF path, leaf, recs
<1>4. ASSUME NEW r \in Record
      PROVE  /\ entry(r) \in Record
             /\ entry(r).status = r.status /\ entry(r).commitment = r.commitment
             /\ entry(r).batchSequence = r.batchSequence /\ entry(r).leafIndex = r.leafIndex
             /\ r.leafIndex \in 1..Len(leaves) =>
                    entry(r).leafHash = leaf(r) /\ entry(r).proof = path(r)
             /\ r.leafIndex \notin 1..Len(leaves) => entry(r) = r
      <2>1. CASE r.leafIndex \notin 1..Len(leaves) BY <2>1
      <2>2. CASE r.leafIndex \in 1..Len(leaves)
            <3>1. leaf(r) \in {LeafOf(id) : id \in Nat} /\ path(r) \in Paths BY <1>3, <2>2
            <3>2. filled(r) \in Record BY <3>1 DEF Record
            <3>3. /\ filled(r).status = r.status /\ filled(r).commitment = r.commitment
                  /\ filled(r).batchSequence = r.batchSequence
                  /\ filled(r).leafIndex = r.leafIndex
                  /\ filled(r).leafHash = leaf(r) /\ filled(r).proof = path(r)
                  BY DEF Record
            <3> QED BY <2>2, <3>2, <3>3
      <2> QED BY <2>1, <2>2
<1> HIDE DEF entry
<1>5. recs \in [1..Len(old) -> Record] /\ \A i \in 1..Len(old) : recs[i] = entry(old[i])
      BY <1>1, <1>2, <1>4
<1>6. recs \in Seq(Record) /\ Len(recs) = Len(old) BY <1>1, <1>5, SeqDef
<1>7. SamePlaces(recs, old) BY <1>1, <1>4, <1>5, <1>6 DEF SamePlaces
<1>8. ASSUME NEW i \in 1..Len(old)
      PROVE  /\ recs[i].status = old[i].status
             /\ \/ /\ recs[i].leafIndex \in 1..Len(leaves)
                   /\ recs[i].leafHash = LeafOf(leaves[recs[i].leafIndex])
                   /\ recs[i].proof = getProof(LeafHashes(leaves), recs[i].leafIndex)
                \/ recs[i].leafIndex \notin 1..Len(leaves) /\ recs[i] = old[i]
      <2> DEFINE r == old[i]
      <2>1. r \in Record /\ recs[i] = entry(r) BY <1>1, <1>5
      <2> HIDE DEF r
      <2>2. recs[i].status = r.status /\ recs[i].leafIndex = r.leafIndex BY <2>1, <1>4
      <2>3. CASE r.leafIndex \in 1..Len(leaves)
            <3>1. recs[i].leafHash = leaf(r) /\ recs[i].proof = path(r) BY <2>1, <2>3, <1>4
            <3> QED BY <2>2, <2>3, <3>1 DEF r, leaf, path
      <2>4. CASE r.leafIndex \notin 1..Len(leaves) BY <2>1, <2>2, <2>4, <1>4 DEF r
      <2> QED BY <2>2, <2>3, <2>4 DEF r
<1> QED BY <1>7, <1>8 DEF recs

LEMMA EnqueueKeeps == ASSUME RollupInv, EnqueueNext PROVE RollupGoesOn
<1> DEFINE id == Len(records)
           added == Applied(id)
           at == Len(accumulator)
           fresh == [k \in 1..Len(added) |-> NewRecord(added[k], at + k)]
           recs == records \o fresh
           leaves == accumulator \o added
           shown == Refreshed(recs, leaves)
           old(b) == LeavesIn(b, accumulator, sealedBatches, openBatchSequence)
           own(b) == LeavesIn(b, leaves, sealedBatches, openBatchSequence)
<1>1. RollupTypes BY DEF RollupInv
<1>2. /\ records \in Seq(Record) /\ id \in Nat /\ accumulator \in Seq(Nat)
      /\ Len(accumulator) \in Nat /\ openBatchSequence \in Nat \ {0} /\ rollupTime \in Nat
      BY <1>1, LenProperties DEF RollupTypes
<1>3. /\ added \in Seq(Nat) /\ Len(added) \in Nat \ {0}
      /\ \A k \in 1..Len(added) : added[k] = id + k - 1
      BY <1>1, <1>2, AddedInOrder DEF RollupTypes
<1>2a. id \in Nat /\ Len(accumulator) \in Nat /\ Len(added) \in Nat \ {0} BY <1>2, <1>3
<1>2b. records \in Seq(Record) /\ Len(records) = id BY <1>2
<1>4. /\ records' = shown /\ maybeSeal(shown, leaves, FALSE)
      /\ outOfOrder' = {n \in outOfOrder : n >= id + Len(added)}
      /\ UNCHANGED <<rollupTime, accepted, forcing>>
      BY DEF EnqueueNext, nextSequenceId
<1> HIDE DEF added
<1>5. \A k \in 1..Len(added) : NewRecord(added[k], at + k) \in Record
      <2> TAKE k \in 1..Len(added)
      <2>1. added[k] \in Nat /\ at + k \in Nat BY <1>2, <1>3
      <2>2. LeafOf(added[k]) \in {LeafOf(n) : n \in Nat} /\ <<>> \in Paths
            BY <2>1 DEF Paths
      <2> QED BY <1>2, <2>1, <2>2 DEF NewRecord, Record
<1>6. fresh \in Seq(Record) /\ Len(fresh) = Len(added)
      <2>1. fresh \in [1..Len(added) -> Record] BY <1>5
      <2> HIDE DEF fresh
      <2> QED BY <1>2a, <2>1, SeqDef
<1>7. \A k \in 1..Len(added) : fresh[k] = NewRecord(added[k], at + k) OBVIOUS
<1> HIDE DEF fresh
<1>8. /\ recs \in Seq(Record) /\ Len(recs) = id + Len(added)
      /\ \A i \in 1..(id + Len(added)) : recs[i] = IF i <= id THEN records[i] ELSE fresh[i - id]
      <2>1. records \in Seq(Record) /\ fresh \in Seq(Record) BY <1>2b, <1>6
      <2>2. /\ recs \in Seq(Record) /\ Len(recs) = Len(records) + Len(fresh)
            /\ \A i \in 1..(Len(records) + Len(fresh)) :
                   recs[i] = IF i <= Len(records) THEN records[i] ELSE fresh[i - Len(records)]
            BY <2>1, ConcatProperties
      <2> HIDE DEF id, recs
      <2> QED BY <2>2, <1>2b, <1>6
<1>9. /\ leaves \in Seq(Nat) /\ Len(leaves) = Len(accumulator) + Len(added)
      /\ \A k \in 1..Len(leaves) : leaves[k] = IF k <= Len(accumulator) THEN accumulator[k]
                                               ELSE added[k - Len(accumulator)]
      BY <1>2, <1>3, ConcatProperties
<1> HIDE DEF recs, leaves, shown, id, at
<1>8a. Len(recs) = id + Len(added) /\ Len(leaves) = Len(accumulator) + Len(added)
      BY <1>8, <1>9
<1>10. \A i \in 1..id : recs[i] = records[i]
      BY <1>2, <1>3, <1>8 DEF id
<1>11. \A j \in 1..Len(added) :
           /\ recs[id + j].status = "PendingRollup"
           /\ recs[id + j].commitment = id + j - 1
           /\ recs[id + j].batchSequence = openBatchSequence
           /\ recs[id + j].leafIndex = Len(accumulator) + j
           /\ leaves[Len(accumulator) + j] = id + j - 1
      <2> TAKE j \in 1..Len(added)
      <2>1. recs[id + j] = fresh[j]
            <3>1. id + j \in 1..(id + Len(added)) /\ ~(id + j <= id) /\ (id + j) - id = j
                  BY <1>2, <1>3
            <3> QED BY <3>1, <1>8
      <2>2. leaves[Len(accumulator) + j] = added[j]
            <3>0. at \in Nat BY <1>2 DEF at
            <3>1. at + j \in 1..(at + Len(added)) /\ ~(at + j <= at) /\ (at + j) - at = j
                  BY <3>0, <1>3
            <3> QED BY <3>1, <1>9 DEF at
      <2>3. fresh[j] = NewRecord(added[j], at + j) /\ added[j] = id + j - 1
            BY <1>3, <1>7
      <2> QED BY <2>1, <2>2, <2>3 DEF NewRecord, at
<1>12. \A b \in 1..openBatchSequence :
           /\ Len(old(b)) \in Nat /\ Len(old(b)) <= Len(own(b))
           /\ \A k \in 1..Len(old(b)) : own(b)[k] = old(b)[k]
           /\ b # openBatchSequence => own(b) = old(b)
      <2> TAKE b \in 1..openBatchSequence
      <2>1. CASE b < openBatchSequence
            <3>1. b \in 1..Len(sealedBatches) BY <1>1, <2>1 DEF RollupTypes
            <3>2. sealedBatches[b] \in [root : Seq(Nat), commitments : SUBSET Record]
                  BY <1>1, <3>1, ElementOfSeq DEF RollupTypes
            <3>3. Len(sealedBatches[b].root) \in Nat BY <3>2, LenProperties
            <3> QED BY <2>1, <3>3 DEF LeavesIn
      <2>2. CASE b = openBatchSequence
            <3>1. own(b) = leaves /\ old(b) = accumulator BY <2>2, <1>2 DEF LeavesIn
            <3> HIDE DEF own, old
            <3>2. \A k \in 1..Len(accumulator) : leaves[k] = accumulator[k]
                  <4> TAKE k \in 1..Len(accumulator)
                  <4>1. k \in 1..Len(leaves) /\ k <= Len(accumulator) BY <1>2a, <1>9
                  <4> QED BY <4>1, <1>9
            <3>3. Len(accumulator) <= Len(leaves) BY <1>2a, <1>9
            <3> QED BY <3>1, <3>2, <3>3, <2>2, <1>2a
      <2> QED BY <1>2, <2>1, <2>2
<1>12a. \A b \in 1..openBatchSequence : old(b) \in Seq(Nat) /\ own(b) \in Seq(Nat)
      <2> TAKE b \in 1..openBatchSequence
      <2>1. CASE b < openBatchSequence
            <3>1. b \in 1..Len(sealedBatches) BY <1>1, <2>1 DEF RollupTypes
            <3>2. sealedBatches[b] \in [root : Seq(Nat), commitments : SUBSET Record]
                  BY <1>1, <3>1, ElementOfSeq DEF RollupTypes
            <3> QED BY <2>1, <3>2 DEF LeavesIn
      <2>2. CASE ~(b < openBatchSequence)
            BY <2>2, <1>2, <1>9 DEF LeavesIn
      <2> QED BY <2>1, <2>2
<1>13. own(openBatchSequence) = leaves /\ old(openBatchSequence) = accumulator
      BY <1>2 DEF LeavesIn
<1>14. \A i \in 1..id :
           /\ records[i].batchSequence \in 1..openBatchSequence
           /\ records[i].leafIndex \in 1..Len(old(records[i].batchSequence))
           /\ old(records[i].batchSequence)[records[i].leafIndex] = i - 1
      BY DEF RollupInv, Sound, Covers, id
<1>15. \A b \in 1..openBatchSequence : \A k \in 1..Len(old(b)) :
           /\ old(b)[k] + 1 \in 1..id
           /\ records[old(b)[k] + 1].batchSequence = b
           /\ records[old(b)[k] + 1].leafIndex = k
      BY DEF RollupInv, Sound, Covers, id
<1> HIDE DEF own, old
<1>16. \A i \in 1..Len(recs) :
           /\ recs[i].batchSequence \in 1..openBatchSequence
           /\ recs[i].leafIndex \in 1..Len(own(recs[i].batchSequence))
           /\ own(recs[i].batchSequence)[recs[i].leafIndex] = i - 1
      <2> TAKE i \in 1..Len(recs)
      <2>1. CASE i <= id
            <3>0. i \in 1..id BY <2>1, <1>2a
            <3>1. i \in 1..id /\ recs[i] = records[i] BY <3>0, <1>10
            <3> DEFINE b == records[i].batchSequence
                       k == records[i].leafIndex
            <3>2. b \in 1..openBatchSequence /\ k \in 1..Len(old(b)) /\ old(b)[k] = i - 1
                  BY <3>1, <1>14
            <3> HIDE DEF b, k
            <3>3. k \in 1..Len(own(b)) /\ own(b)[k] = i - 1
                  BY <3>2, <1>12
            <3> QED BY <3>1, <3>2, <3>3 DEF b, k
      <2>2. CASE i > id
            <3>1. PICK j \in 1..Len(added) : i = id + j
                  <4>1. i - id \in 1..Len(added) /\ i = id + (i - id)
                        BY <2>2, <1>2a, <1>8a
                  <4> QED BY <4>1
            <3>2. Len(accumulator) + j \in 1..Len(leaves)
                  BY <1>2a, <1>8a
            <3>3. /\ recs[i].batchSequence = openBatchSequence
                  /\ recs[i].leafIndex = Len(accumulator) + j
                  /\ leaves[Len(accumulator) + j] = i - 1
                  <4>1. /\ recs[id + j].batchSequence = openBatchSequence
                        /\ recs[id + j].leafIndex = Len(accumulator) + j
                        /\ leaves[Len(accumulator) + j] = id + j - 1
                        BY <1>11
                  <4>2. i - 1 = id + j - 1 BY <3>1, <1>2a
                  <4> QED BY <3>1, <4>1, <4>2
            <3>4. openBatchSequence \in 1..openBatchSequence BY <1>2
            <3>5. own(recs[i].batchSequence) = leaves BY <3>3, <1>13
            <3> QED BY <3>2, <3>3, <3>4, <3>5
      <2> QED BY <2>1, <2>2, <1>2a, <1>8a
<1>17. \A b \in 1..openBatchSequence : \A k \in 1..Len(own(b)) :
           /\ own(b)[k] + 1 \in 1..Len(recs)
           /\ recs[own(b)[k] + 1].batchSequence = b /\ recs[own(b)[k] + 1].leafIndex = k
      <2> TAKE b \in 1..openBatchSequence
      <2> TAKE k \in 1..Len(own(b))
      <2>1. CASE k \in 1..Len(old(b))
            <3> DEFINE i == old(b)[k] + 1
            <3>1. i \in 1..id /\ records[i].batchSequence = b /\ records[i].leafIndex = k
                  BY <2>1, <1>15
            <3>2. own(b)[k] = old(b)[k] BY <2>1, <1>12
            <3> HIDE DEF i
            <3>3. recs[i] = records[i] /\ i \in 1..Len(recs)
                  BY <3>1, <1>2a, <1>8a, <1>10
            <3> QED BY <3>1, <3>2, <3>3 DEF i
      <2>2. CASE k \notin 1..Len(old(b))
            <3>1. b = openBatchSequence BY <2>2, <1>12
            <3>2. own(b) = leaves /\ old(b) = accumulator BY <3>1, <1>13
            <3>3. PICK j \in 1..Len(added) : k = Len(accumulator) + j
                  <4>1. /\ k - Len(accumulator) \in 1..Len(added)
                        /\ k = Len(accumulator) + (k - Len(accumulator))
                        BY <2>2, <3>2, <1>2a, <1>8a
                  <4> QED BY <4>1
            <3>4. own(b)[k] + 1 = id + j
                  <4>1. leaves[k] = id + j - 1 BY <3>3, <1>11
                  <4>2. own(b)[k] = id + j - 1 BY <4>1, <3>2
                  <4> QED BY <4>2, <1>2a
            <3>5. id + j \in 1..Len(recs)
                  BY <1>2a, <1>8a
            <3> QED BY <3>1, <3>3, <3>4, <3>5, <1>11
      <2> QED BY <2>1, <2>2
<1>18. Covers(recs, leaves, sealedBatches, openBatchSequence)
      BY <1>16, <1>17 DEF Covers, own
<1>19. /\ SamePlaces(shown, recs)
       /\ \A i \in 1..Len(recs) :
              /\ shown[i].status = recs[i].status
              /\ \/ /\ shown[i].leafIndex \in 1..Len(leaves)
                    /\ shown[i].leafHash = LeafOf(leaves[shown[i].leafIndex])
                    /\ shown[i].proof = getProof(LeafHashes(leaves), shown[i].leafIndex)
                 \/ shown[i].leafIndex \notin 1..Len(leaves) /\ shown[i] = recs[i]
       BY <1>8, <1>9, RefreshedHas DEF shown
<1>20. /\ shown \in Seq(Record) /\ Len(shown) = id + Len(added) /\ Len(recs) = Len(shown)
       /\ \A i \in 1..Len(shown) : /\ shown[i].commitment = recs[i].commitment
                                   /\ shown[i].batchSequence = recs[i].batchSequence
                                   /\ shown[i].leafIndex = recs[i].leafIndex
       BY <1>8, <1>19 DEF SamePlaces
<1>21. Covers(shown, leaves, sealedBatches, openBatchSequence)
       BY <1>2, <1>8, <1>18, <1>19, CoversSurvives
<1>22. \A r : Overtaken(records, r) => Overtaken(shown, r)
       <2> SUFFICES ASSUME NEW r, Overtaken(records, r) PROVE Overtaken(shown, r)
           OBVIOUS
       <2>1. PICK j \in 1..id : records[j].batchSequence > r.batchSequence
                                /\ records[j].leafIndex = r.leafIndex
             BY DEF Overtaken, id
       <2>2. j \in 1..Len(shown) BY <1>2, <1>3, <1>20
       <2>3. shown[j].batchSequence = records[j].batchSequence
             /\ shown[j].leafIndex = records[j].leafIndex
             BY <1>10, <1>20, <2>2
       <2> QED BY <2>1, <2>2, <2>3 DEF Overtaken
<1>23. \A r : \A b \in 1..openBatchSequence : Kept(records, r, old(b)) => Kept(shown, r, own(b))
       <2> SUFFICES ASSUME NEW r, NEW b \in 1..openBatchSequence, Kept(records, r, old(b))
                    PROVE  Kept(shown, r, own(b))
           OBVIOUS
       <2>1. CASE Overtaken(records, r) BY <2>1, <1>22 DEF Kept
       <2>2. ASSUME NEW n \in Nat, Had(r, old(b), n) PROVE Kept(shown, r, own(b))
             <3>1. n \in r.leafIndex..Len(old(b)) /\ n <= Len(old(b)) BY <2>2, <1>12 DEF Had
             <3>2. old(b) \in Seq(Nat) /\ own(b) \in Seq(Nat) BY <1>12a
             <3>3. SubSeq(own(b), 1, n) = SubSeq(old(b), 1, n)
                   BY <3>1, <3>2, <1>12, BeginsTheSame
             <3>4. n \in r.leafIndex..Len(own(b))
                   <4>1. Len(own(b)) \in Nat BY <3>2, LenProperties
                   <4> QED BY <3>1, <4>1, <1>12
             <3>5. Had(r, own(b), n) BY <2>2, <3>3, <3>4 DEF Had
             <3> QED BY <3>5 DEF Kept
       <2> QED BY <2>1, <2>2 DEF Kept
<1>24. RecordsKept(shown, leaves, sealedBatches, openBatchSequence)
       <2> SUFFICES ASSUME NEW i \in 1..Len(shown)
                    PROVE  LET mine == own(shown[i].batchSequence) IN
                           /\ shown[i].commitment = i - 1
                           /\ Kept(shown, shown[i], mine)
                           /\ shown[i].status \in {"PendingRollup", "OnChainFinalized"}
                                  => KeptNow(shown, shown[i], mine)
           BY DEF RecordsKept, own
       <2> DEFINE b == shown[i].batchSequence
                  k == shown[i].leafIndex
       <2>1. shown[i].commitment = i - 1
             <3>1. CASE i <= id
                   <4>1. i \in 1..id BY <3>1, <1>2, <1>20
                   <4>2. records[i].commitment = i - 1
                         BY <4>1 DEF RollupInv, Sound, RecordsKept, id
                   <4> QED BY <4>1, <4>2, <1>10, <1>20
             <3>2. CASE i > id
                   <4>1. i - id \in 1..Len(added) /\ i = id + (i - id)
                         BY <3>2, <1>2, <1>3, <1>20
                   <4>2. PICK j \in 1..Len(added) : i = id + j BY <4>1
                   <4>3. recs[id + j].commitment = id + j - 1 BY <1>11
                   <4>4. recs[i].commitment = i - 1
                         <5>1. recs[i] = recs[id + j] BY <4>2
                         <5>2. id + j - 1 = i - 1 BY <4>2, <1>2a
                         <5> QED BY <5>1, <5>2, <4>3
                   <4> QED BY <4>4, <1>20
             <3> QED BY <3>1, <3>2, <1>2, <1>3, <1>20
       <2>2. /\ b \in 1..openBatchSequence /\ k \in 1..Len(own(b)) /\ own(b)[k] = i - 1
             BY <1>21 DEF Covers, own
       <2>3. CASE k \in 1..Len(leaves) /\ b = openBatchSequence
             <3>1. leaves[k] = shown[i].commitment BY <2>1, <2>2, <2>3, <1>13
             <3>2. SubSeq(leaves, 1, Len(leaves)) = leaves /\ Len(leaves) \in Nat
                   BY <1>9, SubSeqFull, LenProperties
             <3>3. /\ shown[i].leafHash = LeafOf(leaves[k])
                   /\ shown[i].proof = getProof(LeafHashes(leaves), k)
                   BY <2>3, <1>19, <1>20
             <3>4. Len(leaves) \in k..Len(leaves) BY <2>3, <3>2
             <3>5. Had(shown[i], leaves, Len(leaves))
                   BY <3>1, <3>2, <3>3, <3>4 DEF Had
             <3> QED BY <2>1, <2>3, <3>2, <3>5, <1>13 DEF Kept, KeptNow
       <2>4. CASE k \in 1..Len(leaves) /\ b # openBatchSequence
             <3> DEFINE j == leaves[k] + 1
             <3>1. openBatchSequence \in 1..openBatchSequence BY <1>2
             <3>2. k \in 1..Len(own(openBatchSequence)) BY <2>4, <1>13
             <3>3. j \in 1..Len(recs) /\ recs[j].batchSequence = openBatchSequence
                   /\ recs[j].leafIndex = k
                   BY <3>1, <3>2, <1>13, <1>17
             <3> HIDE DEF j
             <3>4. j \in 1..Len(shown) /\ shown[j].batchSequence = openBatchSequence
                   /\ shown[j].leafIndex = k
                   BY <3>3, <1>20
             <3>5. openBatchSequence > b
                   <4> HIDE DEF b
                   <4> QED BY <2>2, <2>4, <1>2
             <3>6. Overtaken(shown, shown[i]) BY <3>4, <3>5 DEF Overtaken
             <3> QED BY <2>1, <3>6 DEF Kept, KeptNow
       <2>5. CASE k \notin 1..Len(leaves)
             <3>1. b # openBatchSequence BY <2>2, <2>5, <1>13
             <3>2. own(b) = old(b) BY <2>2, <3>1, <1>12
             <3>3. i \in 1..id
                   <4>1. CASE i > id
                         <5>1. i - id \in 1..Len(added) /\ i = id + (i - id)
                               BY <4>1, <1>2, <1>3, <1>20
                         <5>2. recs[i].batchSequence = openBatchSequence BY <5>1, <1>11
                         <5> QED BY <5>2, <3>1, <1>20
                   <4> QED BY <4>1, <1>2, <1>20
             <3>4. shown[i] = recs[i] /\ recs[i] = records[i] BY <2>5, <3>3, <1>10, <1>19, <1>20
             <3>5. /\ Kept(records, records[i], old(b))
                   /\ records[i].status \in {"PendingRollup", "OnChainFinalized"}
                          => KeptNow(records, records[i], old(b))
                   BY <3>3, <3>4 DEF RollupInv, Sound, RecordsKept, old, id
             <3>6. Kept(shown, shown[i], own(b)) BY <2>2, <3>4, <3>5, <1>23
             <3>7. KeptNow(records, records[i], old(b)) => KeptNow(shown, shown[i], own(b))
                   BY <3>2, <3>4, <1>22 DEF KeptNow
             <3> QED BY <2>1, <3>4, <3>5, <3>6, <3>7
       <2> QED BY <2>2, <2>3, <2>4, <2>5
<1>25. PassesKept(forcing, shown, leaves, sealedBatches, openBatchSequence)
       <2> SUFFICES ASSUME NEW p \in 1..Len(forcing), NEW k \in 1..Len(forcing[p])
                    PROVE  Listed(forcing[p][k], shown, leaves, sealedBatches, openBatchSequence)
           BY DEF PassesKept
       <2> DEFINE r == forcing[p][k]
                  n == r.commitment + 1
       <2>1. Listed(r, records, accumulator, sealedBatches, openBatchSequence)
             BY DEF RollupInv, Sound, PassesKept
       <2> HIDE DEF r
       <2>2. n \in 1..id /\ r.batchSequence = records[n].batchSequence
             /\ r.leafIndex = records[n].leafIndex /\ Kept(records, r, old(r.batchSequence))
             BY <2>1 DEF Listed, old, id
       <2>3. r.batchSequence \in 1..openBatchSequence BY <2>2, <1>14
       <2>4. Kept(shown, r, own(r.batchSequence)) BY <2>2, <2>3, <1>23
       <2> HIDE DEF n
       <2>5. n \in 1..Len(shown) BY <2>2, <1>2, <1>3, <1>20
       <2>6. shown[n].batchSequence = records[n].batchSequence
             /\ shown[n].leafIndex = records[n].leafIndex
             BY <2>2, <2>5, <1>10, <1>20
       <2>7. Listed(r, shown, leaves, sealedBatches, openBatchSequence)
             BY <2>2, <2>4, <2>5, <2>6 DEF Listed, n, own
       <2> QED BY <2>7 DEF r
<1>26. Sound(shown, leaves, sealedBatches, openBatchSequence, forcing)
       BY <1>21, <1>24, <1>25 DEF RollupInv, Sound
<1>27. /\ accumulator' \in Seq(Nat)
       /\ openBatchSequence' \in Nat \ {0}
       /\ sealedBatches' \in Seq([root : Seq(Nat), commitments : SUBSET Record])
       /\ Len(sealedBatches') = openBatchSequence' - 1
       /\ Sound(shown, accumulator', sealedBatches', openBatchSequence', forcing)
       BY <1>1, <1>4, <1>9, <1>20, <1>26, SealKeeps
<1>28. RollupTypes'
      <2>1. IsFiniteSet(outOfOrder')
            BY <1>1, <1>4, FS_Subset DEF RollupTypes
      <2> QED BY <1>1, <1>4, <1>20, <1>27, <2>1 DEF RollupTypes
<1>29. \A i \in 1..id : shown[i].status = records[i].status
                        /\ shown[i].batchSequence = records[i].batchSequence
       <2> TAKE i \in 1..id
       <2>1. i \in 1..Len(recs) BY <1>2a, <1>8a
       <2> QED BY <2>1, <1>10, <1>19, <1>20
<1>30. FinalOnlyIfAccepted'
      <2> SUFFICES ASSUME NEW i \in 1..Len(shown), shown[i].status = "OnChainFinalized"
                   PROVE  shown[i].batchSequence \in accepted
          BY <1>4 DEF FinalOnlyIfAccepted
      <2>1. CASE i <= id
            <3>1. i \in 1..id BY <2>1, <1>2, <1>3, <1>20
            <3> QED BY <3>1, <1>29 DEF RollupInv, FinalOnlyIfAccepted, id
      <2>2. CASE i > id
            <3>1. i - id \in 1..Len(added) /\ i = id + (i - id)
                  BY <2>2, <1>2, <1>3, <1>20
            <3>2. recs[i].status = "PendingRollup" BY <3>1, <1>11
            <3> QED BY <3>2, <1>19, <1>20
      <2> QED BY <2>1, <2>2, <1>2, <1>3, <1>20
<1>31. IncludedStays
      BY <1>4, <1>29 DEF IncludedStays, id
<1>32. Sound(records', accumulator', sealedBatches', openBatchSequence', forcing')
       BY <1>4, <1>27
<1> QED BY <1>28, <1>30, <1>31, <1>32 DEF RollupGoesOn, RollupInv

LEMMA AheadKeeps ==
    ASSUME RollupInv, NEW id \in 1..(MaxCommitments - 1), EnqueueAhead(id) PROVE RollupGoesOn
<1>1. IsFiniteSet(outOfOrder') BY FS_AddElement DEF EnqueueAhead, RollupInv, RollupTypes
<1>2. UNCHANGED <<rollupTime, records, accumulator, openBatchSequence, sealedBatches,
                  accepted, forcing>>
      BY DEF EnqueueAhead
<1>3. RollupTypes' BY <1>1, <1>2 DEF RollupInv, RollupTypes
<1>4. Sound(records', accumulator', sealedBatches', openBatchSequence', forcing')
      BY <1>2 DEF RollupInv
<1>5. FinalOnlyIfAccepted' BY <1>2 DEF RollupInv, FinalOnlyIfAccepted
<1>6. IncludedStays BY <1>2 DEF IncludedStays
<1> QED BY <1>3, <1>4, <1>5, <1>6 DEF RollupGoesOn, RollupInv

LEMMA TickKeeps == ASSUME RollupInv, Tick PROVE RollupGoesOn
<1>1. RollupTypes /\ Sound(records, accumulator, sealedBatches, openBatchSequence, forcing)
      BY DEF RollupInv
<1>2. records \in Seq(Record) /\ accumulator \in Seq(Nat)
      BY <1>1 DEF RollupTypes
<1>3. /\ maybeSeal(records, accumulator, TRUE)
      /\ UNCHANGED <<rollupTime, outOfOrder, accepted>>
      <2>1. maybeSeal(records, accumulator, TRUE) BY DEF Tick
      <2>2. UNCHANGED <<rollupTime, outOfOrder, accepted>> BY DEF Tick
      <2> QED BY <2>1, <2>2
<1>4. /\ accumulator' \in Seq(Nat)
      /\ openBatchSequence' \in Nat \ {0}
      /\ sealedBatches' \in Seq([root : Seq(Nat), commitments : SUBSET Record])
      /\ Len(sealedBatches') = openBatchSequence' - 1
      /\ Sound(records, accumulator', sealedBatches', openBatchSequence', forcing)
      BY <1>1, <1>2, <1>3, SealKeeps
<1>5. /\ forcing' \in Seq(Seq(Record) \ {<<>>})
      /\ Sound(records', accumulator', sealedBatches', openBatchSequence', forcing')
      /\ SamePlaces(records', records)
      /\ \A i \in 1..Len(records) :
             \/ records'[i] = records[i]
             \/ /\ records[i].status = "PendingRollup"
                /\ records'[i].status # "OnChainFinalized"
      <2>1. CASE sealing' = sealing
            <3>1. checkForcedInclusions(records) BY <2>1 DEF Tick
            <3> QED BY <1>1, <1>2, <1>4, <3>1, PassKeeps
      <2>2. CASE sealing' # sealing
            <3>1. UNCHANGED <<records, forcing>> BY <2>2 DEF Tick
            <3> QED BY <1>1, <1>2, <1>4, <3>1 DEF SamePlaces, RollupTypes
      <2> QED BY <2>1, <2>2
<1>6. RollupTypes'
      BY <1>1, <1>3, <1>4, <1>5 DEF RollupTypes, SamePlaces
<1>7. FinalOnlyIfAccepted'
      BY <1>3, <1>5 DEF FinalOnlyIfAccepted, RollupInv, SamePlaces
<1>8. IncludedStays
      BY <1>5 DEF IncludedStays
<1> QED BY <1>5, <1>6, <1>7, <1>8 DEF RollupGoesOn, RollupInv

LEMMA SubmitKeeps == ASSUME RollupInv, SubmitAnswers PROVE RollupGoesOn
<1> DEFINE recs == Finalized(records, sealing.batch)
<1>1. RollupTypes /\ Sound(records, accumulator, sealedBatches, openBatchSequence, forcing)
      BY DEF RollupInv
<1>2. records \in Seq(Record) /\ openBatchSequence \in Nat
      BY <1>1 DEF RollupTypes
<1>3. /\ SamePlaces(recs, records)
      /\ Sound(recs, accumulator, sealedBatches, openBatchSequence, forcing)
      /\ \A i \in 1..Len(records) :
             \/ recs[i] = records[i]
             \/ records[i].status = "PendingRollup" /\ records[i].batchSequence = sealing.batch
      BY <1>1, <1>2, FinalizedKeeps
<1>4. /\ accepted' = accepted \cup {sealing.batch}
      /\ UNCHANGED <<rollupTime, outOfOrder, accumulator, openBatchSequence, sealedBatches>>
      /\ IF sealing.byTick THEN checkForcedInclusions(recs)
         ELSE records' = recs /\ UNCHANGED forcing
      BY DEF SubmitAnswers
<1> HIDE DEF recs
<1>5. recs \in Seq(Record) /\ Len(recs) = Len(records) BY <1>3 DEF SamePlaces
<1>6. /\ forcing' \in Seq(Seq(Record) \ {<<>>})
      /\ Sound(records', accumulator, sealedBatches, openBatchSequence, forcing')
      /\ SamePlaces(records', recs)
      /\ \A i \in 1..Len(recs) :
             \/ records'[i] = recs[i]
             \/ /\ recs[i].status = "PendingRollup"
                /\ records'[i].status # "OnChainFinalized"
      <2>1. CASE sealing.byTick
            BY <1>1, <1>2, <1>3, <1>4, <1>5, <2>1, PassKeeps
      <2>2. CASE ~sealing.byTick
            <3>1. records' = recs /\ forcing' = forcing BY <1>4, <2>2
            <3> QED BY <1>1, <1>3, <1>5, <3>1 DEF SamePlaces, RollupTypes
      <2> QED BY <2>1, <2>2
<1>7. Sound(records', accumulator', sealedBatches', openBatchSequence', forcing')
      BY <1>4, <1>6
<1>8. RollupTypes'
      BY <1>1, <1>4, <1>6 DEF RollupTypes, SamePlaces
<1>9. FinalOnlyIfAccepted'
      <2> SUFFICES ASSUME NEW i \in 1..Len(records), records'[i].status = "OnChainFinalized"
                   PROVE  records'[i].batchSequence \in accepted'
          BY <1>5, <1>6 DEF FinalOnlyIfAccepted, SamePlaces
      <2>1. records'[i] = recs[i] BY <1>5, <1>6
      <2>2. recs[i].batchSequence = records[i].batchSequence BY <1>3 DEF SamePlaces
      <2>3. CASE recs[i] = records[i]
            BY <2>1, <2>3, <1>4 DEF RollupInv, FinalOnlyIfAccepted
      <2>4. CASE records[i].batchSequence = sealing.batch
            BY <2>1, <2>2, <2>4, <1>4
      <2> QED BY <2>3, <2>4, <1>3
<1>10. IncludedStays
      <2> SUFFICES ASSUME NEW i \in 1..Len(records),
                          records[i].status \in {"OnChainFinalized", "ForceIncluded"}
                   PROVE  records'[i].status = records[i].status
          BY DEF IncludedStays
      <2>1. recs[i] = records[i] BY <1>3
      <2> QED BY <2>1, <1>5, <1>6
<1> QED BY <1>7, <1>8, <1>9, <1>10 DEF RollupGoesOn, RollupInv

\* The passes without one of them.
LEMMA WithoutPassKeeps ==
    ASSUME RollupTypes, NEW p \in 1..Len(forcing)
    PROVE  /\ WithoutPass(p) \in Seq(Seq(Record) \ {<<>>})
           /\ \A k \in 1..Len(WithoutPass(p)) :
                  \E q \in 1..Len(forcing) : WithoutPass(p)[k] = forcing[q]
<1> DEFINE n == Len(forcing) - 1
<1>1. forcing \in Seq(Seq(Record) \ {<<>>}) /\ n \in Nat
      BY LenProperties DEF RollupTypes
<1>2. \A k \in 1..(n + 1) : forcing[k] \in Seq(Record) \ {<<>>}
      BY <1>1, ElementOfSeq
<1> DEFINE entry(k) == IF k < p THEN forcing[k] ELSE forcing[k + 1]
<1>3. \A k \in 1..n : /\ entry(k) \in Seq(Record) \ {<<>>}
                      /\ \E q \in 1..Len(forcing) : entry(k) = forcing[q]
      <2> TAKE k \in 1..n
      <2>1. k \in 1..(n + 1) /\ k + 1 \in 1..(n + 1) /\ n + 1 = Len(forcing) BY <1>1
      <2> QED BY <2>1, <1>2
<1>4. WithoutPass(p) = [k \in 1..n |-> entry(k)] BY DEF WithoutPass
<1> HIDE DEF entry, n
<1>5. /\ WithoutPass(p) \in [1..n -> Seq(Record) \ {<<>>}]
      /\ \A k \in 1..n : WithoutPass(p)[k] = entry(k)
      BY <1>3, <1>4
<1>6. WithoutPass(p) \in Seq(Seq(Record) \ {<<>>}) /\ Len(WithoutPass(p)) = n
      BY <1>1, <1>5, SeqDef
<1> QED BY <1>3, <1>5, <1>6

LEMMA IncludeKeeps ==
    ASSUME RollupInv, NEW p \in 1..Len(forcing), ForceIncludeAnswers(p) PROVE RollupGoesOn
<1> DEFINE first == Head(forcing[p])
           rest == Tail(forcing[p])
           included == Marked(records, first, "ForceIncluded")
           marked == Marked(included, Head(rest), "ForceIncludePending")
           sound(recs, passes) ==
               Sound(recs, accumulator, sealedBatches, openBatchSequence, passes)
           listed(r, recs) == Listed(r, recs, accumulator, sealedBatches, openBatchSequence)
<1>1. RollupTypes /\ sound(records, forcing)
      BY DEF RollupInv
<1>2. /\ records \in Seq(Record) /\ openBatchSequence \in Nat
      /\ forcing \in Seq(Seq(Record) \ {<<>>})
      BY <1>1 DEF RollupTypes
<1>3. forcing[p] \in Seq(Record) /\ forcing[p] # <<>>
      BY <1>2, ElementOfSeq
<1>4. /\ first = forcing[p][1] /\ 1 \in 1..Len(forcing[p]) /\ rest \in Seq(Record)
      /\ \A k \in 1..Len(rest) : rest[k] = forcing[p][k + 1] /\ k + 1 \in 1..Len(forcing[p])
      /\ rest # <<>> => Head(rest) = forcing[p][2] /\ 2 \in 1..Len(forcing[p])
      <2>1. Len(forcing[p]) \in Nat \ {0} BY <1>3, EmptySeq
      <2>2. /\ rest \in Seq(Record) /\ Len(rest) = Len(forcing[p]) - 1
            /\ \A i \in 1..Len(rest) : rest[i] = forcing[p][i + 1]
            BY <1>3, HeadTailProperties
      <2>3. rest # <<>> => Len(rest) \in Nat \ {0} /\ Head(rest) = rest[1]
            <3> HIDE DEF rest
            <3>1. rest \in Seq(Record) BY <2>2
            <3> QED BY <3>1, EmptySeq
      <2>4. first = forcing[p][1] BY <1>3
      <2> HIDE DEF rest, first
      <2>5. ASSUME rest # <<>>
            PROVE  Head(rest) = forcing[p][2] /\ 2 \in 1..Len(forcing[p])
            <3>1. 1 \in 1..Len(rest) /\ Head(rest) = rest[1] BY <2>3, <2>5
            <3>2. rest[1] = forcing[p][1 + 1] BY <2>2, <3>1
            <3>3. 2 \in 1..Len(forcing[p]) BY <2>1, <2>2, <3>1
            <3> QED BY <3>1, <3>2, <3>3
      <2>6. \A k \in 1..Len(rest) : k + 1 \in 1..Len(forcing[p]) BY <2>1, <2>2
      <2>7. 1 \in 1..Len(forcing[p]) BY <2>1
      <2>8. rest \in Seq(Record) /\ \A k \in 1..Len(rest) : rest[k] = forcing[p][k + 1]
            BY <2>2
      <2> QED BY <2>4, <2>5, <2>6, <2>7, <2>8
<1>5. /\ IF rest = <<>> THEN forcing' = WithoutPass(p) /\ records' = included
         ELSE forcing' = [forcing EXCEPT ![p] = rest] /\ records' = marked
      /\ UNCHANGED <<rollupTime, outOfOrder, accumulator, openBatchSequence, sealedBatches,
                     accepted>>
      BY DEF ForceIncludeAnswers
<1>6. \A k \in 1..Len(forcing[p]) :
          forcing[p][k] \in Record /\ forcing[p][k].commitment \in Nat
          /\ forcing[p][k].commitment + 1 \in Nat
      <2> TAKE k \in 1..Len(forcing[p])
      <2>1. forcing[p][k] \in Record BY <1>3, ElementOfSeq
      <2>2. forcing[p][k].commitment \in Nat BY <2>1 DEF Record
      <2>3. forcing[p][k].commitment + 1 \in Nat BY <2>2
      <2> QED BY <2>1, <2>2, <2>3
<1> HIDE DEF first, rest, sound, listed
<1>7. first \in Record /\ listed(first, records)
      BY <1>1, <1>4, <1>6 DEF sound, listed, Sound, PassesKept
<1>8. /\ SamePlaces(included, records)
      /\ \A i \in 1..Len(records) :
             \/ i # first.commitment + 1 /\ included[i] = records[i]
             \/ i = first.commitment + 1 /\ included[i].status = "ForceIncluded"
      /\ sound(included, forcing)
      BY <1>1, <1>2, <1>7, MarkedKeeps DEF sound, listed
<1> HIDE DEF included
<1>9. included \in Seq(Record) /\ Len(included) = Len(records) BY <1>8 DEF SamePlaces
<1>10. ASSUME rest # <<>>
       PROVE  /\ SamePlaces(marked, included)
              /\ \A i \in 1..Len(included) :
                     \/ i # Head(rest).commitment + 1 /\ marked[i] = included[i]
                     \/ /\ i = Head(rest).commitment + 1
                        /\ marked[i].status = "ForceIncludePending"
              /\ sound(marked, forcing)
      <2> DEFINE next == Head(rest)
      <2>1. next \in Record /\ listed(next, included)
            BY <1>4, <1>6, <1>8, <1>10 DEF sound, listed, Sound, PassesKept
      <2> HIDE DEF next
      <2> QED BY <1>2, <1>8, <1>9, <2>1, MarkedKeeps DEF sound, listed, next
<1> HIDE DEF marked
<1>11. /\ SamePlaces(records', records) /\ sound(records', forcing)
       /\ \A i \in 1..Len(records) :
              \/ records'[i] = records[i]
              \/ /\ records'[i].status # "OnChainFinalized"
                 /\ \/ i = first.commitment + 1
                    \/ rest # <<>> /\ i = Head(rest).commitment + 1
       <2>1. CASE rest = <<>> BY <2>1, <1>5, <1>8
       <2>2. CASE rest # <<>>
             <3>1. SamePlaces(marked, records) BY <2>2, <1>8, <1>10 DEF SamePlaces
             <3> QED BY <2>2, <3>1, <1>5, <1>8, <1>9, <1>10
       <2> QED BY <2>1, <2>2
<1>12. /\ forcing' \in Seq(Seq(Record) \ {<<>>})
       /\ \A q \in 1..Len(forcing') : \A k \in 1..Len(forcing'[q]) :
              \E o \in 1..Len(forcing) : \E l \in 1..Len(forcing[o]) :
                  forcing'[q][k] = forcing[o][l]
      <2>1. CASE rest = <<>>
            <3>1. forcing' = WithoutPass(p) BY <1>5, <2>1
            <3>2. /\ forcing' \in Seq(Seq(Record) \ {<<>>})
                  /\ \A q \in 1..Len(forcing') : \E o \in 1..Len(forcing) : forcing'[q] = forcing[o]
                  BY <1>1, <3>1, WithoutPassKeeps
            <3> QED BY <3>2
      <2>2. CASE rest # <<>>
            <3>1. rest \in Seq(Record) \ {<<>>} BY <1>4, <2>2
            <3>2. /\ [forcing EXCEPT ![p] = rest] \in Seq(Seq(Record) \ {<<>>})
                  /\ Len([forcing EXCEPT ![p] = rest]) = Len(forcing)
                  /\ \A q \in 1..Len(forcing) :
                         [forcing EXCEPT ![p] = rest][q] = IF q = p THEN rest ELSE forcing[q]
                  BY <1>2, <3>1, ExceptSeq
            <3>3. /\ forcing' \in Seq(Seq(Record) \ {<<>>}) /\ Len(forcing') = Len(forcing)
                  /\ \A q \in 1..Len(forcing) : forcing'[q] = IF q = p THEN rest ELSE forcing[q]
                  BY <1>5, <2>2, <3>2
            <3>4. ASSUME NEW q \in 1..Len(forcing'), NEW k \in 1..Len(forcing'[q])
                  PROVE  \E o \in 1..Len(forcing) : \E l \in 1..Len(forcing[o]) :
                             forcing'[q][k] = forcing[o][l]
                  <4>1. CASE q = p
                        <5>1. k \in 1..Len(rest) /\ forcing'[q] = rest BY <3>3, <4>1
                        <5>2. rest[k] = forcing[p][k + 1] /\ k + 1 \in 1..Len(forcing[p])
                              BY <1>4, <5>1
                        <5> QED BY <5>1, <5>2
                  <4>2. CASE q # p BY <3>3, <4>2
                  <4> QED BY <4>1, <4>2
            <3> QED BY <3>3, <3>4
      <2> QED BY <2>1, <2>2
<1>13. Sound(records', accumulator', sealedBatches', openBatchSequence', forcing')
       <2>1. PassesKept(forcing', records', accumulator, sealedBatches, openBatchSequence)
             <3> SUFFICES ASSUME NEW q \in 1..Len(forcing'), NEW k \in 1..Len(forcing'[q])
                          PROVE  Listed(forcing'[q][k], records', accumulator, sealedBatches,
                                        openBatchSequence)
                 BY DEF PassesKept
             <3>1. PICK o \in 1..Len(forcing) : \E l \in 1..Len(forcing[o]) :
                       forcing'[q][k] = forcing[o][l]
                   BY <1>12
             <3>2. PICK l \in 1..Len(forcing[o]) : forcing'[q][k] = forcing[o][l] BY <3>1
             <3>3. Listed(forcing[o][l], records', accumulator, sealedBatches, openBatchSequence)
                   BY <1>11 DEF sound, Sound, PassesKept
             <3> QED BY <3>2, <3>3
       <2> QED BY <1>5, <1>11, <2>1 DEF sound, Sound
<1>14. RollupTypes'
      BY <1>1, <1>5, <1>11, <1>12 DEF RollupTypes, SamePlaces
<1>15. FinalOnlyIfAccepted'
      <2> SUFFICES ASSUME NEW i \in 1..Len(records), records'[i].status = "OnChainFinalized"
                   PROVE  records'[i].batchSequence \in accepted
          BY <1>5, <1>11 DEF FinalOnlyIfAccepted, SamePlaces
      <2>1. records'[i] = records[i] BY <1>11
      <2> QED BY <2>1 DEF RollupInv, FinalOnlyIfAccepted
<1>16. IncludedStays
      <2> SUFFICES ASSUME NEW i \in 1..Len(records),
                          \A q \in 1..Len(forcing) : \A k \in 1..Len(forcing[q]) :
                              forcing[q][k].commitment # i - 1
                   PROVE  records'[i].status = records[i].status
          BY DEF IncludedStays
      <2>1. i # first.commitment + 1
            <3>1. first.commitment # i - 1 /\ first.commitment \in Nat BY <1>4, <1>6
            <3> QED BY <3>1
      <2>2. rest # <<>> => i # Head(rest).commitment + 1
            <3> SUFFICES ASSUME rest # <<>> PROVE i # Head(rest).commitment + 1 OBVIOUS
            <3>1. Head(rest).commitment # i - 1 /\ Head(rest).commitment \in Nat BY <1>4, <1>6
            <3> QED BY <3>1
      <2> QED BY <2>1, <2>2, <1>11
<1> QED BY <1>13, <1>14, <1>15, <1>16 DEF RollupGoesOn, RollupInv

\* The steps that change no record.
LEMMA OthersKeep ==
    ASSUME RollupInv,
           \/ SubmitFails \/ RollupClock \/ UNCHANGED rollupVars
           \/ \E p \in 1..Len(forcing) : ForceIncludeFails(p)
    PROVE  RollupGoesOn
<1>1. /\ forcing' \in Seq(Seq(Record) \ {<<>>})
      /\ \A q \in 1..Len(forcing') : \E o \in 1..Len(forcing) : forcing'[q] = forcing[o]
      <2> DEFINE kept(passes) ==
                     /\ passes \in Seq(Seq(Record) \ {<<>>})
                     /\ \A q \in 1..Len(passes) : \E o \in 1..Len(forcing) : passes[q] = forcing[o]
      <2>1. RollupTypes BY DEF RollupInv
      <2>2. ASSUME NEW p \in 1..Len(forcing), ForceIncludeFails(p) PROVE kept(forcing')
            <3>1. forcing' = WithoutPass(p) BY <2>2 DEF ForceIncludeFails
            <3>2. kept(WithoutPass(p)) BY <2>1, WithoutPassKeeps
            <3> QED BY <3>1, <3>2
      <2>3. kept(forcing) BY <2>1 DEF RollupTypes
      <2>4. CASE SubmitFails \/ RollupClock \/ UNCHANGED rollupVars
            <3>1. forcing' = forcing BY <2>4 DEF SubmitFails, RollupClock, rollupVars
            <3> QED BY <2>3, <3>1
      <2> QED BY <2>2, <2>4
<1>2. /\ UNCHANGED <<records, outOfOrder, accumulator, openBatchSequence, sealedBatches, accepted>>
      /\ rollupTime' \in {rollupTime, rollupTime + 1}
      BY DEF SubmitFails, RollupClock, rollupVars, ForceIncludeFails
<1>3. RollupTypes' BY <1>1, <1>2 DEF RollupInv, RollupTypes
<1>4. FinalOnlyIfAccepted' BY <1>2 DEF RollupInv, FinalOnlyIfAccepted
<1>5. Sound(records', accumulator', sealedBatches', openBatchSequence', forcing')
      <2>1. Sound(records, accumulator, sealedBatches, openBatchSequence, forcing)
            BY DEF RollupInv
      <2>2. PassesKept(forcing', records, accumulator, sealedBatches, openBatchSequence)
            BY <1>1, <2>1 DEF Sound, PassesKept
      <2>3. Sound(records, accumulator, sealedBatches, openBatchSequence, forcing')
            BY <2>1, <2>2 DEF Sound
      <2> QED BY <1>2, <2>3
<1>6. IncludedStays BY <1>2 DEF IncludedStays
<1> QED BY <1>3, <1>4, <1>5, <1>6 DEF RollupGoesOn, RollupInv

\* A root has as many leaves as its batch has records: they are paired.
LEMMA CoversIsRootCovers == ASSUME RollupInv PROVE RootCoversItsBatch
<1> DEFINE own(b) == IF b < openBatchSequence THEN sealedBatches[b].root ELSE accumulator
           batch(b) == {i \in 1..Len(records) : records[i].batchSequence = b}
<1>1. \A b \in 1..openBatchSequence : own(b) \in Seq(Nat)
      <2> TAKE b \in 1..openBatchSequence
      <2>1. CASE b < openBatchSequence
            <3>1. b \in 1..Len(sealedBatches) BY <2>1 DEF RollupInv, RollupTypes
            <3>2. sealedBatches[b] \in [root : Seq(Nat), commitments : SUBSET Record]
                  BY <3>1, ElementOfSeq DEF RollupInv, RollupTypes
            <3> QED BY <2>1, <3>2
      <2>2. CASE ~(b < openBatchSequence)
            BY <2>2 DEF RollupInv, RollupTypes
      <2> QED BY <2>1, <2>2
<1>2. \A i \in 1..Len(records) :
           /\ records[i].batchSequence \in 1..openBatchSequence
           /\ records[i].leafIndex \in 1..Len(own(records[i].batchSequence))
           /\ own(records[i].batchSequence)[records[i].leafIndex] = i - 1
      BY DEF RollupInv, Sound, Covers, LeavesIn
<1>3. \A b \in 1..openBatchSequence : \A k \in 1..Len(own(b)) :
           /\ own(b)[k] + 1 \in 1..Len(records)
           /\ records[own(b)[k] + 1].batchSequence = b
           /\ records[own(b)[k] + 1].leafIndex = k
      BY DEF RollupInv, Sound, Covers, LeavesIn
<1> HIDE DEF own
<1>4. \A i \in 1..Len(records) :
           /\ records[i].leafIndex \in DOMAIN own(records[i].batchSequence)
           /\ own(records[i].batchSequence)[records[i].leafIndex] = i - 1
      BY <1>1, <1>2, LenProperties
<1>5. ASSUME NEW b \in 1..openBatchSequence PROVE Len(own(b)) = Cardinality(batch(b))
      <2> DEFINE n == Len(own(b))
                 f == [k \in 1..n |-> own(b)[k] + 1]
      <2>1. n \in Nat /\ \A k \in 1..n : own(b)[k] \in Nat
            BY <1>1, LenProperties, ElementOfSeq
      <2>2. f \in [1..n -> batch(b)] BY <1>3
      <2>3. \A k \in 1..n, l \in 1..n : f[k] = f[l] => k = l
            BY <1>3
      <2>4. \A i \in batch(b) : \E k \in 1..n : f[k] = i
            <3> TAKE i \in batch(b)
            <3>1. records[i].leafIndex \in 1..n /\ own(b)[records[i].leafIndex] = i - 1
                  BY <1>2
            <3> QED BY <3>1
      <2> HIDE DEF f, n
      <2>5. f \in Bijection(1..n, batch(b))
            BY <2>2, <2>3, <2>4 DEF Bijection, Injection, IsInjective, Surjection
      <2>6. IsFiniteSet(1..n) /\ Cardinality(1..n) = n
            BY <2>1, FS_Interval
      <2>7. ExistsBijection(1..n, batch(b)) BY <2>5 DEF ExistsBijection
      <2>8. Cardinality(batch(b)) = Cardinality(1..n) BY <2>6, <2>7, FS_Bijection
      <2> QED BY <2>6, <2>8 DEF n
<1> QED BY <1>4, <1>5 DEF RootCoversItsBatch, leavesOf, own

\* The path that a tree gave for a leaf leads to the root it had.
LEMMA HadProves ==
    ASSUME NEW batch \in Seq(Nat), NEW r, NEW n \in Nat, Had(r, batch, n),
           r.leafIndex \in 1..Len(batch), batch[r.leafIndex] = r.commitment
    PROVE  /\ n \in r.leafIndex..Len(batch)
           /\ Proves(r, SubSeq(batch, 1, n))
           /\ n = Len(batch) => SubSeq(batch, 1, n) = batch
<1> DEFINE tree == SubSeq(batch, 1, n)
           k == r.leafIndex
<1>1. Len(batch) \in Nat /\ \A i \in 1..Len(batch) : batch[i] \in Nat
      BY LenProperties, ElementOfSeq
<1>2. /\ n \in k..Len(batch) /\ r.leafHash = LeafOf(r.commitment)
      /\ r.proof = getProof(LeafHashes(tree), k)
      BY DEF Had
<1>3. n >= 1 /\ k \in 1..n BY <1>1, <1>2
<1>4. Len(tree) = n /\ tree[k] = batch[k]
      <2>1. 1 \in Int /\ n \in Int /\ \A i \in 1..n : batch[i] \in Nat BY <1>1, <1>2
      <2>2. /\ Len(tree) = IF 1 <= n THEN n - 1 + 1 ELSE 0
            /\ \A i \in 1..(n - 1 + 1) : tree[i] = batch[1 + i - 1]
            BY <2>1, SubSeqProperties
      <2> HIDE DEF tree, k
      <2>3. 1 + k - 1 = k BY <1>3
      <2> QED BY <1>3, <2>2, <2>3
<1> HIDE DEF tree, k
<1>5. /\ Len(LeafHashes(tree)) = n /\ LeafHashes(tree)[k] = r.leafHash
      <2>1. LeafHashes(tree) = [i \in 1..n |-> LeafOf(tree[i])] BY <1>4 DEF LeafHashes
      <2>2. tree[k] = r.commitment BY <1>4 DEF k
      <2> QED BY <1>2, <1>3, <2>1, <2>2
<1>6. computeMerkleRoot(LeafHashes(tree)[k], getProof(LeafHashes(tree), k)) = Root(LeafHashes(tree))
      <2> DEFINE hashes == LeafHashes(tree)
      <2>1. Len(hashes) \in Nat \ {0} /\ k \in 1..Len(hashes) BY <1>3, <1>5
      <2> HIDE DEF hashes
      <2>2. computeMerkleRoot(hashes[k], getProof(hashes, k)) = Root(hashes)
            BY <2>1, MerkleCompleteness
      <2> QED BY <2>2 DEF hashes
<1>7. Proves(r, tree) BY <1>2, <1>5, <1>6 DEF Proves
<1>8. n = Len(batch) => tree = batch BY SubSeqFull DEF tree
<1> QED BY <1>2, <1>7, <1>8 DEF tree, k

LEMMA KeptIsProven == ASSUME RollupInv PROVE RecordsProveTheirs
<1>1. RollupTypes /\ Sound(records, accumulator, sealedBatches, openBatchSequence, forcing)
      BY DEF RollupInv
<1>2. \A b \in 1..Len(sealedBatches) : sealedBatches[b].root \in Seq(Nat)
      <2> TAKE b \in 1..Len(sealedBatches)
      <2>1. sealedBatches[b] \in [root : Seq(Nat), commitments : SUBSET Record]
            BY <1>1, ElementOfSeq DEF RollupTypes
      <2> QED BY <2>1
<1>3. ASSUME NEW b \in 1..Len(sealedBatches), NEW r \in sealedBatches[b].commitments
      PROVE  Proves(r, sealedBatches[b].root)
      <2> DEFINE root == sealedBatches[b].root
      <2>1. /\ r.leafIndex \in 1..Len(root) /\ root[r.leafIndex] = r.commitment
            /\ Had(r, root, Len(root))
            BY <1>1, <1>3 DEF Sound, BatchesKept
      <2>2. root \in Seq(Nat) BY <1>2
      <2> HIDE DEF root
      <2>3. Len(root) \in Nat BY <2>2, LenProperties
      <2>4. Proves(r, SubSeq(root, 1, Len(root))) /\ SubSeq(root, 1, Len(root)) = root
            BY <2>1, <2>2, <2>3, HadProves
      <2> QED BY <2>4 DEF root
<1>4. ASSUME NEW i \in 1..Len(records)
      PROVE  LET leaves == leavesOf(records[i].batchSequence) IN
             \/ Overtaken(records, records[i])
             \/ Proves(records[i], leaves)
             \/ /\ records[i].status \in {"ForceIncludePending", "ForceIncluded"}
                /\ \E n \in records[i].leafIndex..Len(leaves) :
                       Proves(records[i], SubSeq(leaves, 1, n))
      <2> DEFINE r == records[i]
                 b == records[i].batchSequence
                 own == leavesOf(b)
      <2>1. own = LeavesIn(b, accumulator, sealedBatches, openBatchSequence)
            BY DEF leavesOf, LeavesIn
      <2>2. /\ b \in 1..openBatchSequence /\ r.leafIndex \in 1..Len(own)
            /\ own[r.leafIndex] = i - 1
            BY <1>1, <2>1 DEF Sound, Covers
      <2>3. /\ r.commitment = i - 1 /\ Kept(records, r, own)
            /\ r.status \in {"PendingRollup", "OnChainFinalized"} => KeptNow(records, r, own)
            BY <1>1, <2>1 DEF Sound, RecordsKept
      <2>4. r.status \in {"PendingRollup", "OnChainFinalized", "ForceIncludePending", "ForceIncluded"}
            <3>1. r \in Record BY <1>1, ElementOfSeq DEF RollupTypes
            <3> QED BY <3>1 DEF Record
      <2>5. own \in Seq(Nat)
            <3>1. CASE b < openBatchSequence
                  <4>1. b \in 1..Len(sealedBatches) BY <1>1, <2>2, <3>1 DEF RollupTypes
                  <4> QED BY <1>2, <3>1, <4>1 DEF leavesOf
            <3>2. CASE ~(b < openBatchSequence)
                  BY <1>1, <3>2 DEF leavesOf, RollupTypes
            <3> QED BY <3>1, <3>2
      <2> HIDE DEF r, own, b
      <2>6. own[r.leafIndex] = r.commitment /\ Len(own) \in Nat BY <2>2, <2>3, <2>5, LenProperties
      <2>7. Had(r, own, Len(own)) => Proves(r, own) BY <2>2, <2>5, <2>6, HadProves
      <2>8. ASSUME NEW n \in Nat, Had(r, own, n)
            PROVE  n \in r.leafIndex..Len(own) /\ Proves(r, SubSeq(own, 1, n))
            BY <2>2, <2>5, <2>6, <2>8, HadProves
      <2> QED BY <2>3, <2>4, <2>7, <2>8 DEF r, own, b, Kept, KeptNow
<1> QED BY <1>3, <1>4 DEF RecordsProveTheirs

\* A leaf's path in the cache is the one of the tree as it is.
TreeInv == /\ \E S : treeLeaves \in Seq(S)
           /\ proofCache = Recached(treeLeaves)

LEMMA TreeInvIsEnough == ASSUME TreeInv PROVE CachedProofsVerify
<1> SUFFICES ASSUME NEW i \in 1..Len(treeLeaves)
             PROVE  computeMerkleRoot(treeLeaves[i], proofCache[i]) = Root(treeLeaves)
    BY DEF CachedProofsVerify
<1>1. Len(treeLeaves) \in Nat \ {0} BY LenProperties DEF TreeInv
<1>2. proofCache[i] = getProof(treeLeaves, i) BY DEF TreeInv, Recached
<1> QED BY <1>1, <1>2, MerkleCompleteness

LEMMA TreeKeeps == ASSUME TreeInv, [TreeNext]_treeVars PROVE TreeInv'
<1>1. ASSUME NEW bytes \in Contents, AppendCommitment(bytes) PROVE TreeInv'
      <2>1. PICK S : treeLeaves \in Seq(S) BY DEF TreeInv
      <2> DEFINE T == S \cup {LeafOf(bytes)}
      <2>2. treeLeaves \in Seq(T) BY <2>1, SeqMonotonic
      <2>3. treeLeaves' \in Seq(T) BY <1>1, <2>2, AppendProperties DEF AppendCommitment
      <2> QED BY <1>1, <2>3 DEF AppendCommitment, TreeInv
<1>2. Recached(<<>>) = <<>> BY DEF Recached
<1>3. ASSUME ClearTree PROVE TreeInv'
      <2>1. treeLeaves' = <<>> /\ proofCache' = <<>> BY <1>3 DEF ClearTree
      <2>2. Recached(treeLeaves') = <<>> BY <1>2, <2>1
      <2>3. treeLeaves' \in Seq({}) BY <2>1, EmptySeq
      <2> QED BY <2>1, <2>2, <2>3 DEF TreeInv
<1>4. CASE UNCHANGED treeVars BY <1>4 DEF treeVars, TreeInv
<1> QED BY <1>1, <1>3, <1>4 DEF TreeNext

\* What the client claims of its commitments holds in every behaviour of the rollup and of
\* the tree, for any sizes, limits and order of arrival (OptimisticRollupEngine,
\* MerkleAccumulator).
THEOREM ClaimsAreKept == RollupSpec /\ TreeSpec => ClaimsCanBeProved
<1>1. RollupInit => RollupInv
      <2> SUFFICES ASSUME RollupInit PROVE RollupInv OBVIOUS
      <2>1. RollupTypes BY EmptySeq, FS_EmptySet DEF RollupInit, RollupTypes
      <2>2. Len(records) = 0 /\ \A b \in 1..openBatchSequence :
                LeavesIn(b, accumulator, sealedBatches, openBatchSequence) = <<>>
            BY EmptySeq DEF RollupInit, LeavesIn
      <2>3. /\ Covers(records, accumulator, sealedBatches, openBatchSequence)
            /\ RecordsKept(records, accumulator, sealedBatches, openBatchSequence)
            BY <2>2 DEF Covers, RecordsKept
      <2>4. Len(sealedBatches) = 0 /\ Len(forcing) = 0 BY EmptySeq DEF RollupInit
      <2>5. /\ BatchesKept(sealedBatches)
            /\ PassesKept(forcing, records, accumulator, sealedBatches, openBatchSequence)
            BY <2>4 DEF BatchesKept, PassesKept
      <2>6. FinalOnlyIfAccepted BY <2>2 DEF FinalOnlyIfAccepted
      <2> QED BY <2>1, <2>3, <2>5, <2>6 DEF RollupInv, Sound
<1>2. RollupInv /\ [RollupNext]_rollupVars => RollupGoesOn
      <2> SUFFICES ASSUME RollupInv, [RollupNext]_rollupVars PROVE RollupGoesOn OBVIOUS
      <2>1. CASE EnqueueNext BY <2>1, EnqueueKeeps
      <2>2. CASE Tick BY <2>2, TickKeeps
      <2>3. CASE SubmitAnswers BY <2>3, SubmitKeeps
      <2>4. ASSUME NEW id \in 1..(MaxCommitments - 1), EnqueueAhead(id) PROVE RollupGoesOn
            BY <2>4, AheadKeeps
      <2>5. ASSUME NEW p \in 1..Len(forcing), ForceIncludeAnswers(p) PROVE RollupGoesOn
            BY <2>5, IncludeKeeps
      <2>6. CASE \/ SubmitFails \/ RollupClock \/ UNCHANGED rollupVars
                 \/ \E p \in 1..Len(forcing) : ForceIncludeFails(p)
            BY <2>6, OthersKeep
      <2> QED BY <2>1, <2>2, <2>3, <2>4, <2>5, <2>6 DEF RollupNext
<1>3. RollupInv => RootCoversItsBatch /\ RecordsProveTheirs /\ FinalOnlyIfAccepted
      BY CoversIsRootCovers, KeptIsProven DEF RollupInv
<1>4. TreeInit => TreeInv
      BY EmptySeq DEF TreeInit, TreeInv, Recached
<1>5. RollupInv /\ [RollupNext]_rollupVars => RollupInv' /\ [IncludedStays]_rollupVars
      BY <1>2 DEF RollupGoesOn
<1>6. RollupSpec => /\ []RootCoversItsBatch /\ []RecordsProveTheirs /\ []FinalOnlyIfAccepted
                    /\ [][IncludedStays]_rollupVars
      BY <1>1, <1>3, <1>5, PTL DEF RollupSpec
<1>7. TreeSpec => []CachedProofsVerify
      BY <1>4, TreeKeeps, TreeInvIsEnough, PTL DEF TreeSpec
<1> QED BY <1>6, <1>7, PTL DEF ClaimsCanBeProved, IncludedIsFinal, IncludedStays
==============================================================================
