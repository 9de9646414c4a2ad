---------------------------- MODULE DataTheorems ----------------------------
(***************************************************************************)
(* Theorems about the data of several models: the sum of a function over a *)
(* finite set (SumFunctionOnSet of the community modules), and the paths   *)
(* and roots of Merkle trees.  What would be shown by induction is shown   *)
(* from a least counterexample.                                            *)
(***************************************************************************)
EXTENDS MerkleTree, FiniteSets, Functions, FiniteSetTheorems, WellFoundedInduction, TLAPS

\* A set of numbers that is not empty has a least one: what stands in for induction.
LEMMA LeastExists ==
    ASSUME NEW T \in SUBSET Nat, T # {}
    PROVE  \E n \in T : \A m \in T : n <= m
<1> DEFINE R == {p \in Nat \X Nat : p[1] < p[2]}
<1>1. IsWellFoundedOn(R, Nat)
  BY NatLessThanWellFounded DEF OpToRel
<1>2. PICK n \in T : \A m \in T : ~(<<m, n>> \in R)
  <2> HIDE DEF R
  <2> QED BY <1>1, WFMin
<1>3. \A m \in T : n <= m
  <2> SUFFICES ASSUME NEW m \in T, m < n PROVE FALSE
    OBVIOUS
  <2>1. <<m, n>> \in R
    OBVIOUS
  <2> QED BY <1>2, <2>1
<1> QED BY <1>3

\* Of some subsets of a finite set, one is the smallest: no other is within it.
LEMMA SmallestSubset ==
    ASSUME NEW S, IsFiniteSet(S), NEW F \in SUBSET (SUBSET S), F # {}
    PROVE  \E s \in F : \A t \in F : t \subseteq s => t = s
<1>1. \A s \in SUBSET S : IsFiniteSet(s) /\ Cardinality(s) \in Nat
  BY FS_Subset, FS_CardinalityType
<1> DEFINE T == {Cardinality(s) : s \in F}
<1>2. T \in SUBSET Nat /\ T # {}
  BY <1>1
<1>3. PICK n \in T : \A m \in T : n <= m
  <2> HIDE DEF T
  <2> QED BY <1>2, LeastExists
<1>4. PICK s \in F : Cardinality(s) = n
  OBVIOUS
<1>5. \A t \in F : t \subseteq s => t = s
  <2> SUFFICES ASSUME NEW t \in F, t \subseteq s PROVE t = s
    OBVIOUS
  <2>1. Cardinality(t) >= Cardinality(s)
    BY <1>3, <1>4, <1>1
  <2>2. Cardinality(t) <= Cardinality(s) /\ (Cardinality(s) = Cardinality(t) => s = t)
    BY <1>1, FS_Subset
  <2> QED BY <2>1, <2>2, <1>1
<1> QED BY <1>5

-----------------------------------------------------------------------------
(* The function SumFunctionOnSet is defined by exists.                      *)

Chosen(s) == CHOOSE x \in s : TRUE

\* What f should be at s, in terms of its value with an element less.
Summed(w, f, s) == IF s = {} THEN 0 ELSE w[Chosen(s)] + f[s \ {Chosen(s)}]

Sums(w, f, S) == f = [s \in SUBSET S |-> Summed(w, f, s)]

\* The element that the fold takes next is one of the set.
LEMMA ChosenIsMember == ASSUME NEW s, s # {} PROVE Chosen(s) \in s
BY DEF Chosen

\* There is a function that sums w over the subsets of S.
LEMMA SumsExist ==
    ASSUME NEW S, IsFiniteSet(S), NEW w
    PROVE  \E f : Sums(w, f, S)
<1> DEFINE Upto(f, n) == \A s \in SUBSET S : Cardinality(s) <= n => f[s] = Summed(w, f, s)
           Missing == {n \in Nat : ~ \E f : Upto(f, n)}
<1>1. \A s \in SUBSET S : IsFiniteSet(s) /\ Cardinality(s) \in Nat /\ Cardinality(s) <= Cardinality(S)
  BY FS_Subset, FS_CardinalityType
<1>2. Upto([s \in SUBSET S |-> 0], 0)
  <2> SUFFICES ASSUME NEW s \in SUBSET S, Cardinality(s) <= 0
               PROVE  [t \in SUBSET S |-> 0][s] = Summed(w, [t \in SUBSET S |-> 0], s)
    OBVIOUS
  <2>1. s = {}
    BY <1>1, FS_EmptySet
  <2> QED BY <2>1 DEF Summed
<1>3. ASSUME NEW n \in Nat, NEW f, Upto(f, n)
      PROVE  \E g : Upto(g, n + 1)
  <2> DEFINE g == [s \in SUBSET S |-> Summed(w, f, s)]
  <2> SUFFICES ASSUME NEW s \in SUBSET S, Cardinality(s) <= n + 1
               PROVE  g[s] = Summed(w, g, s)
    OBVIOUS
  <2>1. g[s] = Summed(w, f, s)
    OBVIOUS
  <2>2. CASE s = {}
    BY <2>1, <2>2 DEF Summed
  <2>3. CASE s # {}
    <3> DEFINE r == s \ {Chosen(s)}
    <3>1. r \in SUBSET S /\ Cardinality(r) <= n
      BY <2>3, <1>1, ChosenIsMember, FS_RemoveElement
    <3>2. f[r] = Summed(w, f, r)
      BY <3>1, <1>3
    <3>3. g[r] = f[r]
      BY <3>1, <3>2
    <3> HIDE DEF g
    <3> QED BY <2>1, <2>3, <3>3 DEF Summed
  <2> QED BY <2>2, <2>3
<1>4. Missing = {}
  <2> SUFFICES ASSUME Missing # {} PROVE FALSE
    OBVIOUS
  <2>1. PICK n \in Missing : \A m \in Missing : n <= m
    <3>1. Missing \in SUBSET Nat
      OBVIOUS
    <3> HIDE DEF Missing
    <3> QED BY <3>1, LeastExists
  <2>2. n # 0
    BY <1>2, <2>1
  <2>3. n - 1 \in Nat /\ n - 1 \notin Missing
    BY <2>1, <2>2
  <2>4. PICK f : Upto(f, n - 1)
    BY <2>3
  <2>5. \E g : Upto(g, (n - 1) + 1)
    <3> HIDE DEF Upto
    <3> QED BY <2>3, <2>4, <1>3
  <2>6. (n - 1) + 1 = n
    BY <2>3
  <2> QED BY <2>1, <2>5, <2>6
<1>5. Cardinality(S) \in Nat
  BY <1>1
<1>6. PICK f : Upto(f, Cardinality(S))
  BY <1>4, <1>5
<1>7. \A s \in SUBSET S : f[s] = Summed(w, f, s)
  BY <1>6, <1>1
<1> DEFINE g == [s \in SUBSET S |-> Summed(w, f, s)]
<1>8. \A s \in SUBSET S : g[s] = Summed(w, g, s)
  <2> SUFFICES ASSUME NEW s \in SUBSET S PROVE Summed(w, f, s) = Summed(w, g, s)
    OBVIOUS
  <2>1. \A t \in SUBSET S : g[t] = f[t]
    BY <1>7
  <2> HIDE DEF g
  <2> QED BY <2>1 DEF Summed
<1>9. Sums(w, g, S)
  <2>1. g = [s \in SUBSET S |-> g[s]]
    OBVIOUS
  <2> HIDE DEF g
  <2> QED BY <1>8, <2>1 DEF Sums
<1> QED BY <1>9

\* SumFunctionOnSet is the value of such a function at the whole set.
LEMMA SumIsSums ==
    ASSUME NEW S, IsFiniteSet(S), NEW w
    PROVE  \E f : Sums(w, f, S) /\ SumFunctionOnSet(w, S) = f[S]
<1>1. SumFunctionOnSet(w, S) = (CHOOSE f : Sums(w, f, S))[S]
  BY DEF SumFunctionOnSet, FoldFunctionOnSet, MapThenFoldSet, Sums, Summed, Chosen
<1>2. Sums(w, CHOOSE f : Sums(w, f, S), S)
  BY SumsExist
<1> QED BY <1>1, <1>2
-----------------------------------------------------------------------------
(* Facts about a function f that sums w over the subsets of S.              *)

\* What it is at a subset, by its definition.
LEMMA SumsUnfold ==
    ASSUME NEW S, NEW w, NEW f, Sums(w, f, S), NEW s \in SUBSET S
    PROVE  f[s] = Summed(w, f, s)
BY DEF Sums

\* Only the summed values matter.
LEMMA SumsAgree ==
    ASSUME NEW S, IsFiniteSet(S), NEW w, NEW v, \A c \in S : w[c] = v[c],
           NEW f, Sums(w, f, S), NEW R, S \subseteq R, NEW g, Sums(v, g, R)
    PROVE  \A s \in SUBSET S : f[s] = g[s]
<1> DEFINE F == {s \in SUBSET S : f[s] # g[s]}
<1> SUFFICES ASSUME F # {} PROVE FALSE
  OBVIOUS
<1>1. PICK s \in F : \A t \in F : t \subseteq s => t = s
  <2>1. F \in SUBSET (SUBSET S)
    OBVIOUS
  <2> HIDE DEF F
  <2> QED BY <2>1, SmallestSubset
<1>2. f[s] = Summed(w, f, s) /\ g[s] = Summed(v, g, s)
  BY SumsUnfold
<1>3. s # {}
  BY <1>1, <1>2 DEF Summed
<1> DEFINE x == Chosen(s)
<1>4. x \in s
  BY <1>3, ChosenIsMember
<1>5. f[s \ {x}] = g[s \ {x}]
  BY <1>1, <1>4
<1>6. w[x] = v[x]
  BY <1>4
<1> QED BY <1>1, <1>2, <1>3, <1>5, <1>6 DEF Summed

\* Sums of integers are integers.
LEMMA SumsAreIntegers ==
    ASSUME NEW S, IsFiniteSet(S), NEW w, \A c \in S : w[c] \in Int,
           NEW f, Sums(w, f, S)
    PROVE  \A s \in SUBSET S : f[s] \in Int
<1> DEFINE F == {s \in SUBSET S : f[s] \notin Int}
<1> SUFFICES ASSUME F # {} PROVE FALSE
  OBVIOUS
<1>1. PICK s \in F : \A t \in F : t \subseteq s => t = s
  <2>1. F \in SUBSET (SUBSET S)
    OBVIOUS
  <2> HIDE DEF F
  <2> QED BY <2>1, SmallestSubset
<1>2. f[s] = Summed(w, f, s)
  BY SumsUnfold
<1>3. s # {}
  BY <1>1, <1>2 DEF Summed
<1> DEFINE x == Chosen(s)
<1>4. x \in s
  BY <1>3, ChosenIsMember
<1>5. f[s \ {x}] \in Int
  BY <1>1, <1>4
<1> QED BY <1>1, <1>2, <1>3, <1>4, <1>5 DEF Summed

\* The order of summation does not matter.
LEMMA SumsRemove ==
    ASSUME NEW S, IsFiniteSet(S), NEW w, \A c \in S : w[c] \in Int,
           NEW f, Sums(w, f, S), NEW r \in SUBSET S, NEW z \in r
    PROVE  f[r] = w[z] + f[r \ {z}]
<1> DEFINE F == {s \in SUBSET S : \E y \in s : f[s] # w[y] + f[s \ {y}]}
<1> SUFFICES ASSUME F # {} PROVE FALSE
  OBVIOUS
<1>1. PICK s \in F : \A t \in F : t \subseteq s => t = s
  <2>1. F \in SUBSET (SUBSET S)
    OBVIOUS
  <2> HIDE DEF F
  <2> QED BY <2>1, SmallestSubset
<1>2. PICK y \in s : f[s] # w[y] + f[s \ {y}]
  OBVIOUS
<1> DEFINE x == Chosen(s)
<1>3. x \in s
  BY <1>2, ChosenIsMember
<1>4. f[s] = w[x] + f[s \ {x}]
  <2>1. f[s] = Summed(w, f, s)
    BY SumsUnfold
  <2>2. s # {}
    BY <1>2
  <2> QED BY <2>1, <2>2 DEF Summed
<1>5. x # y
  BY <1>2, <1>4
<1>6. f[s \ {x}] = w[y] + f[(s \ {x}) \ {y}]
  <2>1. s \ {x} \in SUBSET S /\ s \ {x} \notin F /\ y \in s \ {x}
    BY <1>1, <1>3, <1>5
  <2> HIDE DEF x
  <2> QED BY <2>1
<1>7. f[s \ {y}] = w[x] + f[(s \ {y}) \ {x}]
  <2>1. s \ {y} \in SUBSET S /\ s \ {y} \notin F /\ x \in s \ {y}
    BY <1>1, <1>3, <1>5
  <2> HIDE DEF x
  <2> QED BY <2>1
<1>8. (s \ {x}) \ {y} = (s \ {y}) \ {x}
  OBVIOUS
<1>9. w[x] \in Int /\ w[y] \in Int /\ f[(s \ {x}) \ {y}] \in Int
  <2>1. x \in S /\ y \in S /\ (s \ {x}) \ {y} \in SUBSET S
    BY <1>3
  <2> QED BY <2>1, SumsAreIntegers
<1>10. f[(s \ {x}) \ {y}] = f[(s \ {y}) \ {x}]
  BY <1>8
<1>11. f[s] = w[y] + f[s \ {y}]
  <2> HIDE DEF x
  <2> QED BY <1>4, <1>6, <1>7, <1>9, <1>10
<1> QED BY <1>2, <1>11

-----------------------------------------------------------------------------
(* What is known of a sum.                                                  *)

\* A sum of integers is an integer, and of nothing 0.
THEOREM SumType ==
    ASSUME NEW S, IsFiniteSet(S), NEW w, \A c \in S : w[c] \in Int
    PROVE  SumFunctionOnSet(w, S) \in Int
BY SumIsSums, SumsAreIntegers

\* The sum over no elements is zero.
THEOREM SumEmpty ==
    ASSUME NEW w
    PROVE  SumFunctionOnSet(w, {}) = 0
<1>1. IsFiniteSet({})
  BY FS_EmptySet
<1>2. PICK f : Sums(w, f, {}) /\ SumFunctionOnSet(w, {}) = f[{}]
  BY <1>1, SumIsSums
<1> QED BY <1>2, SumsUnfold DEF Summed

\* A sum depends on the values summed only.
THEOREM SumAgree ==
    ASSUME NEW S, IsFiniteSet(S), NEW w, NEW v, \A c \in S : w[c] = v[c]
    PROVE  SumFunctionOnSet(w, S) = SumFunctionOnSet(v, S)
<1>1. PICK f : Sums(w, f, S) /\ SumFunctionOnSet(w, S) = f[S]
  BY SumIsSums
<1>2. PICK g : Sums(v, g, S) /\ SumFunctionOnSet(v, S) = g[S]
  BY SumIsSums
<1> QED BY <1>1, <1>2, SumsAgree

\* Taking an element out takes its value out.
THEOREM SumRemove ==
    ASSUME NEW S, IsFiniteSet(S), NEW w, \A c \in S : w[c] \in Int, NEW x \in S
    PROVE  SumFunctionOnSet(w, S) = w[x] + SumFunctionOnSet(w, S \ {x})
<1>1. PICK f : Sums(w, f, S) /\ SumFunctionOnSet(w, S) = f[S]
  BY SumIsSums
<1>2. IsFiniteSet(S \ {x})
  BY FS_RemoveElement
<1>3. PICK g : Sums(w, g, S \ {x}) /\ SumFunctionOnSet(w, S \ {x}) = g[S \ {x}]
  BY <1>2, SumIsSums
<1>4. \A s \in SUBSET (S \ {x}) : g[s] = f[s]
  <2>1. Sums(w, f, S) /\ Sums(w, g, S \ {x}) /\ S \ {x} \subseteq S
    BY <1>1, <1>3
  <2>2. \A c \in S \ {x} : w[c] = w[c]
    OBVIOUS
  <2> QED BY ONLY <1>2, <2>1, <2>2, SumsAgree
<1>5. f[S] = w[x] + f[S \ {x}]
  <2>1. Sums(w, f, S) /\ S \in SUBSET S
    BY <1>1
  <2> QED BY ONLY <2>1, SumsRemove, IsFiniteSet(S), \A c \in S : w[c] \in Int, x \in S
<1> QED BY <1>1, <1>3, <1>4, <1>5

\* Putting an element in puts its value in.
THEOREM SumAdd ==
    ASSUME NEW S, IsFiniteSet(S), NEW x, x \notin S,
           NEW w, \A c \in S \cup {x} : w[c] \in Int
    PROVE  SumFunctionOnSet(w, S \cup {x}) = w[x] + SumFunctionOnSet(w, S)
<1>1. IsFiniteSet(S \cup {x}) /\ (S \cup {x}) \ {x} = S
  BY FS_AddElement
<1> QED BY <1>1, SumRemove

\* Changing one value changes the sum by as much.
THEOREM SumUpdate ==
    ASSUME NEW S, IsFiniteSet(S), NEW x \in S,
           NEW w, \A c \in S : w[c] \in Int,
           NEW v, v[x] \in Int, \A c \in S \ {x} : v[c] = w[c]
    PROVE  SumFunctionOnSet(v, S) = SumFunctionOnSet(w, S) + v[x] - w[x]
<1>1. IsFiniteSet(S \ {x})
  BY FS_RemoveElement
<1>2. SumFunctionOnSet(w, S) = w[x] + SumFunctionOnSet(w, S \ {x})
  BY SumRemove
<1>3. SumFunctionOnSet(v, S) = v[x] + SumFunctionOnSet(v, S \ {x})
  <2>1. \A c \in S : v[c] \in Int
    OBVIOUS
  <2> QED BY <2>1, SumRemove
<1>4. SumFunctionOnSet(v, S \ {x}) = SumFunctionOnSet(w, S \ {x})
  BY <1>1, SumAgree
<1>5. SumFunctionOnSet(w, S \ {x}) \in Int
  BY <1>1, SumType
<1>6. w[x] \in Int
  OBVIOUS
<1> QED BY <1>2, <1>3, <1>4, <1>5, <1>6

\* Smaller values have a smaller sum.
THEOREM SumMonotone ==
    ASSUME NEW S, IsFiniteSet(S),
           NEW w, NEW v, \A c \in S : w[c] \in Int /\ v[c] \in Int /\ v[c] <= w[c]
    PROVE  SumFunctionOnSet(v, S) <= SumFunctionOnSet(w, S)
<1> DEFINE F == {s \in SUBSET S : ~ (SumFunctionOnSet(v, s) <= SumFunctionOnSet(w, s))}
<1> SUFFICES ASSUME F # {} PROVE FALSE
  OBVIOUS
<1>1. PICK s \in F : \A t \in F : t \subseteq s => t = s
  <2>1. F \in SUBSET (SUBSET S)
    OBVIOUS
  <2> HIDE DEF F
  <2> QED BY <2>1, SmallestSubset
<1>2. s # {}
  BY SumEmpty
<1>3. PICK x \in s : TRUE
  BY <1>2
<1>4. IsFiniteSet(s) /\ IsFiniteSet(s \ {x})
  BY FS_Subset, FS_RemoveElement
<1>5. SumFunctionOnSet(v, s \ {x}) <= SumFunctionOnSet(w, s \ {x})
  BY <1>1, <1>3
<1>6. /\ SumFunctionOnSet(v, s) = v[x] + SumFunctionOnSet(v, s \ {x})
      /\ SumFunctionOnSet(w, s) = w[x] + SumFunctionOnSet(w, s \ {x})
  BY <1>3, <1>4, SumRemove
<1>7. SumFunctionOnSet(v, s \ {x}) \in Int /\ SumFunctionOnSet(w, s \ {x}) \in Int
  BY <1>3, <1>4, SumType
<1>8. v[x] \in Int /\ w[x] \in Int /\ v[x] <= w[x]
  BY <1>3
<1> QED BY <1>5, <1>6, <1>7, <1>8

\* Nothing adds up to nothing.
THEOREM SumOfZeros ==
    ASSUME NEW S, IsFiniteSet(S), NEW w, \A c \in S : w[c] = 0
    PROVE  SumFunctionOnSet(w, S) = 0
<1> DEFINE F == {s \in SUBSET S : SumFunctionOnSet(w, s) # 0}
<1> SUFFICES ASSUME F # {} PROVE FALSE
  OBVIOUS
<1>1. PICK s \in F : \A t \in F : t \subseteq s => t = s
  <2>1. F \in SUBSET (SUBSET S)
    OBVIOUS
  <2> HIDE DEF F
  <2> QED BY <2>1, SmallestSubset
<1>2. s # {}
  BY SumEmpty
<1>3. PICK x \in s : TRUE
  BY <1>2
<1>4. IsFiniteSet(s)
  BY FS_Subset
<1>5. SumFunctionOnSet(w, s \ {x}) = 0
  BY <1>1, <1>3
<1>6. SumFunctionOnSet(w, s) = w[x] + SumFunctionOnSet(w, s \ {x})
  BY <1>3, <1>4, SumRemove
<1> QED BY <1>3, <1>5, <1>6

-----------------------------------------------------------------------------
\* The layer above has half the nodes, rounded up, and is shorter unless it is the root.
LEMMA AboveShape ==
    ASSUME NEW layer, Len(layer) \in Nat \ {0}
    PROVE  /\ Len(Above(layer)) = (Len(layer) + 1) \div 2
           /\ Len(Above(layer)) \in Nat \ {0}
           /\ Len(layer) > 1 => Len(Above(layer)) < Len(layer)
           /\ \A i \in 1 .. Len(Above(layer)) :
                Above(layer)[i] = hashPair(layer[2 * i - 1],
                                           layer[IF 2 * i <= Len(layer) THEN 2 * i ELSE 2 * i - 1])
<1>1. (Len(layer) + 1) \div 2 \in Nat \ {0} /\ (Len(layer) > 1 => (Len(layer) + 1) \div 2 < Len(layer))
  OBVIOUS
<1>2. Len(Above(layer)) = (Len(layer) + 1) \div 2
  BY <1>1 DEF Above
<1>3. ASSUME NEW i \in 1 .. (Len(layer) + 1) \div 2
      PROVE  Above(layer)[i] = hashPair(layer[2 * i - 1],
                                           layer[IF 2 * i <= Len(layer) THEN 2 * i ELSE 2 * i - 1])
  BY DEF Above
<1> QED BY <1>1, <1>2, <1>3

IsLayers(f, leaves) ==
    f = [k \in 1 .. Len(leaves) |-> IF k = 1 THEN leaves ELSE Above(f[k - 1])]

\* There is a function from heights to layers, as Layers defines it.
LEMMA LayersExist ==
    ASSUME NEW leaves, Len(leaves) \in Nat
    PROVE  \E f : IsLayers(f, leaves)
<1> DEFINE N == Len(leaves)
           Upto(f, n) == \A k \in 1 .. N : k <= n =>
                            f[k] = IF k = 1 THEN leaves ELSE Above(f[k - 1])
           Missing == {n \in Nat : ~ \E f : Upto(f, n)}
<1>1. \E f : Upto(f, 0)
  OBVIOUS
<1>2. ASSUME NEW n \in Nat, NEW f, Upto(f, n)
      PROVE  \E g : Upto(g, n + 1)
  <2> DEFINE g == [k \in 1 .. N |-> IF k = 1 THEN leaves ELSE Above(f[k - 1])]
  <2> SUFFICES ASSUME NEW k \in 1 .. N, k <= n + 1
               PROVE  g[k] = IF k = 1 THEN leaves ELSE Above(g[k - 1])
    OBVIOUS
  <2>1. CASE k = 1
    BY <2>1
  <2>2. CASE k # 1
    <3>1. k - 1 \in 1 .. N /\ k - 1 <= n
      BY <2>2
    <3>2. g[k - 1] = f[k - 1]
      BY <3>1, <1>2
    <3>3. g[k] = Above(f[k - 1])
      BY <2>2
    <3> HIDE DEF g
    <3> QED BY <2>2, <3>2, <3>3
  <2> QED BY <2>1, <2>2
<1>3. Missing = {}
  <2> SUFFICES ASSUME Missing # {} PROVE FALSE
    OBVIOUS
  <2>1. PICK n \in Missing : \A m \in Missing : n <= m
    <3>1. Missing \in SUBSET Nat
      OBVIOUS
    <3> HIDE DEF Missing
    <3> QED BY <3>1, LeastExists
  <2>2. n # 0
    BY <1>1, <2>1
  <2>3. n - 1 \in Nat /\ n - 1 \notin Missing
    <3>1. n - 1 \in Nat /\ ~(n <= n - 1)
      BY <2>2
    <3> HIDE DEF Missing
    <3> QED BY <2>1, <3>1
  <2>4. PICK f : Upto(f, n - 1)
    BY <2>3
  <2>5. \E g : Upto(g, (n - 1) + 1)
    <3> HIDE DEF Upto
    <3> QED BY <2>3, <2>4, <1>2
  <2>6. (n - 1) + 1 = n
    BY <2>3
  <2> QED BY <2>1, <2>5, <2>6
<1>4. PICK f : Upto(f, N)
  BY <1>3
<1> DEFINE g == [k \in 1 .. N |-> f[k]]
<1>5. ASSUME NEW k \in 1 .. N PROVE g[k] = IF k = 1 THEN leaves ELSE Above(g[k - 1])
  <2>1. f[k] = IF k = 1 THEN leaves ELSE Above(f[k - 1])
    BY <1>4
  <2>2. k # 1 => k - 1 \in 1 .. N
    OBVIOUS
  <2> QED BY <2>1, <2>2
<1>6. IsLayers(g, leaves)
  <2>1. g = [k \in 1 .. N |-> g[k]]
    OBVIOUS
  <2> HIDE DEF g
  <2> QED BY <1>5, <2>1 DEF IsLayers
<1> QED BY <1>6

Height(f, leaves) == CHOOSE k \in 1 .. Len(leaves) : Len(f[k]) = 1

\* Layers is that function, up to the first layer of one node.
LEMMA LayersAre ==
    ASSUME NEW leaves, Len(leaves) \in Nat \ {0}
    PROVE  \E f, h :
              /\ h \in 1 .. Len(leaves) /\ Len(f[h]) = 1
              /\ f[1] = leaves
              /\ \A k \in 1 .. h : Len(f[k]) \in Nat \ {0}
              /\ \A k \in 2 .. h : f[k] = Above(f[k - 1])
              /\ Layers(leaves) = [k \in 1 .. h |-> f[k]]
<1> DEFINE N == Len(leaves)
           f == CHOOSE g : IsLayers(g, leaves)
           h == Height(f, leaves)
<1>1. IsLayers(f, leaves)
  BY LayersExist
<1>2. Layers(leaves) = [k \in 1 .. h |-> f[k]]
  BY DEF Layers, IsLayers, Height
<1> HIDE DEF f
<1>3. f[1] = leaves /\ \A k \in 2 .. N : f[k] = Above(f[k - 1])
  <2>1. ASSUME NEW k \in 1 .. N PROVE f[k] = IF k = 1 THEN leaves ELSE Above(f[k - 1])
    BY <1>1 DEF IsLayers
  <2> QED BY <2>1
<1> DEFINE size(k) == Len(f[k])
<1>4. \A k \in 1 .. N : size(k) \in Nat /\ 1 <= size(k) /\ size(k) <= N - k + 1
  <2> DEFINE Good(k) == size(k) \in Nat /\ 1 <= size(k) /\ size(k) <= N - k + 1
             Bad == {k \in 1 .. N : ~Good(k)}
  <2> SUFFICES ASSUME Bad # {} PROVE FALSE
    OBVIOUS
  <2>1. PICK k \in Bad : \A m \in Bad : k <= m
    <3>1. Bad \in SUBSET Nat
      OBVIOUS
    <3> HIDE DEF Bad
    <3> QED BY <3>1, LeastExists
  <2>2. Good(1)
    BY <1>3
  <2>3. k \in 2 .. N
    <3> HIDE DEF Good
    <3> QED BY <2>1, <2>2
  <2>4. Good(k - 1)
    <3>1. k - 1 \in 1 .. N /\ ~(k <= k - 1)
      BY <2>3
    <3> HIDE DEF Good
    <3> QED BY <2>1, <3>1
  <2>5. f[k] = Above(f[k - 1])
    BY <1>3, <2>3
  <2>6. /\ size(k) = (size(k - 1) + 1) \div 2
        /\ size(k - 1) > 1 => size(k) < size(k - 1)
    <3>1. Len(f[k - 1]) \in Nat \ {0}
      BY <2>4
    <3> QED BY <2>5, <3>1, AboveShape
  <2>7. Good(k)
    <3> HIDE DEF size
    <3> QED BY <2>3, <2>4, <2>6
  <2> HIDE DEF Good
  <2> QED BY <2>1, <2>7
<1>5. Len(f[N]) = 1
  <2>1. size(N) \in Nat /\ 1 <= size(N) /\ size(N) <= N - N + 1
    BY <1>4
  <2>2. size(N) = 1
    <3> HIDE DEF size
    <3> QED BY <2>1
  <2> QED BY <2>2
<1>6. h \in 1 .. N /\ Len(f[h]) = 1
  BY <1>5 DEF Height
<1> QED BY <1>2, <1>3, <1>4, <1>6

IsTree(ls, leaves) ==
    /\ Len(ls) \in Nat \ {0}
    /\ ls[1] = leaves
    /\ Len(ls[Len(ls)]) = 1
    /\ Root(leaves) = ls[Len(ls)][1]
    /\ \A k \in 1 .. Len(ls) : Len(ls[k]) \in Nat \ {0}
    /\ \A k \in 2 .. Len(ls) : ls[k] = Above(ls[k - 1])

\* The tree over a list of leaves: the leaves below, each layer above the last, one root.
THEOREM TreeShape ==
    ASSUME NEW leaves, Len(leaves) \in Nat \ {0}
    PROVE  IsTree(Layers(leaves), leaves)
<1> DEFINE ls == Layers(leaves)
<1>1. PICK f, h :
              /\ h \in 1 .. Len(leaves) /\ Len(f[h]) = 1
              /\ f[1] = leaves
              /\ \A k \in 1 .. h : Len(f[k]) \in Nat \ {0}
              /\ \A k \in 2 .. h : f[k] = Above(f[k - 1])
              /\ ls = [k \in 1 .. h |-> f[k]]
  BY LayersAre
<1>2. Root(leaves) = ls[Len(ls)][1]
  BY DEF Root
<1> HIDE DEF ls
<1>3. h \in Nat \ {0} /\ Len(ls) = h /\ \A k \in 1 .. h : ls[k] = f[k]
  BY <1>1
<1>4. ASSUME NEW k \in 2 .. h PROVE ls[k] = Above(ls[k - 1])
  <2>1. k \in 1 .. h /\ k - 1 \in 1 .. h
    BY <1>3
  <2> QED BY <1>1, <1>3, <2>1
<1>5. ls[1] = leaves /\ Len(ls[h]) = 1 /\ \A k \in 1 .. h : Len(ls[k]) \in Nat \ {0}
  BY <1>1, <1>3
<1>6. IsTree(ls, leaves)
  BY <1>2, <1>3, <1>4, <1>5 DEF IsTree
<1> QED BY <1>6 DEF ls

-----------------------------------------------------------------------------
IsClimb(f, leaf, path) ==
    f = [k \in 0 .. Len(path) |->
            IF k = 0 THEN leaf
            ELSE IF path[k].isRight THEN hashPair(f[k - 1], path[k].sibling)
                 ELSE hashPair(path[k].sibling, f[k - 1])]

\* There is a function that hashes a leaf along a path, as computeMerkleRoot defines it.
LEMMA ClimbsExist ==
    ASSUME NEW leaf, NEW path, Len(path) \in Nat
    PROVE  \E f : IsClimb(f, leaf, path)
<1> DEFINE N == Len(path)
           Next(f, k) == IF path[k].isRight THEN hashPair(f[k - 1], path[k].sibling)
                         ELSE hashPair(path[k].sibling, f[k - 1])
           Upto(f, n) == \A k \in 0 .. N : k <= n => f[k] = IF k = 0 THEN leaf ELSE Next(f, k)
           Missing == {n \in Nat : ~ \E f : Upto(f, n)}
<1>1. \E f : Upto(f, 0)
  <2>1. Upto([k \in 0 .. N |-> leaf], 0)
    OBVIOUS
  <2> HIDE DEF Upto
  <2> QED BY <2>1
<1>2. ASSUME NEW n \in Nat, NEW f, Upto(f, n)
      PROVE  \E g : Upto(g, n + 1)
  <2> DEFINE g == [k \in 0 .. N |-> IF k = 0 THEN leaf ELSE Next(f, k)]
  <2> SUFFICES ASSUME NEW k \in 0 .. N, k <= n + 1
               PROVE  g[k] = IF k = 0 THEN leaf ELSE Next(g, k)
    OBVIOUS
  <2>1. CASE k = 0
    BY <2>1
  <2>2. CASE k # 0
    <3>1. k - 1 \in 0 .. N /\ k - 1 <= n
      BY <2>2
    <3>2. g[k - 1] = f[k - 1]
      BY <3>1, <1>2
    <3>3. g[k] = Next(f, k)
      BY <2>2
    <3> HIDE DEF g
    <3> QED BY <2>2, <3>2, <3>3
  <2> QED BY <2>1, <2>2
<1>3. Missing = {}
  <2> SUFFICES ASSUME Missing # {} PROVE FALSE
    OBVIOUS
  <2>1. PICK n \in Missing : \A m \in Missing : n <= m
    <3>1. Missing \in SUBSET Nat
      OBVIOUS
    <3> HIDE DEF Missing
    <3> QED BY <3>1, LeastExists
  <2>2. n # 0
    BY <1>1, <2>1
  <2>3. n - 1 \in Nat /\ n - 1 \notin Missing
    <3>1. n - 1 \in Nat /\ ~(n <= n - 1)
      BY <2>2
    <3> HIDE DEF Missing
    <3> QED BY <2>1, <3>1
  <2>4. PICK f : Upto(f, n - 1)
    BY <2>3
  <2>5. \E g : Upto(g, (n - 1) + 1)
    <3> HIDE DEF Upto
    <3> QED BY <2>3, <2>4, <1>2
  <2>6. (n - 1) + 1 = n
    BY <2>3
  <2> QED BY <2>1, <2>5, <2>6
<1>4. PICK f : Upto(f, N)
  BY <1>3
<1> DEFINE g == [k \in 0 .. N |-> f[k]]
<1>5. ASSUME NEW k \in 0 .. N PROVE g[k] = IF k = 0 THEN leaf ELSE Next(g, k)
  <2>1. f[k] = IF k = 0 THEN leaf ELSE Next(f, k)
    BY <1>4
  <2>2. k # 0 => k - 1 \in 0 .. N
    OBVIOUS
  <2> QED BY <2>1, <2>2
<1>6. IsClimb(g, leaf, path)
  <2>1. g = [k \in 0 .. N |-> g[k]]
    OBVIOUS
  <2> HIDE DEF g
  <2> QED BY <1>5, <2>1 DEF IsClimb
<1> QED BY <1>6

\* computeMerkleRoot gives the value of it at the end of the path.
LEMMA ClimbShape ==
    ASSUME NEW leaf, NEW path, Len(path) \in Nat
    PROVE  \E up :
              /\ up[0] = leaf
              /\ computeMerkleRoot(leaf, path) = up[Len(path)]
              /\ \A k \in 1 .. Len(path) :
                    up[k] = IF path[k].isRight THEN hashPair(up[k - 1], path[k].sibling)
                            ELSE hashPair(path[k].sibling, up[k - 1])
<1> DEFINE up == CHOOSE f : IsClimb(f, leaf, path)
<1>1. computeMerkleRoot(leaf, path) = up[Len(path)]
  BY DEF computeMerkleRoot, IsClimb
<1>2. IsClimb(up, leaf, path)
  BY ClimbsExist
<1> HIDE DEF up
<1>3. ASSUME NEW k \in 0 .. Len(path)
      PROVE  up[k] = IF k = 0 THEN leaf
                     ELSE IF path[k].isRight THEN hashPair(up[k - 1], path[k].sibling)
                          ELSE hashPair(path[k].sibling, up[k - 1])
  BY <1>2 DEF IsClimb
<1>4. up[0] = leaf
  BY <1>3
<1>5. ASSUME NEW k \in 1 .. Len(path)
      PROVE  up[k] = IF path[k].isRight THEN hashPair(up[k - 1], path[k].sibling)
                            ELSE hashPair(path[k].sibling, up[k - 1])
  BY <1>3
<1> QED BY <1>1, <1>4, <1>5

-----------------------------------------------------------------------------
\* x is not the hash of two nodes.
NoNode(x) == x[1] # "pair"

\* A pair of hashes is a node.
LEMMA NodesAreNodes ==
    ASSUME NEW l, NEW r PROVE ~NoNode(hashPair(l, r))
BY DEF NoNode, hashPair

\* Who has a path from anything to the root has a node of the tree: going down from the
\* root, path and tree hash the same pairs, up to where the path ends; it cannot be the
\* longer one, since no leaf is a node (compute_merkle_root, computeMerkleRoot).
THEOREM MerkleNodes ==
    ASSUME NEW leaves, Len(leaves) \in Nat \ {0},
           \A i \in 1 .. Len(leaves) : NoNode(leaves[i]),
           NEW leaf, NEW path, Len(path) \in Nat,
           computeMerkleRoot(leaf, path) = Root(leaves)
    PROVE  \E k \in 1 .. Len(Layers(leaves)) : \E i \in 1 .. Len(Layers(leaves)[k]) :
              Layers(leaves)[k][i] = leaf
<1> DEFINE ls == Layers(leaves)
           h == Len(ls)
           n == Len(path)
<1>0. IsTree(ls, leaves)
  BY TreeShape
<1> HIDE DEF ls
<1>1. /\ h \in Nat \ {0} /\ ls[1] = leaves /\ Len(ls[h]) = 1 /\ Root(leaves) = ls[h][1]
      /\ \A k \in 1 .. h : Len(ls[k]) \in Nat \ {0}
      /\ \A k \in 2 .. h : ls[k] = Above(ls[k - 1])
  BY <1>0 DEF IsTree
<1>2. PICK up :
        /\ up[0] = leaf
        /\ computeMerkleRoot(leaf, path) = up[n]
        /\ \A k \in 1 .. n :
              up[k] = IF path[k].isRight THEN hashPair(up[k - 1], path[k].sibling)
                      ELSE hashPair(path[k].sibling, up[k - 1])
  BY ClimbShape
<1> DEFINE In(x, layer) == \E i \in 1 .. Len(layer) : layer[i] = x
<1>3. ASSUME NEW k \in 2 .. h, NEW x, In(x, ls[k])
      PROVE  ~NoNode(x) /\ \A l, r : x = hashPair(l, r) => In(l, ls[k - 1]) /\ In(r, ls[k - 1])
  <2> DEFINE below == ls[k - 1]
  <2>1. k - 1 \in 1 .. h /\ ls[k] = Above(below)
    BY <1>1
  <2>2. Len(below) \in Nat \ {0}
    BY <1>1, <2>1
  <2> HIDE DEF below
  <2>3. PICK i \in 1 .. Len(Above(below)) : Above(below)[i] = x
    BY <1>3, <2>1
  <2> DEFINE other == IF 2 * i <= Len(below) THEN 2 * i ELSE 2 * i - 1
  <2>4. x = hashPair(below[2 * i - 1], below[other]) /\ i \in 1 .. (Len(below) + 1) \div 2
    BY <2>2, <2>3, AboveShape
  <2>5. 2 * i - 1 \in 1 .. Len(below) /\ other \in 1 .. Len(below)
    BY <2>2, <2>4
  <2> HIDE DEF other
  <2>6. ASSUME NEW l, NEW r, x = hashPair(l, r) PROVE In(l, below) /\ In(r, below)
    <3>1. l = below[2 * i - 1] /\ r = below[other]
      <4>1. hashPair(l, r) = hashPair(below[2 * i - 1], below[other])
        BY <2>4, <2>6
      <4> QED BY <4>1 DEF hashPair
    <3> QED BY <2>5, <3>1
  <2> QED BY <2>4, <2>6, NodesAreNodes DEF below
<1>4. ASSUME NEW k \in 1 .. n
      PROVE  /\ ~NoNode(up[k])
             /\ \E s : up[k] = hashPair(up[k - 1], s) \/ up[k] = hashPair(s, up[k - 1])
  <2>1. up[k] = hashPair(up[k - 1], path[k].sibling) \/ up[k] = hashPair(path[k].sibling, up[k - 1])
    BY <1>2
  <2> QED BY <2>1, NodesAreNodes
<1> DEFINE Found(j) == In(up[n - j], ls[h - j])
           Bad == {j \in Nat : j <= n /\ j < h /\ ~Found(j)}
<1>5. Bad = {}
  <2> SUFFICES ASSUME Bad # {} PROVE FALSE
    OBVIOUS
  <2>1. PICK j \in Bad : \A m \in Bad : j <= m
    <3>1. Bad \in SUBSET Nat
      OBVIOUS
    <3> HIDE DEF Bad
    <3> QED BY <3>1, LeastExists
  <2>2. Found(0)
    <3>1. n - 0 = n /\ h - 0 = h
      BY <1>1
    <3>2. ls[h][1] = up[n] /\ 1 \in 1 .. Len(ls[h])
      BY <1>1, <1>2
    <3> QED BY <3>1, <3>2
  <2>3. j \in Nat /\ j <= n /\ j < h /\ ~Found(j) /\ j # 0
    <3> HIDE DEF Found
    <3> QED BY <2>1, <2>2
  <2>4. Found(j - 1)
    <3>1. j - 1 \in Nat /\ j - 1 <= n /\ j - 1 < h /\ ~(j <= j - 1)
      BY <1>1, <2>3
    <3> HIDE DEF Found
    <3> QED BY <2>1, <3>1
  <2> DEFINE a == n - (j - 1)
             b == h - (j - 1)
  <2>5. a \in 1 .. n /\ b \in 2 .. h /\ a - 1 = n - j /\ b - 1 = h - j
    BY <1>1, <2>3
  <2> HIDE DEF In
  <2>6. In(up[a], ls[b])
    BY <2>4
  <2> HIDE DEF a, b, Found
  <2>7. PICK s : up[a] = hashPair(up[a - 1], s) \/ up[a] = hashPair(s, up[a - 1])
    BY <1>4, <2>5
  <2>8. In(up[a - 1], ls[b - 1])
    BY <1>3, <2>5, <2>6, <2>7
  <2>9. Found(j)
    BY <2>5, <2>8 DEF Found
  <2> QED BY <2>3, <2>9
<1>6. \A j \in Nat : j <= n /\ j < h => Found(j)
  <2> HIDE DEF Found
  <2> QED BY <1>5
<1>7. CASE n > h - 1
  <2>1. Found(h - 1) /\ n - (h - 1) \in 1 .. n /\ h - (h - 1) = 1
    BY <1>1, <1>6, <1>7
  <2>2. In(up[n - (h - 1)], leaves)
    BY <1>1, <2>1
  <2>3. NoNode(up[n - (h - 1)])
    BY <2>2
  <2> QED BY <1>4, <2>1, <2>3
<1>8. CASE n <= h - 1
  <2>1. n \in Nat /\ n <= n /\ n < h /\ h - n \in 1 .. h /\ n - n = 0
    BY <1>1, <1>8
  <2>2. Found(n)
    <3> HIDE DEF Found
    <3> QED BY <1>6, <2>1
  <2>3. In(leaf, ls[h - n])
    BY <1>2, <2>1, <2>2
  <2> HIDE DEF Found
  <2> QED BY <2>1, <2>3 DEF ls
<1> QED BY <1>1, <1>7, <1>8

\* A node that is no leaf is a pair.
LEMMA UpperNodes ==
    ASSUME NEW leaves, Len(leaves) \in Nat \ {0},
           NEW k \in 1 .. Len(Layers(leaves)), NEW i \in 1 .. Len(Layers(leaves)[k]),
           NoNode(Layers(leaves)[k][i])
    PROVE  \E j \in 1 .. Len(leaves) : leaves[j] = Layers(leaves)[k][i]
<1> DEFINE ls == Layers(leaves)
<1>0. IsTree(ls, leaves)
  BY TreeShape
<1>1. k \in 1 .. Len(ls) /\ i \in 1 .. Len(ls[k]) /\ NoNode(ls[k][i])
  OBVIOUS
<1> HIDE DEF ls
<1>2. CASE k = 1
  BY <1>0, <1>1, <1>2 DEF IsTree, ls
<1>3. CASE k # 1
  <2> DEFINE below == ls[k - 1]
  <2>1. k \in 2 .. Len(ls) /\ k - 1 \in 1 .. Len(ls)
    BY <1>0, <1>1, <1>3 DEF IsTree
  <2>2. ls[k] = Above(below) /\ Len(below) \in Nat \ {0}
    BY <1>0, <2>1 DEF IsTree
  <2> HIDE DEF below
  <2>3. ~NoNode(Above(below)[i])
    BY <1>1, <2>2, AboveShape, NodesAreNodes
  <2> QED BY <1>1, <2>2, <2>3
<1> QED BY <1>2, <1>3

\* Who has a path from something that is no node to the root has one of the leaves
\* (computeMerkleRoot, verify_proof).
THEOREM MerkleSoundness ==
    ASSUME NEW leaves, Len(leaves) \in Nat \ {0},
           \A i \in 1 .. Len(leaves) : NoNode(leaves[i]),
           NEW leaf, NoNode(leaf),
           NEW path, Len(path) \in Nat,
           computeMerkleRoot(leaf, path) = Root(leaves)
    PROVE  \E i \in 1 .. Len(leaves) : leaves[i] = leaf
<1>1. PICK k \in 1 .. Len(Layers(leaves)) : \E i \in 1 .. Len(Layers(leaves)[k]) :
              Layers(leaves)[k][i] = leaf
  BY MerkleNodes
<1>2. PICK i \in 1 .. Len(Layers(leaves)[k]) : Layers(leaves)[k][i] = leaf
  BY <1>1
<1> QED BY <1>2, UpperNodes

-----------------------------------------------------------------------------
IsAscent(f, i, h) == f = [k \in 1 .. h |-> IF k = 1 THEN i ELSE (f[k - 1] + 1) \div 2]

\* There is a function from heights to places in the layers, as getProof defines it.
LEMMA AscentsExist ==
    ASSUME NEW i, NEW N \in Nat
    PROVE  \E f : IsAscent(f, i, N)
<1> DEFINE Next(f, k) == (f[k - 1] + 1) \div 2
           Upto(f, n) == \A k \in 1 .. N : k <= n => f[k] = IF k = 1 THEN i ELSE Next(f, k)
           Missing == {n \in Nat : ~ \E f : Upto(f, n)}
<1>1. \E f : Upto(f, 0)
  OBVIOUS
<1>2. ASSUME NEW n \in Nat, NEW f, Upto(f, n)
      PROVE  \E g : Upto(g, n + 1)
  <2> DEFINE g == [k \in 1 .. N |-> IF k = 1 THEN i ELSE Next(f, k)]
  <2> SUFFICES ASSUME NEW k \in 1 .. N, k <= n + 1
               PROVE  g[k] = IF k = 1 THEN i ELSE Next(g, k)
    OBVIOUS
  <2>1. CASE k = 1
    BY <2>1
  <2>2. CASE k # 1
    <3>1. k - 1 \in 1 .. N /\ k - 1 <= n
      BY <2>2
    <3>2. g[k - 1] = f[k - 1]
      BY <3>1, <1>2
    <3>3. g[k] = Next(f, k)
      BY <2>2
    <3> HIDE DEF g
    <3> QED BY <2>2, <3>2, <3>3
  <2> QED BY <2>1, <2>2
<1>3. Missing = {}
  <2> SUFFICES ASSUME Missing # {} PROVE FALSE
    OBVIOUS
  <2>1. PICK n \in Missing : \A m \in Missing : n <= m
    <3>1. Missing \in SUBSET Nat
      OBVIOUS
    <3> HIDE DEF Missing
    <3> QED BY <3>1, LeastExists
  <2>2. n # 0
    BY <1>1, <2>1
  <2>3. n - 1 \in Nat /\ n - 1 \notin Missing
    <3>1. n - 1 \in Nat /\ ~(n <= n - 1)
      BY <2>2
    <3> HIDE DEF Missing
    <3> QED BY <2>1, <3>1
  <2>4. PICK f : Upto(f, n - 1)
    BY <2>3
  <2>5. \E g : Upto(g, (n - 1) + 1)
    <3> HIDE DEF Upto
    <3> QED BY <2>3, <2>4, <1>2
  <2>6. (n - 1) + 1 = n
    BY <2>3
  <2> QED BY <2>1, <2>5, <2>6
<1>4. PICK f : Upto(f, N)
  BY <1>3
<1> DEFINE g == [k \in 1 .. N |-> f[k]]
<1>5. ASSUME NEW k \in 1 .. N PROVE g[k] = IF k = 1 THEN i ELSE Next(g, k)
  <2>1. f[k] = IF k = 1 THEN i ELSE Next(f, k)
    BY <1>4
  <2>2. k # 1 => k - 1 \in 1 .. N
    OBVIOUS
  <2> QED BY <2>1, <2>2
<1>6. IsAscent(g, i, N)
  <2>1. g = [k \in 1 .. N |-> g[k]]
    OBVIOUS
  <2> HIDE DEF g
  <2> QED BY <1>5, <2>1 DEF IsAscent
<1> QED BY <1>6

PathStep(layer, n) ==
    IF n % 2 = 1
    THEN [isRight |-> TRUE, sibling |-> layer[IF n < Len(layer) THEN n + 1 ELSE n]]
    ELSE [isRight |-> FALSE, sibling |-> layer[n - 1]]

\* at[k] is where path passes the k-th layer of a tree, from its i-th leaf up.
GoesUp(path, at, ls, i) ==
    /\ Len(path) = Len(ls) - 1
    /\ at[1] = i
    /\ \A k \in 1 .. Len(ls) : at[k] \in 1 .. Len(ls[k])
    /\ \A k \in 2 .. Len(ls) : at[k] = (at[k - 1] + 1) \div 2
    /\ \A k \in 1 .. Len(ls) - 1 : path[k] = PathStep(ls[k], at[k])

\* getProof gives, at every layer but the last, the sibling of the node it passes.
LEMMA PathShape ==
    ASSUME NEW leaves, Len(leaves) \in Nat \ {0}, NEW i \in 1 .. Len(leaves)
    PROVE  \E at : GoesUp(getProof(leaves, i), at, Layers(leaves), i)
<1> DEFINE ls == Layers(leaves)
           path == getProof(leaves, i)
           h == Len(ls)
           at == CHOOSE f : IsAscent(f, i, h)
<1>1. path = [k \in 1 .. h - 1 |-> PathStep(ls[k], at[k])]
  BY DEF getProof, PathStep, IsAscent
<1>0. IsTree(ls, leaves)
  BY TreeShape
<1> HIDE DEF ls, path
<1>2. /\ h \in Nat \ {0} /\ ls[1] = leaves
      /\ \A k \in 1 .. h : Len(ls[k]) \in Nat \ {0}
      /\ \A k \in 2 .. h : ls[k] = Above(ls[k - 1])
  BY <1>0 DEF IsTree
<1>3. IsAscent(at, i, h)
  BY <1>2, AscentsExist
<1> HIDE DEF at
<1>4. ASSUME NEW k \in 1 .. h PROVE at[k] = IF k = 1 THEN i ELSE (at[k - 1] + 1) \div 2
  BY <1>3 DEF IsAscent
<1>5. at[1] = i /\ \A k \in 2 .. h : at[k] = (at[k - 1] + 1) \div 2
  BY <1>2, <1>4
<1>6. \A k \in 1 .. h : at[k] \in 1 .. Len(ls[k])
  <2> DEFINE Good(k) == at[k] \in 1 .. Len(ls[k])
             Bad == {k \in 1 .. h : ~Good(k)}
  <2> SUFFICES ASSUME Bad # {} PROVE FALSE
    OBVIOUS
  <2>1. PICK k \in Bad : \A m \in Bad : k <= m
    <3>1. Bad \in SUBSET Nat
      OBVIOUS
    <3> HIDE DEF Bad
    <3> QED BY <3>1, LeastExists
  <2>2. Good(1)
    BY <1>2, <1>5
  <2>3. k \in 2 .. h
    <3> HIDE DEF Good
    <3> QED BY <2>1, <2>2
  <2>4. Good(k - 1) /\ k - 1 \in 1 .. h
    <3>1. k - 1 \in 1 .. h /\ ~(k <= k - 1)
      BY <2>3
    <3> HIDE DEF Good
    <3> QED BY <2>1, <3>1
  <2> DEFINE below == ls[k - 1]
             n == at[k - 1]
  <2>5. n \in 1 .. Len(below) /\ Len(below) \in Nat \ {0} /\ at[k] = (n + 1) \div 2
        /\ ls[k] = Above(below)
    BY <1>2, <1>5, <2>3, <2>4
  <2> HIDE DEF below, n
  <2>6. Len(ls[k]) = (Len(below) + 1) \div 2
    BY <2>5, AboveShape
  <2>7. Good(k)
    BY <2>5, <2>6
  <2> HIDE DEF Good
  <2> QED BY <2>1, <2>7
<1>7. /\ Len(path) = h - 1
      /\ \A k \in 1 .. h - 1 : path[k] = PathStep(ls[k], at[k])
  BY <1>1, <1>2
<1>8. GoesUp(path, at, ls, i)
  BY <1>5, <1>6, <1>7 DEF GoesUp
<1> QED BY <1>8 DEF path, ls

\* Where the parent of the n-th of s nodes is, and which of its two children that is.
LEMMA Halves ==
    ASSUME NEW n \in Nat, NEW s \in Nat, 1 <= n, n <= s
    PROVE  /\ (n + 1) \div 2 \in 1 .. (s + 1) \div 2
           /\ n % 2 = 1 => 2 * ((n + 1) \div 2) = n + 1
           /\ n % 2 # 1 => 2 * ((n + 1) \div 2) = n
OBVIOUS

\* The path that getProof gives for a leaf leads from it to the root, whatever the number
\* of leaves, the node that an odd layer repeats included (getProof, computeMerkleRoot).
THEOREM MerkleCompleteness ==
    ASSUME NEW leaves, Len(leaves) \in Nat \ {0}, NEW i \in 1 .. Len(leaves)
    PROVE  computeMerkleRoot(leaves[i], getProof(leaves, i)) = Root(leaves)
<1> DEFINE ls == Layers(leaves)
           h == Len(ls)
           path == getProof(leaves, i)
<1>0. IsTree(ls, leaves) /\ \E at : GoesUp(path, at, ls, i)
  BY TreeShape, PathShape
<1> HIDE DEF ls, path
<1>1. /\ h \in Nat \ {0} /\ ls[1] = leaves /\ Len(ls[h]) = 1 /\ Root(leaves) = ls[h][1]
      /\ \A k \in 1 .. h : Len(ls[k]) \in Nat \ {0}
      /\ \A k \in 2 .. h : ls[k] = Above(ls[k - 1])
  BY <1>0 DEF IsTree
<1>2. PICK at : GoesUp(path, at, ls, i)
  BY <1>0
<1>3. /\ Len(path) = h - 1
      /\ at[1] = i
      /\ \A k \in 1 .. h : at[k] \in 1 .. Len(ls[k])
      /\ \A k \in 2 .. h : at[k] = (at[k - 1] + 1) \div 2
      /\ \A k \in 1 .. h - 1 : path[k] = PathStep(ls[k], at[k])
  BY <1>2 DEF GoesUp
<1> DEFINE leaf == leaves[i]
<1> HIDE DEF leaf
<1>4. PICK up :
        /\ up[0] = leaf
        /\ computeMerkleRoot(leaf, path) = up[Len(path)]
        /\ \A k \in 1 .. Len(path) :
              up[k] = IF path[k].isRight THEN hashPair(up[k - 1], path[k].sibling)
                      ELSE hashPair(path[k].sibling, up[k - 1])
  <2>1. Len(path) \in Nat
    BY <1>1, <1>3
  <2> QED BY <2>1, ClimbShape
<1> DEFINE Good(k) == up[k] = ls[k + 1][at[k + 1]]
<1>5. \A k \in 0 .. h - 1 : Good(k)
  <2> DEFINE Bad == {k \in 0 .. h - 1 : ~Good(k)}
  <2> SUFFICES ASSUME Bad # {} PROVE FALSE
    OBVIOUS
  <2>1. PICK k \in Bad : \A m \in Bad : k <= m
    <3>1. Bad \in SUBSET Nat
      OBVIOUS
    <3> HIDE DEF Bad
    <3> QED BY <3>1, LeastExists
  <2>2. Good(0)
    BY <1>1, <1>3, <1>4 DEF leaf
  <2>3. k \in 1 .. h - 1
    <3> HIDE DEF Good
    <3> QED BY <2>1, <2>2
  <2>4. Good(k - 1)
    <3>1. k - 1 \in 0 .. h - 1 /\ ~(k <= k - 1)
      BY <2>3
    <3> HIDE DEF Good
    <3> QED BY <2>1, <3>1
  <2> DEFINE layer == ls[k]
             n == at[k]
  <2>5. /\ k \in 1 .. h /\ k + 1 \in 2 .. h /\ (k - 1) + 1 = k /\ (k + 1) - 1 = k
    BY <1>1, <2>3
  <2>6. /\ Len(layer) \in Nat \ {0} /\ n \in 1 .. Len(layer)
        /\ ls[k + 1] = Above(layer) /\ at[k + 1] = (n + 1) \div 2
        /\ path[k] = PathStep(layer, n)
        /\ up[k - 1] = layer[n]
    BY <1>1, <1>3, <2>3, <2>4, <2>5
  <2>7. up[k] = IF path[k].isRight THEN hashPair(up[k - 1], path[k].sibling)
                ELSE hashPair(path[k].sibling, up[k - 1])
    BY <1>3, <1>4, <2>3
  <2> HIDE DEF layer, n
  <2> DEFINE m == (n + 1) \div 2
  <2>a. /\ m \in 1 .. (Len(layer) + 1) \div 2
        /\ n % 2 = 1 => 2 * m = n + 1
        /\ n % 2 # 1 => 2 * m = n
    BY <2>6, Halves
  <2>b. m \in Nat /\ n \in Nat /\ Len(layer) \in Nat /\ n <= Len(layer)
    BY <2>6
  <2>8. /\ Above(layer)[m] = hashPair(layer[2 * m - 1],
                                      layer[IF 2 * m <= Len(layer) THEN 2 * m ELSE 2 * m - 1])
    <3> HIDE DEF m
    <3> QED BY <2>6, <2>a, AboveShape
  <2> HIDE DEF m
  <2>9. up[k] = Above(layer)[m]
    <3>1. CASE n % 2 = 1
      <4>0. 2 * m = n + 1
        BY <2>a, <3>1
      <4>1. 2 * m - 1 = n /\ (2 * m <= Len(layer) <=> n < Len(layer)) /\ 2 * m = n + 1
        BY <2>b, <4>0
      <4>2. path[k].isRight /\ path[k].sibling = layer[IF n < Len(layer) THEN n + 1 ELSE n]
        BY <2>6, <3>1 DEF PathStep
      <4> QED BY <2>6, <2>7, <2>8, <4>1, <4>2
    <3>2. CASE n % 2 # 1
      <4>0. 2 * m = n
        BY <2>a, <3>2
      <4>1. 2 * m - 1 = n - 1 /\ 2 * m <= Len(layer) /\ 2 * m = n
        BY <2>b, <4>0
      <4>2. ~path[k].isRight /\ path[k].sibling = layer[n - 1]
        BY <2>6, <3>2 DEF PathStep
      <4> QED BY <2>6, <2>7, <2>8, <4>1, <4>2
    <3> QED BY <3>1, <3>2
  <2>10. Good(k)
    <3> QED BY <2>6, <2>9 DEF m, layer, n
  <2> HIDE DEF Good
  <2> QED BY <2>1, <2>10
<1>6. Good(h - 1) /\ (h - 1) + 1 = h
  BY <1>1, <1>5
<1>7. at[h] = 1
  <2>1. h \in 1 .. h
    BY <1>1
  <2>2. at[h] \in 1 .. Len(ls[h])
    BY <1>3, <2>1
  <2> QED BY <1>1, <2>2
<1> QED BY <1>1, <1>3, <1>4, <1>6, <1>7 DEF path, leaf
=============================================================================
