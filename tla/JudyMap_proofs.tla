---------------------------- MODULE JudyMap_proofs -----------------------------
(***************************************************************************)
(* A Judy array is a map: theorems about JudyArray, for every value of its *)
(* constants, on the counters that Get and Count find their way by, on the *)
(* keys that JudyLGet finds, and on JudyMap, which JudyArray implements.   *)
(***************************************************************************)
EXTENDS JudyQueries, JudyForm_proofs

-----------------------------------------------------------------------------
(* Get and the octants *)

\* The keys of an octant come after those of the octants before it, and nowhere else.
LEMMA OctantHolds ==
    ASSUME NEW l \in Level, NEW K \in SUBSET Index, NEW k \in K,
           \A j \in K : Slot(j, l) = Slot(k, l)
    PROVE  LET o == k[l] \div OCTANT
               start == SumBefore(Octants(l, K), o)
               pop == Octants(l, K)[o]
           IN  /\ start \in Nat /\ pop \in Nat
               /\ Rank(k, K) \in start..(start + pop - 1)
  <1> DEFINE o == k[l] \div OCTANT
             f == Octants(l, K)
             F == [x \in 0..(o - 1) |-> {j \in K : j[l] \div OCTANT = x}]
             Before == {j \in K : j[l] \div OCTANT < o}
             Same == {j \in K : j[l] \div OCTANT = o}
             Lower == {j \in K : Less(j, k)}
  <1>1. \A j \in K : j \in Key /\ j[l] \in Digit /\ j[l] \div OCTANT \in Nat
    <2>1. \A j \in K : j \in Key /\ j[l] \in Digit
      BY IndexKey, KeySlot
    <2>2. \A d \in Digit : d \div OCTANT \in Nat
      BY MaxAssumption, SizeAssumption DEF Digit
    <2> QED
      BY <2>1, <2>2
  <1>2. o \in Nat /\ o \in Digit /\ 0..(o - 1) \subseteq Digit
    <2>1. o \in Nat /\ k[l] \in Digit
      BY <1>1
    <2>2. \A d \in Digit : d \div OCTANT <= d
      BY MaxAssumption, SizeAssumption DEF Digit
    <2> QED
      BY <2>1, <2>2, SizeAssumption DEF Digit
  <1>3. f = [x \in Digit |-> Cardinality({j \in K : j[l] \div OCTANT = x})]
    BY DEF Octants
  <1>4. \A j : j \in Before <=> \E x \in 0..(o - 1) : j \in F[x]
    <2>1. \A j \in Before : j[l] \div OCTANT \in 0..(o - 1) /\ j \in F[j[l] \div OCTANT]
      BY <1>1, <1>2
    <2>2. \A x \in 0..(o - 1) : F[x] \subseteq Before
      BY <1>2
    <2> QED
      BY <2>1, <2>2
  <1>5. SumBefore(f, o) = Cardinality(Before)
    <2>1. \A x \in 0..(o - 1) : IsFiniteSet(F[x]) /\ f[x] = Cardinality(F[x])
      <3>1. \A x \in 0..(o - 1) : F[x] \in SUBSET Index
        OBVIOUS
      <3> QED
        BY <1>2, <1>3, <3>1, KeysFinite
    <2>2. \A x, y \in 0..(o - 1) : x # y => F[x] \cap F[y] = {}
      OBVIOUS
    <2>3. IsFiniteSet(0..(o - 1))
      BY <1>2, FS_Interval
    <2> DEFINE S == 0..(o - 1)
    <2> HIDE DEF F, f, o, Before
    <2>4. /\ IsFiniteSet(S)
          /\ \A x \in S : IsFiniteSet(F[x]) /\ f[x] = Cardinality(F[x])
          /\ \A x, y \in S : x # y => F[x] \cap F[y] = {}
          /\ \A j : j \in Before <=> \E x \in S : j \in F[x]
      BY <1>4, <2>1, <2>2, <2>3
    <2> HIDE DEF S
    <2>5. SumFunctionOnSet(f, S) = Cardinality(Before)
      BY <2>4, SumSizes
    <2> QED
      BY <2>5 DEF SumBefore, S
  <1>6. f[o] = Cardinality(Same)
    BY <1>2, <1>3
  <1>7. \A j \in K : \A m \in (l + 1)..RootLevel : j[m] = k[m]
    <2>1. ASSUME NEW j \in K, NEW m \in Level, m > l PROVE j[m] = k[m]
      <3>1. j \in Key /\ k \in Key /\ Slot(j, l) = Slot(k, l) /\ m >= l
        BY <1>1, <2>1, SizeAssumption DEF Level
      <3> QED
        BY <2>1, <3>1, SlotsAbove
    <2>2. \A m \in (l + 1)..RootLevel : m \in Level /\ m > l
      BY SizeAssumption DEF Level
    <2> QED
      BY <2>1, <2>2
  <1>8. Before \subseteq Lower
    <2> SUFFICES ASSUME NEW j \in Before PROVE Less(j, k)
      OBVIOUS
    <2>1. j[l] < k[l]
      <3>1. \A d, e \in Digit : d \div OCTANT < e \div OCTANT => d < e
        BY MaxAssumption, SizeAssumption DEF Digit
      <3> QED
        BY <1>1, <3>1
    <2> QED
      BY <1>7, <2>1 DEF Less
  <1>9. Lower \cup {k} \subseteq Before \cup Same
    <2> SUFFICES ASSUME NEW j \in Lower PROVE j[l] \div OCTANT <= o
      BY <1>1, <1>2
    <2>1. j[l] <= k[l]
      <3>1. PICK n \in Level : j[n] < k[n] /\ \A m \in (n + 1)..RootLevel : j[m] = k[m]
        BY DEF Less
      <3>2. ~(n > l)
        <4>1. n > l => n \in (l + 1)..RootLevel
          BY SizeAssumption DEF Level
        <4>2. j[n] \in Int
          BY <1>1, SizeAssumption DEF Key, Digit
        <4> QED
          BY <1>7, <3>1, <4>1, <4>2
      <3>3. CASE n = l
        BY <1>1, <3>1, <3>3, SizeAssumption DEF Digit
      <3>4. CASE n < l
        <4>1. l \in (n + 1)..RootLevel
          BY <3>4, SizeAssumption DEF Level
        <4> QED
          BY <1>1, <3>1, <4>1, SizeAssumption DEF Digit
      <3> QED
        BY <3>2, <3>3, <3>4, SizeAssumption DEF Level
    <2>2. \A d, e \in Digit : d <= e => d \div OCTANT <= e \div OCTANT
      BY MaxAssumption, SizeAssumption DEF Digit
    <2> QED
      BY <1>1, <2>1, <2>2
  <1>10. Before \in SUBSET Index /\ Same \in SUBSET Index /\ Lower \in SUBSET Index /\ k \notin Lower
    <2>1. ~Less(k, k)
      BY <1>1, LessOneWay
    <2> QED
      BY <2>1
  <1>11. Before \cap Same = {}
    BY <1>2
  <1> HIDE DEF Before, Same, Lower, F, f, o
  <1>12. Cardinality(Before) \in Nat /\ Cardinality(Same) \in Nat /\ Cardinality(Lower) \in Nat
    BY <1>10, KeysFinite
  <1>13. Cardinality(Before) <= Cardinality(Lower)
    BY <1>8, <1>10, KeysFinite, FS_Subset
  <1>14. Cardinality(Lower) + 1 <= Cardinality(Before) + Cardinality(Same)
    <2>1. Cardinality(Lower \cup {k}) = Cardinality(Lower) + 1
      BY <1>10, KeysFinite, FS_AddElement
    <2>2. Before \cup Same \in SUBSET Index
      BY <1>10
    <2>3. Cardinality(Lower \cup {k}) <= Cardinality(Before \cup Same)
      BY <1>9, <2>2, KeysFinite, FS_Subset
    <2>4. Cardinality(Before \cup Same)
              = Cardinality(Before) + Cardinality(Same) - Cardinality(Before \cap Same)
      BY <1>10, KeysFinite, FS_Union
    <2>5. Cardinality(Before \cap Same) = 0
      BY <1>11, FS_EmptySet
    <2> QED
      BY <1>12, <2>1, <2>3, <2>4, <2>5
  <1>15. Rank(k, K) = Cardinality(Lower)
    BY DEF Rank, Lower
  <1> QED
    BY <1>5, <1>6, <1>12, <1>13, <1>14, <1>15 DEF f, o

\* The octants of every Leaf1 and Leaf2 are those of its keys.
OctantsTold(t) ==
    \A s \in Slots : t[s].type = "LEAF" /\ s[1] <= 2 => t[s].sums = Octants(s[1], t[s].keys)

\* JudyLGet finds the keys that a whole search of every leaf finds.
LEMMA GetsSame ==
    ASSUME NEW t \in [Slots -> JP], Formed(t), OwnKeys(t), KeysInLeaves(t), OctantsTold(t),
           NEW k \in Index
    PROVE  JudyLGet(t, k) <=> Get(t, k)
  <1> USE DEF InLeaf1, InLeaf2, InLeaf3To7, InLeaf8, InLeafB1U, InFullPop, InImmed01, InImmed
  <1>0. k \in Key /\ \A l \in Level : Slot(k, l) \in Slots /\ k[l] \in Digit /\ Slot(k, l)[1] = l
    BY IndexKey, KeySlot
  <1>1. ASSUME NEW l \in Level PROVE WalksTo(t, k, l) <=> Reaches(t, k, l)
    BY DEF WalksTo, Reaches, DownL, DownB, DownU, Enters, EntersL, EntersB, EntersU, SubExp
  <1>2. ASSUME JudyLGet(t, k) PROVE Get(t, k)
    <2>1. PICK l \in Level : WalksTo(t, k, l) /\ k \in t[Slot(k, l)].keys
      BY <1>2 DEF JudyLGet, At
    <2> QED
      BY <1>1, <2>1 DEF Get
  <1>3. ASSUME Get(t, k) PROVE JudyLGet(t, k)
    <2>1. PICK l \in Level : Reaches(t, k, l) /\ k \in t[Slot(k, l)].keys
      BY <1>3 DEF Get
    <2> DEFINE s == Slot(k, l)
               J == t[s]
               K == J.keys
    <2>2. s \in Slots /\ s[1] = l /\ J \in JP /\ K \in SUBSET Index /\ k \in K
      BY <1>0, <2>1 DEF JP
    <2>3. J.type \in {"IMMED", "LEAF", "LEAF_B1U", "FULLPOPU1"}
      BY <2>2 DEF KeysInLeaves, JP, JPType
    <2>4. Fits(l, J)
      BY <2>2 DEF Formed
    <2>5. WalksTo(t, k, l)
      BY <1>1, <2>1
    <2>6. CASE J.type = "IMMED"
      <3>1. Cardinality(K) \in Nat /\ Cardinality(K) >= 1 /\ IsFiniteSet(K)
        BY <2>2, <2>4, <2>6, KeysFinite, MaxType DEF Fits
      <3>2. Cardinality(K) = 1 => K = {k}
        BY <2>2, <3>1, FS_Singleton
      <3>3. InImmed01(J, k) \/ InImmed(J, k)
        BY <2>2, <2>6, <3>1, <3>2
      <3> QED
        BY <2>5, <3>3 DEF JudyLGet
    <2>7. CASE J.type \in {"LEAF_B1U", "FULLPOPU1"}
      <3>1. l = 1
        BY <2>4, <2>7 DEF Fits
      <3>2. InLeafB1U(J, k) \/ InFullPop(J, k)
        BY <2>2, <2>7
      <3> QED
        BY <2>5, <3>1, <3>2 DEF JudyLGet
    <2>8. CASE J.type = "LEAF" /\ l > 2
      <3>1. l \in 3..(RootLevel - 1) \/ l = RootLevel
        BY <2>8, SizeAssumption DEF Level
      <3>2. InLeaf3To7(J, k) /\ InLeaf8(J, k)
        BY <2>2, <2>8
      <3> QED
        BY <2>5, <3>1, <3>2 DEF JudyLGet
    <2>9. CASE J.type = "LEAF" /\ l <= 2
      <3> DEFINE o == k[l] \div OCTANT
                 start == SubLeafStart(J, l, k)
                 pop == J.sums[o]
                 down(r) == (r \div KEYS_PER_WORD) * KEYS_PER_WORD
      <3>1. J.sums = Octants(l, K)
        BY <2>2, <2>9 DEF OctantsTold
      <3>2. \A j \in K : Slot(j, l) = Slot(k, l)
        BY <2>2 DEF OwnKeys
      <3>3. start \in Nat /\ pop \in Nat /\ Rank(k, K) \in start..(start + pop - 1)
        BY <2>2, <3>1, <3>2, OctantHolds DEF SubLeafStart
      <3>4. l \in {1, 2}
        BY <2>9 DEF Level
      <3> HIDE DEF start, pop
      <3>5. Rank(k, K) \in down(start)..(down(start + pop - 1) + KEYS_PER_WORD - 1)
        <4>1. \A r \in Nat : down(r) \in Nat /\ down(r) <= r /\ r < down(r) + KEYS_PER_WORD
          BY WordAssumption
        <4>2. start + pop - 1 \in Nat
          BY <3>3
        <4> HIDE DEF down
        <4> QED
          BY <3>3, <4>1, <4>2, WordAssumption
      <3>6. l = 1 => InLeaf1(J, k)
        BY <2>2, <2>9, <3>3 DEF At, start, pop
      <3>7. l = 2 => InLeaf2(J, k)
        BY <2>2, <2>9, <3>3, <3>5 DEF At, start, pop
      <3> QED
        BY <2>5, <3>4, <3>6, <3>7 DEF JudyLGet
    <2> QED
      BY <2>3, <2>6, <2>7, <2>8, <2>9, SizeAssumption DEF Level
  <1> QED
    BY <1>2, <1>3


-----------------------------------------------------------------------------
(* The sums of a branch *)

\* The JP of a digit is that of the keys with the digit.
LEMMA ChildOf ==
    ASSUME NEW s \in Slots, s[1] > 1, NEW d \in Digit, NEW k \in Key
    PROVE  /\ s[1] \in Level /\ s[1] - 1 \in Level /\ Child(s, d) \in Slots
           /\ Child(s, d)[1] = s[1] - 1
           /\ Slot(k, s[1] - 1) = Child(s, d) <=> Slot(k, s[1]) = s /\ k[s[1]] = d
  <1> DEFINE n == s[1]
  <1>1. PICK j \in Key : Slot(j, n) = s /\ n \in Level
    BY SlotKey
  <1> DEFINE i == [j EXCEPT ![n] = d]
  <1>2. i \in Key /\ i[n] = d /\ \A m \in Level : m # n => i[m] = j[m]
    BY <1>1 DEF Key
  <1>3. n - 1 \in Level /\ n > 1
    BY <1>1, SizeAssumption DEF Level
  <1>4. Slot(i, n) = s
    <2>1. \A m \in (n + 1)..RootLevel : m \in Level /\ m # n
      BY <1>1, SizeAssumption DEF Level
    <2> HIDE DEF i, n
    <2>2. [m \in (n + 1)..RootLevel |-> i[m]] = [m \in (n + 1)..RootLevel |-> j[m]]
      BY <1>2, <2>1
    <2> QED
      BY <1>1, <2>2 DEF Slot
  <1> HIDE DEF i, n
  <1>5. Child(s, d) \in Slots /\ Child(s, d)[1] = n - 1 /\ Child(s, d) = Slot(i, n - 1)
    BY <1>1, <1>2, <1>3, <1>4, ChildKey
  <1>6. ASSUME Slot(k, n - 1) = Child(s, d) PROVE Slot(k, n) = s /\ k[n] = d
    <2>1. Slot(k, n - 1) = Slot(i, n - 1) /\ n >= n - 1 /\ n > n - 1
      BY <1>1, <1>5, <1>6, SizeAssumption DEF Level
    <2>2. Slot(k, n) = Slot(i, n) /\ k[n] = i[n]
      BY <1>1, <1>2, <1>3, <2>1, SlotsAbove
    <2> QED
      BY <1>2, <1>4, <2>2
  <1>7. ASSUME Slot(k, n) = s, k[n] = d PROVE Slot(k, n - 1) = Child(s, d)
    BY <1>1, <1>3, <1>7, ChildKey
  <1> QED
    BY <1>1, <1>3, <1>5, <1>6, <1>7 DEF n

\* What a tree counts in its branches, if it counts right.
Counts(t) == \A s \in Slots : t[s].type \in Branch => t[s].pop + 1 = Cardinality(Below(t, s))

\* j__udyJPPop1 of a JP that is no branch is the number of its keys.
LEMMA LeafPop1 ==
    ASSUME NEW t \in [Slots -> JP], Formed(t), KeysInLeaves(t),
           NEW s \in Slots, t[s].type \notin Branch
    PROVE  JPPop1(t[s]) = Cardinality(t[s].keys)
  <1>1. Fits(s[1], t[s])
    BY DEF Formed
  <1>2. CASE t[s].type = "LEAF_B1U"
    <2>1. Base \in Nat /\ Cardinality(t[s].keys) \in 1..Base
      BY <1>1, <1>2, SizeAssumption DEF Fits
    <2>2. \/ t[s].pop = Cardinality(t[s].keys)
          \/ JUDYL /\ Cardinality(t[s].keys) = Base /\ t[s].pop = 0
      BY <1>1, <1>2 DEF Fits
    <2>3. JPPop1(t[s]) = IF JUDYL /\ t[s].pop = 0 THEN Base ELSE t[s].pop
      BY <1>2 DEF JPPop1, Branch
    <2> QED
      BY <2>1, <2>2, <2>3
  <1>3. CASE t[s].type = "FULLPOPU1"
    BY <1>1, <1>3 DEF JPPop1, Fits, Branch
  <1>4. CASE t[s].type \notin {"LEAF_B1U", "FULLPOPU1"}
    BY <1>4 DEF JPPop1
  <1> QED
    BY <1>2, <1>3, <1>4

\* j__udyJPPop1 is the number of keys that Get finds below.
LEMMA JPPop1Is ==
    ASSUME NEW t \in [Slots -> JP], Formed(t), OwnKeys(t), KeysInLeaves(t), Counts(t),
           NEW s \in Slots, t[s].type # "NULL"
    PROVE  JPPop1(t[s]) = Cardinality(Below(t, s))
  <1>1. PICK k \in Key : Slot(k, s[1]) = s /\ s[1] \in Level
    BY SlotKey
  <1>2. Reaches(t, k, s[1])
    BY <1>1 DEF Formed, Rooted
  <1>3. CASE t[s].type \in Branch
    BY <1>3 DEF JPPop1, Counts, Branch
  <1>4. CASE t[s].type \notin Branch
    <2>1. Below(t, s) = t[s].keys
      BY <1>1, <1>2, <1>4, OwnBelow
    <2> QED
      BY <1>4, <2>1, LeafPop1
  <1> QED
    BY <1>3, <1>4

\* The keys below a branch are below the JPs of its digits.
LEMMA BelowBranch ==
    ASSUME NEW t \in [Slots -> JP], Formed(t), OwnKeys(t), KeysInLeaves(t),
           NEW s \in Slots, t[s].type \in {"BRANCH_L", "BRANCH_B"}, s[1] > 1,
           NEW k \in Below(t, s)
    PROVE  k[s[1]] \in t[s].exp /\ k \in Below(t, Child(s, k[s[1]]))
  <1>1. k \in Index /\ k \in Key /\ Slot(k, s[1]) = s /\ Get(t, k) /\ s[1] \in Level
    BY IndexKey, SlotKey DEF Below
  <1>2. k[s[1]] \in Digit
    BY <1>1, KeySlot
  <1>3. PICK l \in Level : Reaches(t, k, l) /\ k \in t[Slot(k, l)].keys
    BY <1>1 DEF Get
  <1>4. Slot(k, l) \in Slots /\ t[Slot(k, l)].type \notin Branch
    BY <1>1, <1>3, KeySlot DEF KeysInLeaves
  <1>5. t[s].type \in Branch
    BY DEF Branch
  <1>6. Reaches(t, k, s[1])
    <2>1. t[s].type # "NULL"
      OBVIOUS
    <2> QED
      BY <1>1, <2>1 DEF Formed, Rooted
  <1>7. ~(l > s[1])
    <2> SUFFICES ASSUME l > s[1] PROVE FALSE
      OBVIOUS
    <2>1. Enters(t[Slot(k, l)], k[l])
      BY <1>1, <1>6, ReachesAbove
    <2> QED
      BY <1>4, <2>1 DEF Enters, EntersL, EntersB, EntersU, Branch
  <1>8. s[1] > l
    BY <1>1, <1>4, <1>5, <1>7, SizeAssumption DEF Level
  <1>9. Enters(t[s], k[s[1]])
    BY <1>1, <1>3, <1>8, ReachesAbove
  <1>10. k[s[1]] \in t[s].exp
    BY <1>9 DEF Enters, EntersL, EntersB, EntersU
  <1>11. Slot(k, s[1] - 1) = Child(s, k[s[1]]) /\ Child(s, k[s[1]])[1] = s[1] - 1
    BY <1>1, <1>2, ChildOf
  <1> QED
    BY <1>1, <1>10, <1>11 DEF Below

\* As many as numbers.
LEMMA CountedOff ==
    ASSUME NEW d, NEW n \in Nat
    PROVE  IsFiniteSet({d} \X (1..n)) /\ Cardinality({d} \X (1..n)) = n
  <1> DEFINE f == [i \in 1..n |-> <<d, i>>]
             T == {d} \X (1..n)
  <1>1. f \in [1..n -> T] /\ \A i, j \in 1..n : f[i] = f[j] => i = j
    OBVIOUS
  <1>2. \A y \in T : \E i \in 1..n : f[i] = y
    OBVIOUS
  <1>3. IsFiniteSet(1..n) /\ Cardinality(1..n) = n
    <2>1. Cardinality(1..n) = IF 1 > n THEN 0 ELSE n - 1 + 1
      BY FS_Interval
    <2> QED
      BY <2>1, FS_Interval
  <1> HIDE DEF f, T
  <1>4. f \in Bijection(1..n, T)
    BY <1>1, <1>2 DEF Bijection, Injection, Surjection, IsInjective
  <1>5. IsFiniteSet(T) /\ Cardinality(T) = n
    BY <1>3, <1>4, FS_Bijection DEF ExistsBijection
  <1> QED
    BY <1>5 DEF T

\* The keys of a group of digits that Get finds below a branch.
Group(t, s, g) == {k \in Below(t, s) : k[s[1]] \div GROUP8 = g}

\* A new BranchU has the sizes of its groups.
LEMMA Sums8Is ==
    ASSUME NEW t \in [Slots -> JP], Formed(t), OwnKeys(t), KeysInLeaves(t), Counts(t),
           NEW s \in Slots, t[s].type \in {"BRANCH_L", "BRANCH_B"}, s[1] > 1,
           NEW g \in Digit
    PROVE  Sums8(t, s, t[s].exp)[g] = Cardinality(Group(t, s, g))
  <1> DEFINE E == {e \in t[s].exp : e \div GROUP8 = g}
             n == [d \in E |-> JPPop1(t[Child(s, d)])]
             A == [d \in E |-> {d} \X (1..n[d])]
             B == [d \in E |-> Below(t, Child(s, d))]
             V == UNION {{d} \X (1..JPPop1(t[Child(s, d)])) : d \in E}
             W == Group(t, s, g)
  <1>1. E \subseteq Digit /\ E \subseteq t[s].exp /\ IsFiniteSet(E)
    <2>1. E \in SUBSET Digit
      BY DEF JP
    <2> QED
      BY <2>1, DigitsFinite
  <1>2. ASSUME NEW d \in E
        PROVE  /\ n[d] \in Nat /\ n[d] = Cardinality(B[d]) /\ IsFiniteSet(B[d])
               /\ IsFiniteSet(A[d]) /\ n[d] = Cardinality(A[d])
    <2>1. Child(s, d) \in Slots /\ t[Child(s, d)].type # "NULL"
      BY <1>1, ChildSlot DEF Formed, Peopled
    <2>2. n[d] = Cardinality(B[d])
      BY <2>1, JPPop1Is
    <2>3. B[d] \in SUBSET Index
      BY DEF Below
    <2>4. n[d] \in Nat /\ IsFiniteSet(B[d])
      <3> HIDE DEF n, B
      <3> QED
        BY <2>2, <2>3, KeysFinite
    <2>5. A[d] = {d} \X (1..n[d])
      OBVIOUS
    <2> HIDE DEF n, A, B
    <2>6. IsFiniteSet(A[d]) /\ Cardinality(A[d]) = n[d]
      <3>1. IsFiniteSet({d} \X (1..n[d])) /\ Cardinality({d} \X (1..n[d])) = n[d]
        BY <2>4, CountedOff
      <3> QED
        BY <2>5, <3>1, Zenon
    <2> QED
      BY <2>2, <2>4, <2>6
  <1>3. \A x, y \in E : x # y => A[x] \cap A[y] = {}
    OBVIOUS
  <1>4. \A v : v \in V <=> \E d \in E : v \in A[d]
    OBVIOUS
  <1>5. ASSUME NEW k \in W PROVE \E d \in E : k \in B[d]
    <2>1. k[s[1]] \in t[s].exp /\ k \in Below(t, Child(s, k[s[1]])) /\ k[s[1]] \div GROUP8 = g
      BY BelowBranch DEF Group
    <2> QED
      BY <2>1
  <1>6. ASSUME NEW d \in E, NEW k \in B[d] PROVE k \in W /\ k[s[1]] = d
    <2>1. d \in Digit /\ d \div GROUP8 = g
      BY <1>1
    <2>2. k \in Index /\ k \in Key /\ Slot(k, Child(s, d)[1]) = Child(s, d) /\ Get(t, k)
      BY IndexKey DEF Below
    <2>3. Slot(k, s[1]) = s /\ k[s[1]] = d
      BY <2>1, <2>2, ChildOf
    <2> QED
      BY <2>1, <2>2, <2>3 DEF Below, Group
  <1>7. \A v : v \in W <=> \E d \in E : v \in B[d]
    BY <1>5, <1>6
  <1>8. \A x, y \in E : x # y => B[x] \cap B[y] = {}
    BY <1>6
  <1>9. Sums8(t, s, t[s].exp)[g] = Cardinality(V)
    BY DEF Sums8
  <1> HIDE DEF E, n, A, B, V, W
  <1>10. SumFunctionOnSet(n, E) = Cardinality(V)
    <2>1. /\ IsFiniteSet(E)
          /\ \A d \in E : IsFiniteSet(A[d]) /\ n[d] = Cardinality(A[d])
          /\ \A x, y \in E : x # y => A[x] \cap A[y] = {}
          /\ \A v : v \in V <=> \E d \in E : v \in A[d]
      BY <1>1, <1>2, <1>3, <1>4
    <2> QED
      BY <2>1, SumSizes
  <1>11. SumFunctionOnSet(n, E) = Cardinality(W)
    <2>1. /\ IsFiniteSet(E)
          /\ \A d \in E : IsFiniteSet(B[d]) /\ n[d] = Cardinality(B[d])
          /\ \A x, y \in E : x # y => B[x] \cap B[y] = {}
          /\ \A v : v \in W <=> \E d \in E : v \in B[d]
      BY <1>1, <1>2, <1>7, <1>8
    <2> QED
      BY <2>1, SumSizes
  <1> QED
    BY <1>9, <1>10, <1>11 DEF W

-----------------------------------------------------------------------------
(* What a step does to the sums *)

\* Every BranchU is an old one with its sums, but that of the walk; octants are right.
Quiet ==
    /\ \A s \in Slots : jp'[s].type = "BRANCH_U" =>
           s # Pjp /\ jp[s].type = "BRANCH_U" /\ jp'[s].sums = jp[s].sums
    /\ OctantsTold(jp')

\* A JP is replaced.
LEMMA PutQuiet ==
    ASSUME TypeOK, pc = "walk", OctantsTold(jp), NEW J, jp' = [jp EXCEPT ![Pjp] = J],
           J.type # "BRANCH_U",
           J.type = "LEAF" /\ level <= 2 => J.sums = Octants(level, J.keys)
    PROVE  Quiet
  <1>1. Pjp \in Slots /\ Pjp[1] = level
    BY HereType
  <1>2. \A s \in Slots : jp'[s] = IF s = Pjp THEN J ELSE jp[s]
    BY DEF TypeOK
  <1> QED
    BY <1>1, <1>2 DEF Quiet, OctantsTold

\* A JP is added to a branch.
LEMMA AddedQuiet ==
    ASSUME TypeOK, KeptInv, pc = "walk", OctantsTold(jp), Added
    PROVE  Quiet
  <1> DEFINE c == Slot(key, level - 1)
             J == [Here EXCEPT !.exp = @ \cup {digit}]
  <1>1. /\ c \in Slots
        /\ \A s \in Slots :
              jp'[s] = IF s = Pjp THEN J ELSE IF s = c THEN ImmedJP({key}) ELSE jp[s]
        /\ J.type = Here.type
    BY AddedTree
  <1>2. Here.type \in {"BRANCH_L", "BRANCH_B"}
    BY DEF Added
  <1>3. ImmedJP({key}).type = "IMMED"
    BY DEF ImmedJP, NullJP
  <1> HIDE DEF J, c
  <1> QED
    BY <1>1, <1>2, <1>3 DEF Quiet, OctantsTold

\* What a splay leaves is no BranchU, and has its octants.
LEMMA SplaySums ==
    ASSUME NEW t \in [Slots -> JP], NEW s \in Slots, OctantsTold(t)
    PROVE  /\ OctantsTold(Splay(t, s))
           /\ \A u \in Slots : Splay(t, s)[u].type = "BRANCH_U" => u # s /\ Splay(t, s)[u] = t[u]
  <1> DEFINE D == {k[s[1]] : k \in t[s].keys}
             B == BranchJP(D, LEAF_MAXPOP1[s[1]] - 1)
  <1>1. Splay(t, s)[s] = B
    BY DEF Splay
  <1>2. B.type \in {"BRANCH_L", "BRANCH_B"}
    BY DEF BranchJP, NullJP
  <1>3. ASSUME NEW l \in Level, NEW Q
        PROVE  /\ SplayJP(l, Q).type # "BRANCH_U"
               /\ SplayJP(l, Q).type = "LEAF" /\ l <= 2 =>
                      SplayJP(l, Q).sums = Octants(l, SplayJP(l, Q).keys)
    <2>1. SplayJP(l, Q).type \notin Branch /\ SplayJP(l, Q).keys = Q
      BY SplayJPKeys
    <2>2. ASSUME l <= 2, SplayJP(l, Q).type = "LEAF" PROVE SplayJP(l, Q) = LeafJP(l, Q)
      <3>1. l \in {1, 2}
        BY <2>2 DEF Level
      <3>2. ImmedJP(Q).type # "LEAF" /\ LeafB1UJP(Q).type # "LEAF"
        BY DEF ImmedJP, LeafB1UJP, NullJP
      <3>3. l = 1 => SplayJP(l, Q) \in {ImmedJP(Q), LeafJP(1, Q), LeafB1UJP(Q)}
        BY DEF SplayJP, SplayJP1
      <3>4. l = 2 => SplayJP(l, Q) \in {ImmedJP(Q), LeafJP(2, Q)}
        BY DEF SplayJP, SplayJP2
      <3> QED
        BY <2>2, <3>1, <3>2, <3>3, <3>4
    <2>3. l <= 2 => LeafJP(l, Q).sums = Octants(l, Q)
      <3>1. l <= 2 => l \in {1, 2}
        BY DEF Level
      <3> QED
        BY <3>1 DEF LeafJP, NullJP
    <2> QED
      BY <2>1, <2>2, <2>3 DEF Branch
  <1>4. ASSUME NEW u \in Slots, u # s
        PROVE  \/ \E Q : Splay(t, s)[u] = SplayJP(u[1], Q)
               \/ Splay(t, s)[u] = t[u]
    BY <1>4, SplayPart, SplayRest
  <1>5. \A u \in Slots : u[1] \in Level
    BY SlotKey
  <1> HIDE DEF B, D
  <1> QED
    BY <1>1, <1>2, <1>3, <1>4, <1>5 DEF OctantsTold

\* The octants with a key more.
LEMMA OctantsMore ==
    ASSUME NEW l \in Level, NEW K \in SUBSET Index, NEW k \in Index, k \notin K
    PROVE  Octants(l, K \cup {k}) = Bump(Octants(l, K), k[l] \div OCTANT)
  <1> DEFINE O(S, o) == {j \in S : j[l] \div OCTANT = o}
             n == k[l] \div OCTANT
  <1>1. n \in Digit
    <2>1. k[l] \in Digit
      BY IndexKey, KeySlot
    <2>2. \A d \in Digit : d \div OCTANT \in Digit
      BY MaxAssumption, SizeAssumption DEF Digit
    <2> QED
      BY <2>1, <2>2
  <1>2. ASSUME NEW o \in Digit
        PROVE  Cardinality(O(K \cup {k}, o))
                   = IF o = n THEN Cardinality(O(K, o)) + 1 ELSE Cardinality(O(K, o))
    <2>1. O(K, o) \in SUBSET Index /\ k \notin O(K, o)
      OBVIOUS
    <2>2. O(K \cup {k}, o) = IF o = n THEN O(K, o) \cup {k} ELSE O(K, o)
      OBVIOUS
    <2> HIDE DEF O
    <2> QED
      BY <2>1, <2>2, KeysFinite, FS_AddElement
  <1>3. /\ Octants(l, K) = [o \in Digit |-> Cardinality(O(K, o))]
        /\ Octants(l, K \cup {k}) = [o \in Digit |-> Cardinality(O(K \cup {k}, o))]
    BY DEF Octants
  <1> HIDE DEF O, n
  <1>4. Bump(Octants(l, K), n)
            = [o \in Digit |-> IF o = n THEN Cardinality(O(K, o)) + 1 ELSE Cardinality(O(K, o))]
    BY <1>1, <1>3 DEF Bump
  <1> QED
    BY <1>2, <1>3, <1>4 DEF n

\* All cases of the switch but the three that touch the sums of a branch.
LEMMA WalkQuiet ==
    ASSUME FailSites \subseteq HandledSites, TypeOK, KeptInv, OctantsTold(jp), pc = "walk",
           WalkAbsent, ~BranchUDescend, ~BranchLToU, ~BranchBToU
    PROVE  Quiet
  <1>1. /\ key \in Index /\ level \in Level /\ Pjp \in Slots /\ Pjp[1] = level
        /\ jp \in [Slots -> JP] /\ Here = jp[Pjp] /\ Here \in JP /\ Here.keys \in SUBSET Index
        /\ digit = key[level]
    BY HereType DEF TypeOK, Here, JP, digit
  <1>2. \A site : site \notin HandledSites => ~WalkFails(site) /\ ~LeafFails(site) /\ ~Fails(site)
    BY DEF WalkFails, LeafFails, Fails
  <1>3. \A site \in {"JBU", "JBB", "JBBJP", "Leaf", "Cascade", "JLB1U", "JV", "JVShift"} :
            ~WalkFails(site) /\ ~LeafFails(site) /\ ~Fails(site)
    BY <1>2 DEF HandledSites
  <1>4. \A l \in Level : \A K : /\ LeafJP(l, K).type = "LEAF" /\ LeafJP(l, K).keys = K
                                /\ l <= 2 => LeafJP(l, K).sums = Octants(l, K)
    <2>1. \A l \in Level : l <= 2 => l \in {1, 2}
      BY DEF Level
    <2> QED
      BY <2>1 DEF LeafJP, NullJP
  <1>5. CASE BranchLDescend \/ BranchBDescend
    <2>1. jp' = [jp EXCEPT ![Pjp] = Here] /\ Here.type \in {"BRANCH_L", "BRANCH_B"}
      BY <1>1, <1>5 DEF BranchLDescend, BranchBDescend
    <2> QED
      BY <2>1, PutQuiet
  <1>6. CASE BranchLToB
    <2> DEFINE J == [Here EXCEPT !.type = "BRANCH_B"]
    <2>1. jp' = [jp EXCEPT ![Pjp] = J] /\ J.type = "BRANCH_B"
      BY <1>1, <1>3, <1>6 DEF BranchLToB, JP
    <2> HIDE DEF J
    <2> QED
      BY <2>1, PutQuiet
  <1>7. CASE BranchLInsert \/ BranchBInsert
    <2>1. Added
      BY <1>3, <1>7 DEF BranchLInsert, BranchBInsert, Added
    <2> QED
      BY <2>1, AddedQuiet
  <1>8. CASE LeafInsert
    <2>1. Here.type = "LEAF" /\ key \notin Here.keys
      BY <1>8 DEF LeafInsert, Leaf1Insert, Leaf2Insert, LeafWideInsert, WalkAbsent
    <2> DEFINE J == IF level <= 2 THEN [GrownLeaf EXCEPT !.sums = Counted] ELSE GrownLeaf
    <2>2. /\ J.type = "LEAF" /\ J.keys = Here.keys \cup {key}
          /\ level <= 2 => J.sums = Bump(Here.sums, digit \div OCTANT)
      BY <1>1, <2>1 DEF GrownLeaf, Counted, JP
    <2>3. jp' = [jp EXCEPT ![Pjp] = J]
      <3>1. ~LeafFails("Leaf")
        BY <1>3
      <3>2. CASE Leaf1Insert \/ Leaf2Insert
        <4>1. level <= 2
          BY <3>2 DEF Leaf1Insert, Leaf2Insert
        <4> QED
          BY <3>1, <3>2, <4>1 DEF Leaf1Insert, Leaf2Insert, LeafBecomes
      <3>3. CASE LeafWideInsert
        <4>1. ~(level <= 2)
          BY <1>1, <3>3 DEF LeafWideInsert, Level
        <4> QED
          BY <3>1, <3>3, <4>1 DEF LeafWideInsert, LeafBecomes
      <3> QED
        BY <1>8, <3>2, <3>3 DEF LeafInsert
    <2> HIDE DEF J
    <2>4. level <= 2 => J.sums = Octants(level, J.keys)
      BY <1>1, <2>1, <2>2, OctantsMore DEF OctantsTold
    <2> QED
      BY <2>2, <2>3, <2>4, PutQuiet
  <1>9. CASE LeafCascade
    <2>1. jp' = Splay(jp, Pjp)
      BY <1>3, <1>9 DEF LeafCascade
    <2>2. /\ OctantsTold(jp')
          /\ \A u \in Slots : jp'[u].type = "BRANCH_U" => u # Pjp /\ jp'[u] = jp[u]
      BY <1>1, <2>1, SplaySums
    <2> QED
      BY <2>2 DEF Quiet
  <1>10. CASE Leaf1ToB1U
    <2>1. jp' = [jp EXCEPT ![Pjp] = LeafB1UJP(Here.keys)]
      BY <1>3, <1>10 DEF Leaf1ToB1U
    <2>2. LeafB1UJP(Here.keys).type = "LEAF_B1U"
      BY DEF LeafB1UJP, NullJP
    <2> QED
      BY <2>1, <2>2, PutQuiet
  <1>11. CASE LeafB1UInsert
    <2>1. \E J : jp' = [jp EXCEPT ![Pjp] = J] /\ J.type \in {"LEAF_B1U", "FULLPOPU1"}
      <3> DEFINE K == Here.keys \cup {key}
                 A == [Here EXCEPT !.keys = K, !.pop = (@ + 1) % Base]
      <3>1. A.type = "LEAF_B1U"
        BY <1>1, <1>11 DEF LeafB1UInsert, JP
      <3>2. FullPopJP(K).type = "FULLPOPU1"
        BY DEF FullPopJP, NullJP
      <3>3. jp' = [jp EXCEPT ![Pjp] = A] \/ jp' = [jp EXCEPT ![Pjp] = FullPopJP(K)]
        BY <1>1, <1>11 DEF LeafB1UInsert
      <3> HIDE DEF A, K
      <3> QED
        BY <3>1, <3>2, <3>3
    <2> QED
      BY <2>1, PutQuiet
  <1>12. CASE WalkNull
    <2>1. jp' = [jp EXCEPT ![Pjp] = ImmedJP({key})] /\ ImmedJP({key}).type = "IMMED"
      BY <1>12 DEF WalkNull, ImmedJP, NullJP
    <2> QED
      BY <2>1, PutQuiet
  <1>13. CASE Immed01Grow \/ ImmedGrow
    <2> DEFINE J == [Here EXCEPT !.keys = @ \cup {key}]
    <2>1. jp' = [jp EXCEPT ![Pjp] = J] /\ Here.type = "IMMED"
      BY <1>1, <1>3, <1>13 DEF Immed01Grow, ImmedGrow
    <2>2. J.type = "IMMED"
      BY <1>1, <2>1 DEF JP
    <2> HIDE DEF J
    <2> QED
      BY <2>1, <2>2, PutQuiet
  <1>14. CASE Immed01ToLeaf \/ ImmedToLeaf
    <2> DEFINE J == LeafJP(level, Here.keys \cup {key})
    <2>1. jp' = [jp EXCEPT ![Pjp] = J]
      BY <1>3, <1>14 DEF Immed01ToLeaf, ImmedToLeaf
    <2>2. J.type = "LEAF" /\ (level <= 2 => J.sums = Octants(level, J.keys))
      BY <1>1, <1>4
    <2> HIDE DEF J
    <2> QED
      BY <2>1, <2>2, PutQuiet
  <1>15. CASE Immed1ToLeaf
    <2>1. level = 1 /\ 1 \in Level
      BY <1>1, <1>15 DEF Immed1ToLeaf
    <2>2. \/ jp' = [jp EXCEPT ![Pjp] = LeafJP(1, Here.keys)]
          \/ jp' = [jp EXCEPT ![Pjp] = LeafB1UJP(Here.keys)]
      BY <1>3, <1>15 DEF Immed1ToLeaf
    <2>3. LeafB1UJP(Here.keys).type = "LEAF_B1U"
      BY DEF LeafB1UJP, NullJP
    <2>4. LeafJP(1, Here.keys).type = "LEAF"
          /\ LeafJP(1, Here.keys).sums = Octants(1, LeafJP(1, Here.keys).keys)
      BY <1>4, <2>1
    <2>5. ASSUME NEW J, jp' = [jp EXCEPT ![Pjp] = J], J.type # "BRANCH_U",
                 J.type = "LEAF" => J.sums = Octants(1, J.keys)
          PROVE  Quiet
      BY <2>1, <2>5, PutQuiet
    <2>6. CASE jp' = [jp EXCEPT ![Pjp] = LeafJP(1, Here.keys)]
      BY <2>4, <2>5, <2>6
    <2>7. CASE jp' = [jp EXCEPT ![Pjp] = LeafB1UJP(Here.keys)]
      BY <2>3, <2>5, <2>7
    <2> QED
      BY <2>2, <2>6, <2>7
  <1> QED
    BY <1>5, <1>6, <1>7, <1>8, <1>9, <1>10, <1>11, <1>12, <1>13, <1>14, <1>15 DEF WalkAbsent

-----------------------------------------------------------------------------
(* The sums *)

(***************************************************************************)
(* SumsExact, for the slots of all JPs.  The walk bumps a sum before the   *)
(* key is in, and cannot take it back: it must not come to the key.  The   *)
(* test before the insertion, JudyLGet, must have missed no key that is    *)
(* there, and it finds its way by octants.                                 *)
(***************************************************************************)
SumsInv ==
    /\ \A s \in Slots : jp[s].type = "BRANCH_U" =>
           \A g \in Digit :
               jp[s].sums[g] = Cardinality(Group(jp, s, g))
                   + (IF Announced(s) /\ key[s[1]] \div GROUP8 = g THEN 1 ELSE 0)
    /\ OctantsTold(jp)
    /\ pc = "walk" => ~Get(jp, key)

\* Groups are counted in numbers.
LEMMA GroupType ==
    ASSUME NEW t, NEW s, NEW g
    PROVE  Group(t, s, g) \in SUBSET Index /\ Cardinality(Group(t, s, g)) \in Nat
  <1>1. Group(t, s, g) \in SUBSET Index
    BY DEF Group, Below
  <1> QED
    BY <1>1, KeysFinite

\* A step that adds no key leaves every group.
LEMMA GroupsStay ==
    ASSUME Gains({})
    PROVE  \A s \in Slots : \A g \in Digit : Group(jp', s, g) = Group(jp, s, g)
  <1>1. \A s \in Slots : Below(jp', s) = Below(jp, s)
    BY CountsStay
  <1> QED
    BY <1>1 DEF Group

\* A new key joins one group of each branch on its path.
LEMMA GroupsRise ==
    ASSUME NEW k \in Index, ~Get(jp, k), Gains({k}), NEW s \in Slots, NEW g \in Digit
    PROVE  Cardinality(Group(jp', s, g)) = Cardinality(Group(jp, s, g))
               + (IF Slot(k, s[1]) = s /\ k[s[1]] \div GROUP8 = g THEN 1 ELSE 0)
  <1>1. k \notin Group(jp, s, g) /\ Group(jp, s, g) \in SUBSET Index
    BY DEF Group, Below
  <1>2. Cardinality(Group(jp, s, g)) \in Nat
    BY GroupType
  <1>3. CASE Slot(k, s[1]) = s /\ k[s[1]] \div GROUP8 = g
    <2>1. Group(jp', s, g) = Group(jp, s, g) \cup {k}
      BY <1>3 DEF Gains, Below, Group
    <2>2. Cardinality(Group(jp, s, g) \cup {k}) = Cardinality(Group(jp, s, g)) + 1
      BY <1>1, KeysFinite, FS_AddElement
    <2> QED
      BY <1>3, <2>1, <2>2
  <1>4. CASE ~(Slot(k, s[1]) = s /\ k[s[1]] \div GROUP8 = g)
    <2>1. Group(jp', s, g) = Group(jp, s, g)
      BY <1>4 DEF Gains, Below, Group
    <2> QED
      BY <1>2, <1>4, <2>1
  <1> QED
    BY <1>3, <1>4

\* Where nobody walks and no sum changes, no sum is wrong.
LEMMA SumsStay ==
    ASSUME SumsInv, pc # "walk", pc' # "walk", Gains({}),
           \A s \in Slots : /\ jp'[s].type = jp[s].type /\ jp'[s].keys = jp[s].keys
                            /\ jp'[s].sums = jp[s].sums
    PROVE  SumsInv'
  <1>1. \A s \in Slots : \A g \in Digit : Group(jp', s, g) = Group(jp, s, g)
    BY GroupsStay
  <1>2. \A s : ~Announced(s) /\ ~Announced(s)'
    BY DEF Announced
  <1>3. OctantsTold(jp')
    BY DEF SumsInv, OctantsTold
  <1>4. \A s \in Slots : jp'[s].type = "BRANCH_U" =>
            \A g \in Digit : jp'[s].sums[g] = Cardinality(Group(jp', s, g)) + 0
    BY <1>1, <1>2 DEF SumsInv
  <1> QED
    BY <1>2, <1>3, <1>4 DEF SumsInv

\* The walk of a key that is not there places it or goes on.
LEMMA WalkGoes ==
    ASSUME FailSites \subseteq HandledSites, ShapeInv, Walk, ~Get(jp, key)
    PROVE  /\ key \notin Here.keys
           /\ \/ Placed /\ Gains({key}) /\ ~Enters(Here, digit)
              \/ Gains({}) /\ UNCHANGED value /\ (Continue \/ Descend)
  <1>1. pc = "walk" /\ TypeOK /\ KeptInv /\ OwnKeys(jp) /\ KeysInLeaves(jp)
    BY DEF Walk, ShapeInv, KeptInv
  <1>2. key \notin Here.keys
    BY <1>1, HereType DEF KeptInv, Get, Here, Pjp
  <1>3. CASE Gains({}) /\ (pc' = "walk" \/ ret' = 0)
    <2>1. ~Placed
      BY <1>1, <1>3 DEF Placed, WalkReturn
    <2>2. ~Returns
      BY <1>2, <1>3 DEF Returns, WalkReturn
    <2>3. ~Shifted
      BY DEF Shifted, Fails, HandledSites
    <2>4. Goes \/ (Continue /\ UNCHANGED value)
      BY <1>1, <2>1, <2>2, <2>3, WalkShape DEF Replaced, Added, Splayed, Holds
    <2> QED
      BY <1>2, <1>3, <2>4 DEF Goes
  <1> QED
    BY <1>2, <1>3, WalkGains

\* The walk announces its key to every BranchU it passes, and keeps its word.
LEMMA WalkSums ==
    ASSUME FailSites \subseteq HandledSites, ShapeInv, PopInv, SumsInv, Walk
    PROVE  SumsInv'
  <1>1. /\ pc = "walk" /\ TypeOK /\ TypeOK' /\ FormInv /\ KeptInv /\ Formed(jp)
        /\ OwnKeys(jp) /\ KeysInLeaves(jp) /\ OctantsTold(jp) /\ ~Get(jp, key)
    <2>1. Next
      BY DEF Next
    <2> QED
      BY <2>1, NextShape DEF Walk, ShapeInv, KeptInv, FormInv, SumsInv
  <1>2. /\ key \in Index /\ level \in Level /\ Pjp \in Slots /\ Pjp[1] = level
        /\ jp \in [Slots -> JP] /\ Here = jp[Pjp] /\ Here \in JP /\ Pjp = Slot(key, level)
        /\ digit = key[level] /\ digit \in Digit /\ (Here.type \in Branch => level > 1)
    BY <1>1, HereType DEF TypeOK, Here, Pjp, digit
  <1>3. WalkAbsent
    BY <1>1, WalkGoes DEF Walk, WalkPresent
  <1>4. \A site : site \notin HandledSites => ~WalkFails(site)
    BY DEF WalkFails, Fails
  <1>5. ~WalkFails("JBU")
    BY <1>4 DEF HandledSites
  <1>6. \A s \in Slots : s[1] \in Level /\ s[1] \in Int
    BY SlotKey DEF Level
  <1>7. \A s \in Slots : s[1] = level /\ s = Slot(key, s[1]) => s = Pjp
    BY <1>2
  <1>8. CASE Placed /\ Gains({key}) /\ ~Enters(Here, digit)
    <2>1. ~BranchUDescend /\ ~BranchLToU /\ ~BranchBToU
      <3>1. pc' = "up"
        BY <1>8 DEF Placed, WalkReturn
      <3> QED
        BY <1>1, <1>5, <3>1 DEF BranchUDescend, BranchLToU, BranchBToU, Continue, Descend, frame
    <2>2. Quiet
      BY <1>1, <1>3, <2>1, WalkQuiet
    <2>3. pc' = "up"
      BY <1>8 DEF Placed, WalkReturn
    <2>4. ASSUME NEW s \in Slots, jp'[s].type = "BRANCH_U", NEW g \in Digit
          PROVE  jp'[s].sums[g] = Cardinality(Group(jp', s, g)) + 0
      <3>1. s # Pjp /\ jp[s].type = "BRANCH_U" /\ jp'[s].sums = jp[s].sums
        BY <2>2, <2>4 DEF Quiet
      <3>2. Announced(s) <=> Slot(key, s[1]) = s
        <4>1. s = Slot(key, s[1]) => s[1] >= level
          BY <1>1, <1>8, <3>1, OnPath DEF Branch
        <4>2. s = Slot(key, s[1]) => s[1] # level
          BY <1>7, <3>1
        <4> QED
          BY <1>1, <1>2, <1>6, <4>1, <4>2 DEF Announced, Level
      <3>3. jp[s].sums[g] = Cardinality(Group(jp, s, g))
                + (IF Slot(key, s[1]) = s /\ key[s[1]] \div GROUP8 = g THEN 1 ELSE 0)
        BY <3>1, <3>2 DEF SumsInv
      <3>4. Cardinality(Group(jp', s, g)) = Cardinality(Group(jp, s, g))
                + (IF Slot(key, s[1]) = s /\ key[s[1]] \div GROUP8 = g THEN 1 ELSE 0)
        BY <1>1, <1>2, <1>8, GroupsRise
      <3>5. Cardinality(Group(jp, s, g)) \in Nat
        BY GroupType
      <3> QED
        BY <3>1, <3>3, <3>4, <3>5
    <2>5. \A s : ~Announced(s)'
      BY <2>3 DEF Announced
    <2> QED
      BY <2>2, <2>3, <2>4, <2>5 DEF SumsInv, Quiet
  <1>9. CASE Gains({}) /\ (Continue \/ Descend)
    <2>1. \A s \in Slots : \A g \in Digit : Group(jp', s, g) = Group(jp, s, g)
      BY <1>9, GroupsStay
    <2>2. ~Get(jp', key)
      BY <1>1, <1>2, <1>9 DEF Gains
    <2>3. Continue \/ Descend
      BY <1>9
    <2>4. pc' = "walk" /\ key' = key /\ (level' = level \/ level' = level - 1)
      BY <1>1, <2>3 DEF Continue, Descend, frame
    <2>5. ASSUME NEW s \in Slots, s # Pjp PROVE Announced(s)' <=> Announced(s)
      <3>1. s = Slot(key, s[1]) => s[1] # level
        BY <1>7, <2>5
      <3> QED
        BY <1>1, <1>2, <1>6, <2>4, <3>1 DEF Announced, Level
    <2>6. CASE BranchUDescend
      <3> DEFINE J == [Here EXCEPT !.sums = Bump(@, digit \div GROUP8)]
      <3>1. /\ jp' = [jp EXCEPT ![Pjp] = J] /\ level' = level - 1 /\ Here.type = "BRANCH_U"
        BY <1>2, <2>6 DEF BranchUDescend, Descend
      <3>2. J.type = Here.type /\ J.sums = Bump(Here.sums, digit \div GROUP8)
        BY <1>2 DEF JP
      <3> HIDE DEF J
      <3>3. \A s \in Slots : jp'[s] = IF s = Pjp THEN J ELSE jp[s]
        BY <1>2, <3>1
      <3>4. OctantsTold(jp')
        BY <1>1, <3>1, <3>2, <3>3 DEF OctantsTold
      <3>5. ASSUME NEW s \in Slots, s = Pjp PROVE ~Announced(s) /\ Announced(s)'
        BY <1>2, <2>4, <3>1, <3>5 DEF Announced, Level
      <3>6. ASSUME NEW g \in Digit
            PROVE  J.sums[g] = Here.sums[g] + (IF digit \div GROUP8 = g THEN 1 ELSE 0)
        <4>1. Here.sums \in [Digit -> Nat]
          BY <1>2 DEF JP
        <4> QED
          BY <3>2, <4>1 DEF Bump
      <3>7. ASSUME NEW s \in Slots, jp'[s].type = "BRANCH_U", NEW g \in Digit
            PROVE  jp'[s].sums[g] = Cardinality(Group(jp', s, g))
                       + (IF Announced(s)' /\ key[s[1]] \div GROUP8 = g THEN 1 ELSE 0)
        <4>1. CASE s = Pjp
          <5>1. jp[s].sums[g] = Cardinality(Group(jp, s, g)) + 0
            BY <1>2, <3>1, <3>5, <4>1 DEF SumsInv
          <5>2. Cardinality(Group(jp, s, g)) \in Nat
            BY GroupType
          <5>3. jp'[s].sums[g] = jp[s].sums[g] + (IF key[s[1]] \div GROUP8 = g THEN 1 ELSE 0)
            BY <1>2, <3>3, <3>6, <4>1
          <5> QED
            BY <2>1, <3>5, <4>1, <5>1, <5>2, <5>3
        <4>2. CASE s # Pjp
          <5>1. jp'[s] = jp[s] /\ (Announced(s)' <=> Announced(s))
            BY <2>5, <3>3, <4>2
          <5> QED
            BY <2>1, <3>7, <5>1 DEF SumsInv
        <4> QED
          BY <4>1, <4>2
      <3> QED
        BY <2>2, <2>4, <3>4, <3>7 DEF SumsInv
    <2>7. CASE BranchLToU \/ BranchBToU
      <3> DEFINE J == [Here EXCEPT !.type = "BRANCH_U", !.exp = {},
                                   !.sums = Sums8(jp, Pjp, Here.exp)]
      <3>1. /\ jp' = [jp EXCEPT ![Pjp] = J] /\ level' = level
            /\ Here.type \in {"BRANCH_L", "BRANCH_B"}
        BY <1>2, <1>5, <2>7 DEF BranchLToU, BranchBToU, Continue, frame
      <3>2. J.type = "BRANCH_U" /\ J.sums = Sums8(jp, Pjp, Here.exp)
        BY <1>2 DEF JP
      <3> HIDE DEF J
      <3>3. \A s \in Slots : jp'[s] = IF s = Pjp THEN J ELSE jp[s]
        BY <1>2, <3>1
      <3>4. OctantsTold(jp')
        BY <1>1, <3>1, <3>2, <3>3 DEF OctantsTold
      <3>5. ASSUME NEW s \in Slots, s = Pjp PROVE ~Announced(s)'
        BY <1>2, <2>4, <3>1, <3>5 DEF Announced, Level
      <3>6. Counts(jp)
        <4>1. \A s : ~Uncounted(s)
          BY <1>1 DEF Uncounted
        <4> QED
          BY <1>1, <4>1, CountsType DEF PopInv, Counts
      <3>7. \A g \in Digit : J.sums[g] = Cardinality(Group(jp, Pjp, g))
        BY <1>1, <1>2, <3>1, <3>2, <3>6, Sums8Is DEF Branch
      <3>8. ASSUME NEW s \in Slots, jp'[s].type = "BRANCH_U", NEW g \in Digit
            PROVE  jp'[s].sums[g] = Cardinality(Group(jp', s, g))
                       + (IF Announced(s)' /\ key[s[1]] \div GROUP8 = g THEN 1 ELSE 0)
        <4>1. CASE s = Pjp
          <5>1. Cardinality(Group(jp, s, g)) \in Nat
            BY GroupType
          <5> QED
            BY <2>1, <3>3, <3>5, <3>7, <4>1, <5>1
        <4>2. CASE s # Pjp
          <5>1. jp'[s] = jp[s] /\ (Announced(s)' <=> Announced(s))
            BY <2>5, <3>3, <4>2
          <5> QED
            BY <2>1, <3>8, <5>1 DEF SumsInv
        <4> QED
          BY <4>1, <4>2
      <3> QED
        BY <2>2, <2>4, <3>4, <3>8 DEF SumsInv
    <2>8. CASE ~BranchUDescend /\ ~BranchLToU /\ ~BranchBToU
      <3>1. Quiet
        BY <1>1, <1>3, <2>8, WalkQuiet
      <3>2. ASSUME NEW s \in Slots, jp'[s].type = "BRANCH_U", NEW g \in Digit
            PROVE  jp'[s].sums[g] = Cardinality(Group(jp', s, g))
                       + (IF Announced(s)' /\ key[s[1]] \div GROUP8 = g THEN 1 ELSE 0)
        <4>1. s # Pjp /\ jp[s].type = "BRANCH_U" /\ jp'[s].sums = jp[s].sums
          BY <3>1, <3>2 DEF Quiet
        <4>2. Announced(s)' <=> Announced(s)
          BY <2>5, <4>1
        <4> QED
          BY <2>1, <4>1, <4>2 DEF SumsInv
      <3> QED
        BY <2>2, <2>4, <3>1, <3>2 DEF SumsInv, Quiet
    <2> QED
      BY <2>6, <2>7, <2>8
  <1> QED
    BY <1>1, <1>8, <1>9, WalkGoes

\* The insertions that return without a walk, or start one.
LEMMA InsSums ==
    ASSUME FailSites \subseteq HandledSites, ShapeInv, PopInv, SumsInv, NEW k \in Index, Ins(k)
    PROVE  SumsInv'
  <1>0. /\ TypeOK /\ FormInv /\ KeptInv /\ OwnKeys(jp) /\ KeysInLeaves(jp) /\ Formed(jp)
        /\ jp \in [Slots -> JP] /\ RootSlot \in Slots /\ Slot(k, RootLevel) = RootSlot
        /\ RootSlot[1] = RootLevel /\ RootLevel > 2 /\ OctantsTold(jp)
        /\ RootLevel \in Level /\ RootLevel > 1 /\ k \in Key /\ Reaches(jp, k, RootLevel)
    BY RootSlotType, IndexKey, ReachesRoot, SizeAssumption
       DEF ShapeInv, KeptInv, FormInv, TypeOK, Slot, RootSlot, SumsInv
  <1>1. pc = "idle" /\ \A s : ~Announced(s)
    BY DEF Ins, InsPresent, InsEmpty, InsLeaf8, InsCascade8, InsTree, Callable, Announced
  <1>2. ~JudyLGet(jp, k) => ~Get(jp, k)
    BY <1>0, GetsSame
  <1>3. CASE InsTree(k)
    <2>1. jp' = jp /\ pc' = "walk" /\ key' = k /\ level' = RootLevel /\ ~Get(jp, k)
      BY <1>2, <1>3 DEF InsTree, StartWalk, tree
    <2>2. \A s \in Slots : ~(s[1] > RootLevel)
      <3>1. \A s \in Slots : s[1] \in Level
        BY SlotKey
      <3> QED
        BY <3>1, SizeAssumption DEF Level
    <2>3. \A s \in Slots : ~Announced(s)'
      BY <2>1, <2>2 DEF Announced
    <2>4. ASSUME NEW s \in Slots, jp'[s].type = "BRANCH_U", NEW g \in Digit
          PROVE  jp'[s].sums[g] = Cardinality(Group(jp', s, g)) + 0
      BY <1>1, <2>1, <2>4 DEF SumsInv
    <2> QED
      BY <1>0, <2>1, <2>3, <2>4 DEF SumsInv
  <1>4. CASE UNCHANGED tree /\ ~InsTree(k)
    <2>1. pc' # "walk"
      BY <1>1, <1>4 DEF Ins, InsPresent, InsEmpty, InsLeaf8, InsCascade8,
                  NoMem, Inserted, Answer, StartWalk, frame, tree
    <2>2. Gains({})
      BY <1>4 DEF Gains, tree
    <2> QED
      BY <1>1, <1>4, <2>1, <2>2, SumsStay DEF tree
  <1>5. ASSUME /\ jp'[RootSlot].type = "LEAF"
                /\ \A s \in Slots : s # RootSlot => jp'[s].type = "NULL",
                pc' = "idle"
         PROVE  SumsInv'
    <2>1. \A s \in Slots : jp'[s].type # "BRANCH_U"
      BY <1>5
    <2>2. OctantsTold(jp')
      <3> SUFFICES ASSUME NEW s \in Slots, jp'[s].type = "LEAF", s[1] <= 2 PROVE FALSE
        BY DEF OctantsTold
      <3>1. s = RootSlot
        BY <1>5
      <3> QED
        BY <1>0, <3>1, SizeAssumption
    <2> QED
      BY <1>5, <2>1, <2>2 DEF SumsInv
  <1>6. CASE InsEmpty(k) /\ ~UNCHANGED tree
    <2>1. /\ root = "NULL" /\ pc' = "idle"
          /\ jp' = [jp EXCEPT ![RootSlot] = LeafJP(RootLevel, {k})]
      BY <1>1, <1>6 DEF InsEmpty, tree, Inserted, Answer, frame
    <2>2. LeafJP(RootLevel, {k}).type = "LEAF"
      BY DEF LeafJP, NullJP
    <2>3. \A s \in Slots : jp[s].type = "NULL"
      BY <1>0, <2>1 DEF FormInv, EmptyTree, NullJP
    <2>4. /\ jp'[RootSlot].type = "LEAF"
          /\ \A s \in Slots : s # RootSlot => jp'[s].type = "NULL"
      BY <1>0, <2>1, <2>2, <2>3
    <2> QED
      BY <1>5, <2>1, <2>4
  <1>7. CASE InsLeaf8(k) /\ ~UNCHANGED tree
    <2>1. /\ root = "LEAF8" /\ pc' = "idle"
          /\ jp' = [jp EXCEPT ![RootSlot].keys = @ \cup {k}]
      BY <1>1, <1>7 DEF InsLeaf8, tree, Inserted, Answer, frame
    <2>2. jp[RootSlot].type = "LEAF" /\ \A s \in Slots : s # RootSlot => jp[s].type = "NULL"
      BY <1>0, <2>1, Leaf8Alone DEF KeptInv
    <2>3. \A s \in Slots : jp'[s].type = jp[s].type
      BY <1>0, <2>1 DEF JP
    <2> QED
      BY <1>0, <1>5, <2>1, <2>2, <2>3
  <1>8. CASE InsCascade8(k) /\ ~UNCHANGED tree
    <2>1. /\ root = "LEAF8" /\ jp' = Splay(jp, Slot(k, RootLevel)) /\ key' = k
          /\ Cardinality(jp[Slot(k, RootLevel)].keys) = LEAF_MAXPOP1[RootLevel]
          /\ ~Get(jp, k)
      BY <1>0, <1>2, <1>8 DEF InsCascade8, tree, StartWalk, Pop8, LEAF8_MAXPOP1
    <2>2. jp[Slot(k, RootLevel)].type = "LEAF"
      BY <1>0, <2>1 DEF KeptInv
    <2>3. \A j \in Index : Get(jp', j) <=> Get(jp, j)
      BY <1>0, <2>1, <2>2, SplayPop
    <2>4. /\ OctantsTold(jp')
          /\ \A u \in Slots : jp'[u].type = "BRANCH_U" => u # RootSlot /\ jp'[u] = jp[u]
      BY <1>0, <2>1, SplaySums
    <2>5. \A u \in Slots : u # RootSlot => jp[u].type = "NULL"
      BY <1>0, <2>1, Leaf8Alone
    <2> QED
      BY <2>1, <2>3, <2>4, <2>5 DEF SumsInv
  <1>9. InsPresent(k) => UNCHANGED tree /\ ~InsTree(k)
    BY DEF InsPresent, InsTree
  <1>10. InsEmpty(k) \/ InsLeaf8(k) \/ InsCascade8(k) => ~InsTree(k)
    BY DEF InsEmpty, InsLeaf8, InsCascade8, InsTree
  <1> QED
    BY <1>3, <1>4, <1>6, <1>7, <1>8, <1>9, <1>10 DEF Ins

\* Every step.
LEMMA NextSums ==
    ASSUME FailSites \subseteq HandledSites, ShapeInv, PopInv, SumsInv, [Next]_vars
    PROVE  SumsInv'
  <1>1. ASSUME UNCHANGED tree, pc # "walk", pc' # "walk" PROVE SumsInv'
    <2>1. Gains({})
      BY <1>1 DEF Gains, tree
    <2> QED
      BY <1>1, <2>1, SumsStay DEF tree
  <1>2. ASSUME NEW k \in Index, Del(k) PROVE SumsInv'
    BY <1>1, <1>2 DEF Del, Callable, Answer, frame
  <1>3. ASSUME NEW v \in Value, Store(v) PROVE SumsInv'
    BY <1>1, <1>3 DEF Store, Callable, frame
  <1>4. CASE FreeArray
    <2>1. jp' = EmptyTree /\ pc' = "idle"
      BY <1>4 DEF FreeArray, Callable, Answer, frame
    <2>2. \A s \in Slots : jp'[s].type = "NULL"
      BY <2>1 DEF EmptyTree, NullJP
    <2> QED
      BY <2>1, <2>2 DEF SumsInv, OctantsTold
  <1>5. CASE WalkUp \/ InsDone
    <2>1. pc = "up" /\ pc' # "walk"
      BY <1>5 DEF WalkUp, InsDone
    <2> QED
      BY <1>5, <2>1, UpGains, SumsStay
  <1>6. CASE UNCHANGED vars
    BY <1>6 DEF SumsInv, Announced, Group, OctantsTold, vars, tree, frame
  <1> QED
    BY <1>2, <1>3, <1>4, <1>5, <1>6, InsSums, WalkSums DEF Next

\* What the next theorems rest on.
CountInv == ShapeInv /\ PopInv /\ SumsInv

\* It is inductive.
LEMMA CountsKept ==
    ASSUME FailSites \subseteq HandledSites
    PROVE  /\ Init => CountInv
           /\ CountInv /\ [Next]_vars => CountInv'
  <1>1. ASSUME Init PROVE CountInv
    <2>1. \A s \in Slots : jp[s].type = "NULL" /\ jp[s].keys = {}
      BY <1>1 DEF Init, EmptyTree, NullJP
    <2>2. root = "NULL" /\ pc = "idle" /\ ret = 1 /\ reply.op # "Free" /\ jp = EmptyTree
      BY <1>1 DEF Init
    <2>3. PopInv
      BY <2>1, <2>2 DEF PopInv, Branch
    <2>4. SumsInv
      BY <2>1, <2>2 DEF SumsInv, OctantsTold
    <2> QED
      BY <1>1, <2>1, <2>2, <2>3, <2>4, InitType, EmptyFormed
         DEF CountInv, ShapeInv, KeptInv, RootInv, FormInv, OwnKeys, KeysInLeaves
  <1>2. ASSUME CountInv, [Next]_vars PROVE CountInv'
    BY <1>2, NextShape, NextPop, NextSums DEF CountInv
  <1> QED
    BY <1>1, <1>2

(***************************************************************************)
(* The counters that Get and Count find their way by are right: jbu_sums8  *)
(* of every BranchU is the number of keys of the group that Get finds      *)
(* below, the key that a walk on its way down has announced included, and  *)
(* the octants of every Leaf1 and Leaf2 are those of its keys, as long as  *)
(* malloc fails only where JudyLIns itself allocates.                      *)
(***************************************************************************)
THEOREM SumsTold ==
    ASSUME FailSites \subseteq HandledSites
    PROVE  Spec => []SumsExact
  <1>1. Init => CountInv
    BY CountsKept
  <1>2. CountInv /\ [Next]_vars => CountInv'
    BY CountsKept
  <1>3. CountInv => SumsExact
    BY DEF CountInv, SumsInv, SumsExact, OctantsTold, Group, Reachable
  <1> QED
    BY <1>1, <1>2, <1>3, PTL DEF Spec

(***************************************************************************)
(* Whenever a call can be made, JudyLGet, which adds up octants to find    *)
(* its place in a leaf, finds the keys that a search of the whole leaf     *)
(* finds: under the same assumption on failures.  After a failure in a     *)
(* Leaf2 it does not.                                                      *)
(***************************************************************************)
THEOREM GetsTold ==
    ASSUME FailSites \subseteq HandledSites
    PROVE  Spec => []GetAgrees
  <1>1. Init => CountInv
    BY CountsKept
  <1>2. CountInv /\ [Next]_vars => CountInv'
    BY CountsKept
  <1>3. CountInv => GetAgrees
    BY GetsSame DEF CountInv, SumsInv, ShapeInv, TypeOK, KeptInv, FormInv, GetAgrees
  <1> QED
    BY <1>1, <1>2, <1>3, PTL DEF Spec

-----------------------------------------------------------------------------
(* FreeArray *)

\* The keys of the JPs that j__udyFreeSM comes to are those Get finds, each once.
LEMMA FreedPop1Is ==
    ASSUME NEW t \in [Slots -> JP], Formed(t), OwnKeys(t), KeysInLeaves(t)
    PROVE  FreedPop1(t) = Cardinality({k \in Index : Get(t, k)})
  <1> DEFINE S == {r \in Reachable(t) : t[r].type \notin Branch}
             f == [s \in S |-> JPPop1(t[s])]
             K == [s \in S |-> t[s].keys]
             V == {k \in Index : Get(t, k)}
  <1>1. S \subseteq Slots /\ IsFiniteSet(S)
    <2>1. S \subseteq Slots
      BY DEF Reachable
    <2> QED
      BY <2>1, FiniteSlots, FS_Subset
  <1>2. \A s \in S : IsFiniteSet(K[s]) /\ f[s] = Cardinality(K[s])
    <2>1. \A s \in S : t[s].keys \in SUBSET Index
      BY <1>1 DEF JP
    <2> QED
      BY <1>1, <2>1, KeysFinite, LeafPop1
  <1>3. ASSUME NEW s \in Slots, NEW k \in t[s].keys
        PROVE  /\ k \in Index /\ k \in Key /\ Slot(k, s[1]) = s /\ s[1] \in Level
               /\ Reaches(t, k, s[1]) /\ t[s].type \notin Branch
    <2>1. k \in Index /\ k \in Key /\ Slot(k, s[1]) = s /\ s[1] \in Level
      BY IndexKey, SlotKey DEF OwnKeys, JP
    <2>2. t[s].type \notin Branch \cup {"NULL"}
      BY DEF KeysInLeaves
    <2> QED
      BY <2>1, <2>2 DEF Formed, Rooted
  <1>4. ASSUME NEW x \in S, NEW y \in S, x # y, NEW k \in K[x], k \in K[y] PROVE FALSE
    <2>1. /\ Slot(k, x[1]) = x /\ x[1] \in Level /\ Reaches(t, k, x[1]) /\ t[x].type \notin Branch
          /\ Slot(k, y[1]) = y /\ y[1] \in Level /\ Reaches(t, k, y[1]) /\ t[y].type \notin Branch
      BY <1>1, <1>3, <1>4
    <2>2. \A d : ~Enters(t[x], d) /\ ~Enters(t[y], d)
      BY <2>1 DEF Enters, EntersL, EntersB, EntersU, Branch
    <2>3. ~(x[1] > y[1]) /\ ~(y[1] > x[1])
      BY <2>1, <2>2, ReachesAbove
    <2> QED
      BY <1>4, <2>1, <2>3, SizeAssumption DEF Level
  <1>5. ASSUME NEW k \in V PROVE \E s \in S : k \in K[s]
    <2>1. PICK s \in Slots : k \in t[s].keys
      BY Held
    <2>2. s \in S
      BY <1>3, <2>1, ReachesReachable
    <2> QED
      BY <2>1, <2>2
  <1>6. ASSUME NEW s \in S, NEW k \in K[s] PROVE k \in V
    BY <1>1, <1>3, <1>6, Held
  <1>7. FreedPop1(t) = SumFunctionOnSet(f, S)
    BY DEF FreedPop1, SumFunction
  <1> HIDE DEF S, f, K, V
  <1>8. /\ IsFiniteSet(S)
        /\ \A s \in S : IsFiniteSet(K[s]) /\ f[s] = Cardinality(K[s])
        /\ \A x, y \in S : x # y => K[x] \cap K[y] = {}
        /\ \A k : k \in V <=> \E s \in S : k \in K[s]
    BY <1>1, <1>2, <1>4, <1>5, <1>6
  <1>9. SumFunctionOnSet(f, S) = Cardinality(V)
    BY <1>8, SumSizes
  <1> QED
    BY <1>7, <1>9 DEF V

-----------------------------------------------------------------------------
(* The array is a map *)

(***************************************************************************)
(* What a call needs to know to keep its promise: the key that the frames  *)
(* return with is in, with the word 0, and jpm_PValue addresses it; the    *)
(* pointer that the caller was given last is to the word of its key.       *)
(***************************************************************************)
ReplyInv ==
    /\ pc = "up" => ret = 1 /\ Get(jp, key) /\ value[key] = 0 /\ (JUDYL => pvalue = key)
    /\ pc = "idle" /\ reply.op = "Ins" /\ reply.code \in {"new", "old"} =>
           reply.key \in Index /\ reply.at = reply.key

\* All that the promise rests on.
PromiseInv == CountInv /\ MemInv /\ ReplyInv

\* The map that the caller sees.
Seen == [k \in Committed |-> value[k]]

\* The caller sees no difference.
LEMMA SeenSame ==
    ASSUME Committed' = Committed, \A k \in Committed : value'[k] = value[k]
    PROVE  Seen' = Seen
  BY DEF Seen

\* A walk changes nothing that the caller sees.
LEMMA WalkSeen ==
    ASSUME FailSites \subseteq HandledSites, PromiseInv, Walk
    PROVE  UNCHANGED <<Seen, reply>> /\ ReplyInv'
  <1>1. ShapeInv /\ ShapeInv' /\ TypeOK /\ TypeOK' /\ KeptInv
    <2>1. Next
      BY DEF Next
    <2> QED
      BY <2>1, NextShape DEF PromiseInv, CountInv, ShapeInv
  <1>2. /\ pc = "walk" /\ UNCHANGED reply /\ ~Get(jp, key) /\ key \in Index
        /\ value \in [Index -> Value]
    BY <1>1, HereType DEF Walk, PromiseInv, CountInv, SumsInv, TypeOK
  <1>3. Committed = Content
    BY <1>2 DEF Committed, Content
  <1>4. CASE Placed /\ Gains({key})
    <2>1. /\ pc' = "up" /\ ret' = 1 /\ key' = key /\ value' = [value EXCEPT ![key] = 0]
          /\ pvalue' = IF JUDYL THEN key ELSE pvalue
      BY <1>4 DEF Placed, WalkReturn
    <2>2. Committed' = Content
      BY <1>2, <1>4, <2>1 DEF Committed, Content, Gains
    <2>3. \A k \in Committed : value'[k] = value[k]
      BY <1>2, <1>3, <2>1 DEF Content
    <2>4. ReplyInv'
      BY <1>2, <1>4, <2>1 DEF ReplyInv, Gains
    <2> QED
      BY <1>2, <1>3, <2>2, <2>3, <2>4, SeenSame
  <1>5. CASE Gains({}) /\ UNCHANGED value /\ (Continue \/ Descend)
    <2>1. pc' = "walk" /\ key' = key
      BY <1>2, <1>5 DEF Continue, Descend, frame
    <2>2. Committed' = Content
      BY <1>2, <1>5, <2>1 DEF Committed, Content, Gains
    <2>3. ReplyInv'
      BY <2>1 DEF ReplyInv
    <2> QED
      BY <1>2, <1>3, <1>5, <2>2, <2>3, SeenSame
  <1> QED
    BY <1>1, <1>2, <1>4, <1>5, WalkGoes

\* Nor do the frames that return.
LEMMA UpSeen ==
    ASSUME FailSites \subseteq HandledSites, PromiseInv, WalkUp
    PROVE  UNCHANGED <<Seen, reply>> /\ ReplyInv'
  <1>1. ShapeInv /\ Gains({})
    BY UpGains DEF PromiseInv, CountInv
  <1>2. /\ pc = "up" /\ pc' = "up" /\ key' = key /\ ret = 1 /\ ret' = 1
        /\ UNCHANGED <<value, pvalue, reply>>
    BY DEF WalkUp, PromiseInv, ReplyInv, data
  <1>3. Committed' = Committed
    BY <1>1, <1>2 DEF Committed, Content, Gains
  <1>4. key \in Index
    BY <1>1, <1>2 DEF ShapeInv, TypeOK
  <1>5. ReplyInv'
    BY <1>1, <1>2, <1>4 DEF ReplyInv, PromiseInv, Gains
  <1> QED
    BY <1>2, <1>3, <1>5, SeenSame

\* The call that returns has inserted its key.
LEMMA DoneSeen ==
    ASSUME FailSites \subseteq HandledSites, PromiseInv, InsDone
    PROVE  /\ key \in Index /\ key \notin Committed
           /\ Seen' = [j \in Committed \cup {key} |-> IF j = key THEN 0 ELSE Seen[j]]
           /\ reply' = [op |-> "Ins", key |-> key, code |-> "new", at |-> key]
           /\ ReplyInv'
  <1>1. ShapeInv /\ Gains({}) /\ TypeOK
    BY UpGains DEF PromiseInv, CountInv, ShapeInv
  <1>2. /\ pc = "up" /\ pc' = "idle" /\ ret = 1 /\ UNCHANGED <<value, pvalue>>
        /\ Get(jp, key) /\ value[key] = 0 /\ (JUDYL => pvalue = key)
        /\ key \in Index
    BY <1>1 DEF InsDone, PromiseInv, ReplyInv, data, TypeOK
  <1>3. reply' = [op |-> "Ins", key |-> key, code |-> "new", at |-> key]
    BY <1>2 DEF InsDone
  <1>4. Committed = Content \ {key} /\ Committed' = Content /\ key \in Content
    BY <1>1, <1>2 DEF Committed, Content, Gains
  <1>5. Seen' = [j \in Committed \cup {key} |-> IF j = key THEN 0 ELSE Seen[j]]
    BY <1>2, <1>4 DEF Seen
  <1>6. ReplyInv'
    BY <1>2, <1>3 DEF ReplyInv
  <1> QED
    BY <1>2, <1>3, <1>4, <1>5, <1>6


\* What is known of the array between two calls.
LEMMA AtRest ==
    ASSUME PromiseInv, pc = "idle"
    PROVE  /\ Committed = Content /\ ShapeInv /\ TypeOK /\ ret = 1
           /\ jp \in [Slots -> JP] /\ value \in [Index -> Value]
           /\ \A k \in Index : k \in Content <=> Get(jp, k)
           /\ \A k \in Index : JudyLGet(jp, k) <=> Get(jp, k)
  <1>1. ShapeInv /\ TypeOK /\ KeptInv /\ FormInv /\ SumsInv /\ RootInv
    BY DEF PromiseInv, CountInv, ShapeInv
  <1>2. Committed = Content
    BY DEF Committed
  <1>3. \A k \in Index : JudyLGet(jp, k) <=> Get(jp, k)
    BY <1>1, GetsSame DEF TypeOK, KeptInv, FormInv, SumsInv
  <1> QED
    BY <1>1, <1>2, <1>3 DEF Content, TypeOK, RootInv

\* A call that returns without a word for a key, the tree as it was.
LEMMA QuietSeen ==
    ASSUME PromiseInv, pc = "idle", UNCHANGED jp, pc' \in {"idle", "exited"},
           \A k \in Committed : value'[k] = value[k]
    PROVE  Seen' = Seen
  <1>1. Committed' = Committed
    BY DEF Committed, Content
  <1> QED
    BY <1>1, SeenSame

\* An insertion that adds its key at once.
LEMMA AddedSeen ==
    ASSUME PromiseInv, pc = "idle", pc' = "idle", NEW k \in Index, Gains({k}),
           value' = [value EXCEPT ![k] = 0]
    PROVE  Seen' = [j \in Committed \cup {k} |-> IF j = k THEN 0 ELSE Seen[j]]
  <1>1. Committed = Content /\ value \in [Index -> Value]
    BY AtRest
  <1>2. Committed' = Content \cup {k}
    BY DEF Committed, Content, Gains
  <1>3. \A j \in Content \cup {k} : value'[j] = IF j = k THEN 0 ELSE value[j]
    BY <1>1 DEF Content
  <1> QED
    BY <1>1, <1>2, <1>3 DEF Seen

(***************************************************************************)
(* What JudyLIns answers, the walk apart: the key is there, it is added,   *)
(* or there was no memory for it.                                          *)
(***************************************************************************)
InsSaid(k) ==
    LET Said(c) == reply' = [op |-> "Ins", key |-> k, code |-> c, at |-> k]
    IN  \/ k \in Committed /\ Said("old") /\ UNCHANGED Seen
        \/ /\ k \notin Committed /\ Said("new")
           /\ Seen' = [j \in Committed \cup {k} |-> IF j = k THEN 0 ELSE Seen[j]]
        \/ /\ k \notin Committed /\ FailSites # {} /\ UNCHANGED Seen
           /\ reply' = [op |-> "Ins", key |-> k, code |-> "nomem"]

\* The answers that are not followed by a walk leave a pointer to their key.
LEMMA SaidReply ==
    ASSUME NEW k \in Index, InsSaid(k), pc' = "idle"
    PROVE  ReplyInv'
  BY DEF InsSaid, ReplyInv

\* An array of at most a LEAF8 gets the key or runs out of memory.
LEMMA SmallSeen ==
    ASSUME FailSites \subseteq HandledSites, PromiseInv, NEW k \in Index,
           InsEmpty(k) \/ InsLeaf8(k)
    PROVE  InsSaid(k) /\ pc' = "idle"
  <1> DEFINE J == [jp[RootSlot] EXCEPT !.keys = @ \cup {k}]
             Adds1 == /\ Inserted(k) /\ value' = [value EXCEPT ![k] = 0]
                      /\ \/ jp' = [jp EXCEPT ![RootSlot] = LeafJP(RootLevel, {k})]
                         \/ jp' = [jp EXCEPT ![RootSlot] = J]
  <1> HIDE DEF Adds1
  <1>1. /\ pc = "idle" /\ pc' = "idle" /\ root \in {"NULL", "LEAF8"}
        /\ root = "LEAF8" => ~JudyLGet(jp, k)
        /\ (NoMem(k) /\ UNCHANGED <<jp, value>> /\ FailSites # {}) \/ Adds1
    BY DEF Adds1, InsEmpty, InsLeaf8, Callable, NoMem, Inserted, Answer, frame, Fails
  <1>2. /\ Committed = Content /\ ShapeInv /\ TypeOK /\ KeptInv /\ jp \in [Slots -> JP]
        /\ \A j \in Index : j \in Content <=> Get(jp, j)
        /\ \A j \in Index : JudyLGet(jp, j) <=> Get(jp, j)
    BY <1>1, AtRest DEF ShapeInv
  <1>3. k \notin Committed
    <2>1. CASE root = "NULL"
      BY <1>2, <2>1, SlotType DEF KeptInv, Get
    <2> QED
      BY <1>1, <1>2, <2>1
  <1>4. CASE NoMem(k) /\ UNCHANGED <<jp, value>> /\ FailSites # {}
    <2>1. Seen' = Seen
      BY <1>1, <1>4, QuietSeen
    <2> QED
      BY <1>1, <1>3, <1>4, <2>1 DEF InsSaid, NoMem, Answer
  <1>5. CASE Adds1
    <2>0. /\ Inserted(k) /\ value' = [value EXCEPT ![k] = 0]
          /\ \/ jp' = [jp EXCEPT ![RootSlot] = LeafJP(RootLevel, {k})]
             \/ jp' = [jp EXCEPT ![RootSlot] = J]
      BY <1>5 DEF Adds1
    <2>1. ShapeInv' /\ Kept
      <3>1. Ins(k) /\ Next
        BY DEF Ins, Next
      <3> QED
        BY <1>2, <3>1, InsKeeps, NextShape
    <2>2. LeafJP(RootLevel, {k}).keys = {k} /\ RootSlot \in Slots
      BY RootSlotType DEF LeafJP, NullJP
    <2>3. J.keys = jp[RootSlot].keys \cup {k}
      <3>1. jp[RootSlot] \in JP
        BY <1>2, <2>2
      <3> QED
        BY <3>1 DEF JP
    <2> HIDE DEF J
    <2>4. Get(jp', k)
      <3>1. k \in jp'[RootSlot].keys
        BY <1>2, <2>0, <2>2, <2>3
      <3> QED
        BY <3>1, RootGot
    <2>5. \A s \in Slots : \A j \in jp'[s].keys : j \in {k} \/ \E x \in Slots : j \in jp[x].keys
      BY <1>2, <2>0, <2>2, <2>3
    <2>6. Gains({k})
      <3>1. {k} \in SUBSET Index
        OBVIOUS
      <3> QED
        BY <1>2, <2>1, <2>4, <2>5, <3>1, GainsBy
    <2>7. Seen' = [j \in Committed \cup {k} |-> IF j = k THEN 0 ELSE Seen[j]]
      BY <1>1, <2>0, <2>6, AddedSeen
    <2> QED
      BY <1>1, <1>3, <2>0, <2>7 DEF InsSaid, Inserted, Answer
  <1> QED
    BY <1>1, <1>4, <1>5

\* A call that starts to walk has shown nothing yet.
LEMMA StartSeen ==
    ASSUME PromiseInv, pc = "idle", NEW k \in Index, ~Get(jp, k), StartWalk(k),
           UNCHANGED value, \A j \in Index : Get(jp', j) <=> Get(jp, j)
    PROVE  UNCHANGED <<Seen, reply>> /\ ReplyInv'
  <1>1. pc' = "walk" /\ key' = k /\ reply' = reply
    BY DEF StartWalk
  <1>2. Committed' = Committed
    BY <1>1, AtRest DEF Committed, Content
  <1> QED
    BY <1>1, <1>2, SeenSame DEF ReplyInv

\* JudyLIns answers at once, or starts to walk.
LEMMA InsSeen ==
    ASSUME FailSites \subseteq HandledSites, PromiseInv, NEW k \in Index, Ins(k)
    PROVE  ReplyInv' /\ (InsSaid(k) \/ UNCHANGED <<Seen, reply>>)
  <1>1. pc = "idle"
    BY DEF Ins, InsPresent, InsEmpty, InsLeaf8, InsCascade8, InsTree, Callable
  <1>2. /\ Committed = Content /\ ShapeInv /\ TypeOK /\ KeptInv /\ jp \in [Slots -> JP]
        /\ OwnKeys(jp) /\ KeysInLeaves(jp) /\ Formed(jp)
        /\ \A j \in Index : j \in Content <=> Get(jp, j)
        /\ \A j \in Index : JudyLGet(jp, j) <=> Get(jp, j)
    BY <1>1, AtRest DEF ShapeInv, KeptInv, FormInv
  <1>3. CASE InsPresent(k)
    <2>1. /\ pc' = "idle" /\ UNCHANGED <<jp, value>> /\ k \in Committed
          /\ reply' = [op |-> "Ins", key |-> k, code |-> "old", at |-> k]
      BY <1>1, <1>2, <1>3 DEF InsPresent, Answer, tree, data, frame
    <2>2. InsSaid(k)
      BY <1>1, <2>1, QuietSeen DEF InsSaid
    <2> QED
      BY <2>1, <2>2, SaidReply
  <1>4. CASE InsEmpty(k) \/ InsLeaf8(k)
    BY <1>4, SmallSeen, SaidReply
  <1>5. CASE InsCascade8(k)
    <2>1. /\ root = "LEAF8" /\ ~Get(jp, k) /\ UNCHANGED value
          /\ Cardinality(jp[RootSlot].keys) = LEAF_MAXPOP1[RootLevel]
          /\ \/ NoMem(k) /\ UNCHANGED jp /\ FailSites # {}
             \/ jp' = Splay(jp, RootSlot) /\ StartWalk(k)
      BY <1>2, <1>5 DEF InsCascade8, data, tree, Fails, Pop8, LEAF8_MAXPOP1
    <2>2. CASE NoMem(k) /\ UNCHANGED jp /\ FailSites # {}
      <3>1. pc' = "idle" /\ Seen' = Seen
        BY <1>1, <2>1, <2>2, QuietSeen DEF NoMem, Answer, frame
      <3>2. InsSaid(k)
        BY <1>2, <2>1, <2>2, <3>1 DEF InsSaid, NoMem, Answer
      <3> QED
        BY <3>1, <3>2, SaidReply
    <2>3. CASE jp' = Splay(jp, RootSlot) /\ StartWalk(k)
      <3>1. /\ Slot(k, RootLevel) = RootSlot /\ RootLevel \in Level /\ RootLevel > 1
            /\ k \in Key /\ Reaches(jp, k, RootLevel) /\ jp[RootSlot].type = "LEAF"
        BY <1>2, <2>1, RootSlotType, IndexKey, ReachesRoot, SizeAssumption
           DEF KeptInv, Slot, RootSlot
      <3>2. \A j \in Index : Get(jp', j) <=> Get(jp, j)
        BY <1>2, <2>1, <2>3, <3>1, SplayPop
      <3> QED
        BY <1>1, <2>1, <2>3, <3>2, StartSeen
    <2> QED
      BY <2>1, <2>2, <2>3
  <1>6. CASE InsTree(k)
    BY <1>1, <1>2, <1>6, StartSeen DEF InsTree, tree, data
  <1> QED
    BY <1>3, <1>4, <1>5, <1>6 DEF Ins

\* The test of Del misses no key that is there.
LEMMA DelSeen ==
    ASSUME PromiseInv, NEW k \in Index, Del(k)
    PROVE  /\ ReplyInv' /\ UNCHANGED Seen
           /\ \/ UNCHANGED reply
              \/ /\ k \notin Committed
                 /\ reply' = [op |-> "Del", key |-> k, code |-> "absent"]
  <1>1. /\ pc = "idle" /\ pc' \in {"idle", "exited"} /\ UNCHANGED <<jp, value>>
        /\ \/ UNCHANGED reply /\ pc' = "exited"
           \/ /\ ~j__udyLGet(jp, k)
              /\ reply' = [op |-> "Del", key |-> k, code |-> "absent"]
    BY DEF Del, Callable, Answer, frame, tree, data
  <1>2. /\ Committed = Content /\ KeysInLeaves(jp) /\ jp \in [Slots -> JP]
        /\ k \in Content <=> Get(jp, k)
    BY <1>1, AtRest DEF ShapeInv, KeptInv
  <1>3. Get(jp, k) => j__udyLGet(jp, k)
    <2> SUFFICES ASSUME NEW l \in Level, Reaches(jp, k, l), k \in jp[Slot(k, l)].keys
                 PROVE  j__udyLGet(jp, k)
      BY DEF Get
    <2>1. Slot(k, l) \in Slots
      BY SlotType
    <2>2. jp[Slot(k, l)].type \in {"LEAF", "LEAF_B1U", "FULLPOPU1", "IMMED"}
      BY <1>2, <2>1 DEF KeysInLeaves, JP, JPType, Branch
    <2> QED
      BY <2>2 DEF j__udyLGet, WholeLeaf, RunsOn, WholeFullPop, WholeImmed
  <1>4. Seen' = Seen
    BY <1>1, QuietSeen
  <1> QED
    BY <1>1, <1>2, <1>3, <1>4 DEF ReplyInv

\* The caller writes the word of the key it asked for.
LEMMA StoreSeen ==
    ASSUME PromiseInv, NEW v \in Value, Store(v)
    PROVE  /\ JUDYL /\ reply.op = "Ins" /\ reply.code \in {"new", "old"}
           /\ ReplyInv' /\ UNCHANGED reply
           /\ Seen' = [Seen EXCEPT ![reply.key] = v]
  <1>1. /\ JUDYL /\ reply.op = "Ins" /\ reply.code \in {"new", "old"} /\ UNCHANGED <<jp, reply>>
        /\ pc = "idle" /\ pc' = "idle" /\ value' = [value EXCEPT ![reply.at] = v]
    BY DEF Store, Callable, tree, frame
  <1>2. reply.key \in Index /\ reply.at = reply.key
    BY <1>1 DEF PromiseInv, ReplyInv
  <1>3. Committed' = Committed /\ Committed \subseteq Index /\ value \in [Index -> Value]
    BY <1>1, AtRest DEF Committed, Content
  <1>4. Seen' = [Seen EXCEPT ![reply.key] = v]
    BY <1>1, <1>2, <1>3 DEF Seen
  <1>5. ReplyInv'
    BY <1>1, <1>2 DEF ReplyInv
  <1> QED
    BY <1>1, <1>4, <1>5

\* FreeArray has nothing to complain of.
LEMMA FreeSeen ==
    ASSUME PromiseInv, FreeArray
    PROVE  /\ "Free" \in Calls /\ ReplyInv'
           /\ Seen' = [k \in {} |-> 0]
           /\ reply' = [op |-> "Free", code |-> "ok"]
  <1>1. /\ pc = "idle" /\ pc' = "idle" /\ jp' = EmptyTree /\ "Free" \in Calls
        /\ reply' = [op |-> "Free",
                     code |-> IF root = "JPM" /\ memWords # Freed THEN "corrupt"
                              ELSE IF root = "JPM" /\ FreedPop1(jp) # pop0 + 1
                                   THEN "miscounted" ELSE "ok"]
    BY DEF FreeArray, Callable, Answer, frame
  <1>2. /\ ShapeInv /\ jp \in [Slots -> JP] /\ OwnKeys(jp) /\ KeysInLeaves(jp) /\ Formed(jp)
        /\ PopInv /\ MemInv
    BY <1>1, AtRest DEF ShapeInv, KeptInv, FormInv, PromiseInv, CountInv
  <1>3. root = "JPM" => memWords = Freed
    BY <1>2, TreeWordsAll DEF MemInv, Freed
  <1>4. root = "JPM" => FreedPop1(jp) = pop0 + 1
    <2>1. FreedPop1(jp) = Cardinality(Content)
      BY <1>2, FreedPop1Is DEF Content
    <2>2. pop0 \in Nat
      BY <1>2 DEF ShapeInv, TypeOK
    <2> QED
      BY <1>1, <1>2, <2>1, <2>2 DEF PopInv
  <1>5. Committed' = {}
    <2>1. \A k \in Index : ~Get(jp', k)
      BY <1>1, SlotType DEF Get, EmptyTree, NullJP
    <2> QED
      BY <1>1, <2>1 DEF Committed, Content
  <1>6. Seen' = [k \in {} |-> 0]
    BY <1>5 DEF Seen
  <1>7. reply' = [op |-> "Free", code |-> "ok"]
    BY <1>1, <1>3, <1>4
  <1>8. ReplyInv'
    BY <1>1, <1>7 DEF ReplyInv
  <1> QED
    BY <1>1, <1>6, <1>7, <1>8

\* The words and the counts are right after every step.
LEMMA NextCounts ==
    ASSUME FailSites \subseteq HandledSites, CountInv, MemInv, [Next]_vars
    PROVE  CountInv' /\ MemInv'
  <1>1. CountInv'
    BY CountsKept
  <1> QED
    BY <1>1, NextMem DEF CountInv, ShapeInv

\* What a step shows the caller is a step of the map.
LEMMA NextMap ==
    ASSUME FailSites \subseteq HandledSites, PromiseInv, [Next]_vars
    PROVE  ReplyInv' /\ [Map!Next]_<<Seen, reply>>
  <1> USE DEF Seen
  <1>1. ASSUME NEW k \in Index, Ins(k) PROVE ReplyInv' /\ [Map!Next]_<<Seen, reply>>
    <2>1. ReplyInv' /\ (InsSaid(k) \/ UNCHANGED <<Seen, reply>>)
      BY <1>1, InsSeen
    <2>2. DOMAIN Seen = Committed
      BY DEF Seen
    <2>3. InsSaid(k) => Map!Ins(k) \/ Map!NoMem(k)
      BY <2>2 DEF InsSaid, Map!Ins, Map!NoMem
    <2> QED
      BY <2>1, <2>3 DEF Map!Next
  <1>2. ASSUME NEW k \in Index, Del(k) PROVE ReplyInv' /\ [Map!Next]_<<Seen, reply>>
    <2>1. /\ ReplyInv' /\ UNCHANGED Seen
          /\ \/ UNCHANGED reply
             \/ k \notin Committed /\ reply' = [op |-> "Del", key |-> k, code |-> "absent"]
      BY <1>2, DelSeen
    <2>2. k \notin Committed => Seen = [j \in DOMAIN Seen \ {k} |-> Seen[j]]
      BY DEF Seen
    <2>3. "Del" \in Calls
      BY <1>2 DEF Del
    <2>4. UNCHANGED reply \/ Map!Del(k)
      BY <2>1, <2>2, <2>3 DEF Map!Del
    <2> QED
      BY <2>1, <2>4 DEF Map!Next
  <1>3. ASSUME NEW v \in Value, Store(v) PROVE ReplyInv' /\ [Map!Next]_<<Seen, reply>>
    BY <1>3, StoreSeen DEF Map!Next, Map!Store
  <1>4. CASE FreeArray
    BY <1>4, FreeSeen DEF Map!Next, Map!FreeArray
  <1>5. CASE Walk
    BY <1>5, WalkSeen
  <1>6. CASE WalkUp
    BY <1>6, UpSeen
  <1>7. CASE InsDone
    <2>1. DOMAIN Seen = Committed
      BY DEF Seen
    <2>2. PICK k \in Index : k = key /\ k \notin Committed
      BY <1>7, DoneSeen
    <2>3. ReplyInv' /\ Map!Ins(k)
      BY <1>7, <2>1, <2>2, DoneSeen DEF Map!Ins
    <2> QED
      BY <2>3 DEF Map!Next
  <1>8. CASE UNCHANGED vars
    <2>1. UNCHANGED <<jp, value, pvalue, pc, key, ret, reply>>
      BY <1>8 DEF vars, tree, data, frame
    <2>2. ReplyInv'
      BY <2>1 DEF ReplyInv, PromiseInv
    <2>3. Committed' = Committed
      BY <2>1 DEF Committed, Content
    <2> QED
      BY <2>1, <2>2, <2>3
  <1> QED
    BY <1>1, <1>2, <1>3, <1>4, <1>5, <1>6, <1>7, <1>8 DEF Next

(***************************************************************************)
(* MapSpec: as long as malloc fails only where JudyLIns itself allocates,  *)
(* a Judy array is a map.  Every call is one step of JudyMap: it inserts   *)
(* its key with the word 0, finds it with its own word, or says that there *)
(* is no memory and changes nothing; a pointer handed out addresses the    *)
(* word of the key asked for; Del answers for absent keys only; FreeArray  *)
(* has nothing to complain of.  No step of the walk can be seen.           *)
(***************************************************************************)
THEOREM MapTold ==
    ASSUME FailSites \subseteq HandledSites
    PROVE  Spec => MapSpec
  <1>1. ASSUME Init PROVE PromiseInv /\ Map!Init
    <2>1. CountInv
      BY <1>1, CountsKept
    <2>2. MemInv /\ ReplyInv
      BY <1>1 DEF Init, MemInv, ReplyInv
    <2>3. Committed = {}
      BY <1>1, SlotType DEF Init, Committed, Content, Get, EmptyTree, NullJP
    <2> QED
      BY <1>1, <2>1, <2>2, <2>3 DEF PromiseInv, Map!Init, Init
  <1>2. PromiseInv /\ [Next]_vars => PromiseInv' /\ [Map!Next]_<<Seen, reply>>
    BY NextCounts, NextMap DEF PromiseInv
  <1> QED
    BY <1>1, <1>2, PTL DEF Spec, MapSpec, Map!Spec, Seen

=============================================================================
