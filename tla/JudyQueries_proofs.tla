-------------------------- MODULE JudyQueries_proofs --------------------------
(***************************************************************************)
(* What the calls that read a Judy array answer: theorems about            *)
(* JudyQueries, for every value of its constants.  Each query walks the    *)
(* tree by digits, populations and subexpanses; what it comes to is told   *)
(* here of the set of keys in the array.                                   *)
(***************************************************************************)
EXTENDS JudyMap_proofs

-----------------------------------------------------------------------------
(* The first of some keys in the direction of a search *)

\* Digits in the direction of a search.
Past(up, d, e) == IF up THEN d < e ELSE e < d

\* Beyond is a strict order in either direction.
LEMMA BeyondOrder ==
    ASSUME NEW up \in BOOLEAN, NEW a \in Key
    PROVE  /\ ~Beyond(up, a, a)
           /\ \A b \in Key : a # b => Beyond(up, a, b) \/ Beyond(up, b, a)
           /\ \A b \in Key : ~(Beyond(up, a, b) /\ Beyond(up, b, a))
           /\ \A b, c \in Key : Beyond(up, a, b) /\ Beyond(up, b, c) => Beyond(up, a, c)
  <1>1. ~Less(a, a)
    BY LessOneWay
  <1>2. \A b \in Key : a # b => Less(a, b) \/ Less(b, a)
    BY LessApart
  <1>3. \A b \in Key : ~(Less(a, b) /\ Less(b, a))
    BY LessOneWay
  <1>4. \A b, c \in Key : /\ Less(a, b) /\ Less(b, c) => Less(a, c)
                          /\ Less(b, a) /\ Less(c, b) => Less(c, a)
    BY LessThrough
  <1> QED
    BY <1>1, <1>2, <1>3, <1>4 DEF Beyond

\* k comes before the other keys of K.
IsFirst(up, K, k) == k \in K /\ \A j \in K : j = k \/ Beyond(up, k, j)

\* The keys of K that no key of K comes before.
FirstOf(up, K) == {b \in K : \A j \in K : ~Beyond(up, j, b)}

\* There is one first key, and nothing else has none before it.
LEMMA FirstIs ==
    ASSUME NEW up \in BOOLEAN, NEW K \in SUBSET Key, NEW k, IsFirst(up, K, k)
    PROVE  /\ k \in Key
           /\ FirstOf(up, K) = {k}
           /\ \A j : IsFirst(up, K, j) => j = k
  <1>1. k \in Key /\ k \in K /\ K \subseteq Key
    BY DEF IsFirst
  <1>2. ASSUME NEW b \in K, \A j \in K : ~Beyond(up, j, b) PROVE b = k
    BY <1>1, <1>2 DEF IsFirst
  <1>3. ASSUME NEW j \in K, Beyond(up, j, k) PROVE FALSE
    <2>1. j = k \/ Beyond(up, k, j)
      BY DEF IsFirst
    <2> QED
      BY <1>1, <1>3, <2>1, BeyondOrder
  <1>4. FirstOf(up, K) = {k}
    BY <1>1, <1>2, <1>3 DEF FirstOf
  <1>5. ASSUME NEW j, IsFirst(up, K, j) PROVE j = k
    <2>1. j \in K /\ j \in Key
      BY <1>1, <1>5 DEF IsFirst
    <2> QED
      BY <1>1, <1>5, <2>1, BeyondOrder DEF IsFirst
  <1> QED
    BY <1>1, <1>4, <1>5

\* The nearest of some keys is the first of them.
LEMMA FirstKey ==
    ASSUME NEW up \in BOOLEAN, NEW K \in SUBSET Index, K # {}
    PROVE  IsFirst(up, K, NearestKey(up, K))
  <1> DEFINE P == {T \in SUBSET K : T = {} \/ \E k \in T : IsFirst(up, T, k)}
  <1>1. {} \in P
    OBVIOUS
  <1>2. ASSUME NEW T \in SUBSET K, NEW x \in K, x \notin T, T \in P
        PROVE  T \cup {x} \in P
    <2>1. K \subseteq Key /\ x \in Key
      BY IndexKey
    <2>2. CASE T = {}
      BY <2>2 DEF IsFirst
    <2>3. CASE T # {}
      <3>1. PICK k \in T : IsFirst(up, T, k)
        BY <1>2, <2>3
      <3>2. k \in Key /\ k # x
        BY <1>2, <2>1
      <3>3. CASE Beyond(up, k, x)
        BY <3>1, <3>3 DEF IsFirst
      <3>4. CASE Beyond(up, x, k)
        <4>1. \A j \in T : j \in Key /\ (j = k \/ Beyond(up, k, j))
          BY <2>1, <3>1 DEF IsFirst
        <4>2. \A j \in T : Beyond(up, x, j)
          BY <2>1, <3>2, <3>4, <4>1, BeyondOrder
        <4>3. IsFirst(up, T \cup {x}, x)
          BY <4>2 DEF IsFirst
        <4> QED
          BY <4>3
      <3> QED
        BY <2>1, <3>2, <3>3, <3>4, BeyondOrder
    <2> QED
      BY <2>2, <2>3
  <1> HIDE DEF P
  <1>3. K \in P
    BY <1>1, <1>2, KeysFinite, OneByOne
  <1>4. \E k \in K : IsFirst(up, K, k)
    BY <1>3 DEF P
  <1>5. \E k \in K : \A j \in K \ {k} : Beyond(up, k, j)
    BY <1>4 DEF IsFirst
  <1>6. NearestKey(up, K) \in K /\ \A j \in K \ {NearestKey(up, K)} : Beyond(up, NearestKey(up, K), j)
    BY <1>5 DEF NearestKey
  <1> QED
    BY <1>6 DEF IsFirst

\* So with digits.
LEMMA NearestIs ==
    ASSUME NEW up \in BOOLEAN, NEW D \in SUBSET Nat, D # {}, IsFiniteSet(D)
    PROVE  /\ Nearest(up, D) \in D
           /\ \A e \in D : e = Nearest(up, D) \/ Past(up, Nearest(up, D), e)
           /\ \A d \in D : (\A e \in D : e = d \/ Past(up, d, e)) => d = Nearest(up, D)
  <1> DEFINE P == {T \in SUBSET D : T = {} \/ \E d \in T : \A e \in T : e = d \/ Past(up, d, e)}
  <1>1. {} \in P
    OBVIOUS
  <1>2. ASSUME NEW T \in SUBSET D, NEW x \in D, x \notin T, T \in P
        PROVE  T \cup {x} \in P
    <2>1. CASE T = {}
      BY <2>1
    <2>2. CASE T # {}
      <3>1. PICK d \in T : \A e \in T : e = d \/ Past(up, d, e)
        BY <1>2, <2>2
      <3>2. \A e \in T \cup {x} : e \in Nat
        OBVIOUS
      <3>3. CASE Past(up, d, x)
        BY <3>1, <3>3
      <3>4. CASE Past(up, x, d)
        <4>1. \A e \in T : Past(up, x, e)
          BY <3>1, <3>2, <3>4 DEF Past
        <4> QED
          BY <4>1
      <3> QED
        BY <1>2, <3>2, <3>3, <3>4 DEF Past
    <2> QED
      BY <2>1, <2>2
  <1> HIDE DEF P
  <1>3. D \in P
    BY <1>1, <1>2, OneByOne
  <1>4. \E d \in D : \A e \in D : e = d \/ Past(up, d, e)
    BY <1>3 DEF P
  <1>5. ASSUME up
        PROVE  Nearest(up, D) \in D /\ \A e \in D : e = Nearest(up, D) \/ Past(up, Nearest(up, D), e)
    <2>1. \E d \in D : \A e \in D : d <= e
      BY <1>4, <1>5 DEF Past
    <2> DEFINE x == Min(D)
    <2>2. x \in D /\ \A e \in D : x <= e
      BY <2>1 DEF Min
    <2>3. Nearest(up, D) = Min(D) /\ \A e : Past(up, Min(D), e) <=> Min(D) < e
      BY <1>5 DEF Nearest, Past
    <2> HIDE DEF x
    <2>4. x \in D /\ \A e \in D : e = x \/ x < e
      BY <2>2
    <2> QED
      BY <2>3, <2>4 DEF x
  <1>6. ASSUME ~up
        PROVE  Nearest(up, D) \in D /\ \A e \in D : e = Nearest(up, D) \/ Past(up, Nearest(up, D), e)
    <2>1. \E d \in D : \A e \in D : d >= e
      BY <1>4, <1>6 DEF Past
    <2> DEFINE x == Max(D)
    <2>2. x \in D /\ \A e \in D : x >= e
      BY <2>1 DEF Max
    <2>3. Nearest(up, D) = Max(D) /\ \A e : Past(up, Max(D), e) <=> e < Max(D)
      BY <1>6 DEF Nearest, Past
    <2> HIDE DEF x
    <2>4. x \in D /\ \A e \in D : e = x \/ e < x
      BY <2>2
    <2> QED
      BY <2>3, <2>4 DEF x
  <1>7. Nearest(up, D) \in D /\ \A e \in D : e = Nearest(up, D) \/ Past(up, Nearest(up, D), e)
    BY <1>5, <1>6
  <1>8. ASSUME NEW d \in D, \A e \in D : e = d \/ Past(up, d, e)
        PROVE  d = Nearest(up, D)
    <2>1. d \in Nat /\ Nearest(up, D) \in Nat
      BY <1>7
    <2> QED
      BY <1>7, <1>8, <2>1 DEF Past
  <1> QED
    BY <1>7, <1>8

\* The parts of a number grow with it.
LEMMA PartsGrow ==
    ASSUME NEW n \in Nat \ {0}, NEW a \in Nat, NEW b \in Nat, a <= b
    PROVE  a \div n \in Nat /\ a \div n <= b \div n
  <1> DEFINE x == a \div n
             y == b \div n
             p == a % n
             q == b % n
  <1>1. x \in Nat /\ p \in 0..(n - 1) /\ a = n * x + p
    BY Quotient
  <1>2. y \in Nat /\ q \in 0..(n - 1) /\ b = n * y + q
    BY Quotient
  <1> HIDE DEF x, y, p, q
  <1>3. ASSUME y < x PROVE FALSE
    <2> DEFINE d == x - y - 1
    <2>1. d \in Nat /\ x = y + 1 + d
      BY <1>1, <1>2, <1>3
    <2> HIDE DEF d
    <2>2. n * x = n * y + n + n * d /\ n * d \in Nat /\ n * y \in Nat
      BY <1>2, <2>1
    <2> QED
      BY <1>1, <1>2, <2>2
  <1> QED
    BY <1>1, <1>2, <1>3 DEF x, y

\* A number farther on is in the same part or in one farther on.
LEMMA PartsPast ==
    ASSUME NEW up \in BOOLEAN, NEW n \in Nat \ {0}, NEW a \in Nat, NEW b \in Nat
    PROVE  /\ a \div n \in Nat
           /\ Past(up, a \div n, b \div n) => Past(up, a, b)
           /\ Past(up, a, b) => a \div n = b \div n \/ Past(up, a \div n, b \div n)
  <1> DEFINE x == a \div n
             y == b \div n
  <1>1. x \in Nat /\ y \in Nat /\ (a <= b => x <= y) /\ (b <= a => y <= x)
    BY PartsGrow
  <1> HIDE DEF x, y
  <1>2. /\ x < y => a < b
        /\ y < x => b < a
        /\ a < b => x = y \/ x < y
        /\ b < a => x = y \/ y < x
    BY <1>1
  <1> QED
    BY <1>1, <1>2 DEF x, y, Past

\* The first bit of the first subexpanse with one is the first of all.
LEMMA FirstBitIs ==
    ASSUME NEW up \in BOOLEAN, NEW D \in SUBSET Digit, D # {}, NEW n \in Nat \ {0}
    PROVE  FirstBit(up, D, n) = Nearest(up, D)
  <1> DEFINE Q == {d \div n : d \in D}
             q == Nearest(up, Q)
             E == {e \in D : e \div n = q}
             x == Nearest(up, E)
  <1>1. D \in SUBSET Nat /\ IsFiniteSet(D)
    BY DigitsFinite, SizeAssumption DEF Digit
  <1>2. Q # {} /\ Q \in SUBSET Nat /\ IsFiniteSet(Q)
    <2>1. Q # {} /\ Q \in SUBSET Nat
      BY <1>1, PartsPast
    <2>2. IsFiniteSet(Q)
      <3> DEFINE f == [d \in D |-> d \div n]
      <3>1. Q = {f[d] : d \in D}
        OBVIOUS
      <3> HIDE DEF f
      <3>2. IsFiniteSet({f[d] : d \in D})
        BY <1>1, FiniteImage
      <3> QED
        BY <3>1, <3>2
    <2> QED
      BY <2>1, <2>2
  <1>3. q \in Q /\ \A p \in Q : p = q \/ Past(up, q, p)
    BY <1>2, NearestIs
  <1>4. E # {} /\ E \in SUBSET Nat /\ IsFiniteSet(E) /\ E \subseteq D
    <2>1. E # {} /\ E \subseteq D
      BY <1>3
    <2> QED
      BY <1>1, <2>1, FS_Subset
  <1>5. x \in E /\ \A e \in E : e = x \/ Past(up, x, e)
    BY <1>4, NearestIs
  <1> HIDE DEF x
  <1>6. x \in D /\ x \div n = q /\ x \in Nat
    BY <1>1, <1>5
  <1>7. ASSUME NEW e \in D PROVE e = x \/ Past(up, x, e)
    <2>1. e \in Nat /\ e \div n \in Q
      BY <1>1
    <2>2. CASE e \div n = q
      BY <1>5, <2>2
    <2>3. CASE Past(up, q, e \div n)
      BY <1>6, <2>1, <2>3, PartsPast
    <2> QED
      BY <1>3, <2>1, <2>2, <2>3
  <1>8. x = Nearest(up, D)
    BY <1>1, <1>6, <1>7, NearestIs
  <1> QED
    BY <1>8 DEF x, FirstBit

\* The search for the next bit, subexpanse by subexpanse, comes to the nearest.
LEMMA NearestBitIs ==
    ASSUME NEW up \in BOOLEAN, NEW D \in SUBSET Digit, NEW d \in Digit, NEW n \in Nat \ {0}
    PROVE  NearestBit(up, D, d, n) =
              IF Ahead(up, D, d) = {} THEN {} ELSE {Nearest(up, Ahead(up, D, d))}
  <1> DEFINE A == Ahead(up, D, d)
             own == {e \in A : e \div n = d \div n}
             Q == {e \div n : e \in D}
             subs == Ahead(up, Q, d \div n)
             inSub(x) == {e \in D : e \div n = x}
  <1>1. D \in SUBSET Nat /\ IsFiniteSet(D) /\ d \in Nat
    BY DigitsFinite, SizeAssumption DEF Digit
  <1>2. \A e : e \in A <=> e \in D /\ Past(up, d, e)
    BY DEF Ahead, Past
  <1>3. A \in SUBSET Nat /\ IsFiniteSet(A) /\ A \subseteq D
    <2>1. A \subseteq D
      BY <1>2
    <2> QED
      BY <1>1, <2>1, FS_Subset
  <1>4. \A q : q \in subs <=> q \in Q /\ Past(up, d \div n, q)
    BY DEF Ahead, Past
  <1>5. Q \in SUBSET Nat /\ IsFiniteSet(Q)
    <2>1. Q \in SUBSET Nat
      BY <1>1, PartsPast
    <2> DEFINE f == [e \in D |-> e \div n]
    <2>2. Q = {f[e] : e \in D}
      OBVIOUS
    <2> HIDE DEF f
    <2>3. IsFiniteSet({f[e] : e \in D})
      BY <1>1, FiniteImage
    <2> QED
      BY <2>1, <2>2, <2>3
  <1>6. subs \in SUBSET Nat /\ IsFiniteSet(subs)
    <2>1. subs \subseteq Q
      BY <1>4
    <2> QED
      BY <1>5, <2>1, FS_Subset
  <1>7. CASE own # {}
    <2> DEFINE x == Nearest(up, own)
    <2>1. own \in SUBSET Nat /\ IsFiniteSet(own)
      <3>1. own \subseteq A
        OBVIOUS
      <3> QED
        BY <1>3, <3>1, FS_Subset
    <2>2. x \in own /\ \A e \in own : e = x \/ Past(up, x, e)
      BY <1>7, <2>1, NearestIs
    <2> HIDE DEF x
    <2>3. x \in A /\ x \in Nat /\ x \div n = d \div n
      BY <1>3, <2>2
    <2>4. ASSUME NEW e \in A PROVE e = x \/ Past(up, x, e)
      <3>1. e \in Nat /\ Past(up, d, e)
        BY <1>2, <1>3
      <3>2. CASE e \div n = d \div n
        BY <2>2, <3>2
      <3>3. CASE Past(up, d \div n, e \div n)
        BY <2>3, <3>1, <3>3, PartsPast
      <3> QED
        BY <1>1, <3>1, <3>2, <3>3, PartsPast
    <2>5. x = Nearest(up, A)
      BY <1>3, <2>3, <2>4, NearestIs
    <2>6. NearestBit(up, D, d, n) = {x}
      BY <1>7 DEF NearestBit, x
    <2> QED
      BY <2>3, <2>5, <2>6
  <1>8. CASE own = {} /\ subs # {}
    <2> DEFINE q == Nearest(up, subs)
               x == Nearest(up, inSub(q))
    <2>1. q \in subs /\ \A p \in subs : p = q \/ Past(up, q, p)
      BY <1>6, <1>8, NearestIs
    <2> HIDE DEF q
    <2>2. inSub(q) # {} /\ inSub(q) \subseteq D
      BY <1>4, <2>1
    <2>3. inSub(q) \in SUBSET Nat /\ IsFiniteSet(inSub(q))
      BY <1>1, <2>2, FS_Subset
    <2>4. x \in inSub(q) /\ \A e \in inSub(q) : e = x \/ Past(up, x, e)
      BY <2>2, <2>3, NearestIs
    <2> HIDE DEF x
    <2>5. x \in D /\ x \in Nat /\ x \div n = q
      BY <1>1, <2>4
    <2>6. x \in A
      <3>1. Past(up, d \div n, x \div n)
        BY <1>4, <2>1, <2>5
      <3>2. Past(up, d, x)
        BY <1>1, <2>5, <3>1, PartsPast
      <3> QED
        BY <1>2, <2>5, <3>2
    <2>7. ASSUME NEW e \in A PROVE e = x \/ Past(up, x, e)
      <3>1. e \in Nat /\ e \in D /\ Past(up, d, e)
        BY <1>2, <1>3
      <3>2. Past(up, d \div n, e \div n)
        <4>1. e \div n # d \div n
          BY <1>8
        <4> QED
          BY <1>1, <3>1, <4>1, PartsPast
      <3>3. e \div n \in subs
        BY <1>4, <3>1, <3>2
      <3>4. CASE e \div n = q
        BY <2>4, <3>1, <3>4
      <3>5. CASE Past(up, q, e \div n)
        BY <2>5, <3>1, <3>5, PartsPast
      <3> QED
        BY <2>1, <3>3, <3>4, <3>5
    <2>8. x = Nearest(up, A)
      BY <1>3, <2>6, <2>7, NearestIs
    <2>9. NearestBit(up, D, d, n) = {x}
      BY <1>8 DEF NearestBit, x, q
    <2> QED
      BY <2>6, <2>8, <2>9
  <1>9. CASE own = {} /\ subs = {}
    <2>1. ASSUME NEW e \in A PROVE FALSE
      <3>1. e \in Nat /\ e \in D /\ Past(up, d, e) /\ e \div n # d \div n
        BY <1>2, <1>3, <1>9
      <3>2. Past(up, d \div n, e \div n)
        BY <1>1, <3>1, PartsPast
      <3> QED
        BY <1>4, <1>9, <3>1, <3>2
    <2>2. NearestBit(up, D, d, n) = {}
      BY <1>9 DEF NearestBit
    <2> QED
      BY <2>1, <2>2
  <1> QED
    BY <1>7, <1>8, <1>9

-----------------------------------------------------------------------------
(* Where two keys part *)

\* Two keys part at some level.
LEMMA Parting ==
    ASSUME NEW a \in Key, NEW b \in Key, a # b
    PROVE  \E m \in Level : Slot(a, m) = Slot(b, m) /\ a[m] # b[m]
  <1>1. ASSUME NEW i \in Key, NEW j \in Key, Less(i, j)
        PROVE  \E m \in Level : Slot(i, m) = Slot(j, m) /\ i[m] # j[m]
    <2>1. PICK m \in Level : i[m] < j[m] /\ \A n \in (m + 1)..RootLevel : i[n] = j[n]
      BY <1>1 DEF Less
    <2>2. Slot(i, m) = Slot(j, m)
      BY <2>1 DEF Slot
    <2>3. i[m] \in Nat /\ j[m] \in Nat
      BY KeySlot DEF Digit
    <2> QED
      BY <2>1, <2>2, <2>3
  <1> QED
    BY <1>1, LessApart

\* Keys of one slot with other digits at its level are in the order of those digits.
LEMMA BeyondAt ==
    ASSUME NEW up \in BOOLEAN, NEW a \in Key, NEW b \in Key, NEW m \in Level,
           Slot(a, m) = Slot(b, m), a[m] # b[m]
    PROVE  Beyond(up, a, b) <=> Past(up, a[m], b[m])
  <1>1. ASSUME NEW i \in Key, NEW j \in Key, Slot(i, m) = Slot(j, m), i[m] < j[m]
        PROVE  Less(i, j)
    <2>1. \A n \in (m + 1)..RootLevel : i[n] = j[n]
      <3> SUFFICES ASSUME NEW n \in (m + 1)..RootLevel PROVE i[n] = j[n]
        OBVIOUS
      <3>1. n \in Level /\ n >= m /\ n > m
        BY SizeAssumption DEF Level
      <3> QED
        BY <1>1, <3>1, SlotsAbove
    <2> QED
      BY <1>1, <2>1 DEF Less
  <1>2. a[m] \in Nat /\ b[m] \in Nat
    BY KeySlot DEF Digit
  <1>3. a[m] < b[m] \/ b[m] < a[m]
    BY <1>2
  <1>4. /\ a[m] < b[m] => Less(a, b) /\ ~Less(b, a)
        /\ b[m] < a[m] => Less(b, a) /\ ~Less(a, b)
    BY <1>1, LessOneWay
  <1>5. ~(a[m] < b[m] /\ b[m] < a[m])
    BY <1>2
  <1> QED
    BY <1>3, <1>4, <1>5 DEF Beyond, Past

\* A slot one level down is that of the keys with its digit.
LEMMA SlotsDown ==
    ASSUME NEW a \in Key, NEW b \in Key, NEW l \in Level, l > 1
    PROVE  /\ l - 1 \in Level
           /\ Slot(a, l - 1) = Slot(b, l - 1) <=> Slot(a, l) = Slot(b, l) /\ a[l] = b[l]
  <1>1. Slot(b, l) \in Slots /\ Slot(b, l)[1] = l /\ b[l] \in Digit
    BY KeySlot
  <1>2. Child(Slot(b, l), b[l]) = Slot(b, l - 1)
    BY <1>1, ChildKey
  <1> QED
    BY <1>1, <1>2, ChildOf

\* At the last level nothing else sets keys apart.
LEMMA SlotsBottom ==
    ASSUME NEW a \in Key, NEW b \in Key, Slot(a, 1) = Slot(b, 1), a[1] = b[1]
    PROVE  a = b
  <1>1. 1 \in Level
    BY SizeAssumption DEF Level
  <1>2. ASSUME a # b PROVE FALSE
    <2>1. PICK m \in Level : Slot(a, m) = Slot(b, m) /\ a[m] # b[m]
      BY <1>2, Parting
    <2>2. m >= 1 /\ (m > 1 \/ m = 1)
      BY DEF Level
    <2> QED
      BY <1>1, <2>1, <2>2, SlotsAbove
  <1> QED
    BY <1>2

\* Keys that share a slot that j is not in are on the same side of j.
LEMMA SameSide ==
    ASSUME NEW up \in BOOLEAN, NEW a \in Key, NEW b \in Key, NEW j \in Key, NEW l \in Level,
           Slot(a, l) = Slot(b, l), Slot(j, l) # Slot(a, l)
    PROVE  /\ Beyond(up, a, j) <=> Beyond(up, b, j)
           /\ Beyond(up, j, a) <=> Beyond(up, j, b)
  <1>1. PICK m \in Level : Slot(a, m) = Slot(j, m) /\ a[m] # j[m]
    BY Parting
  <1>2. m > l
    <2>1. m <= l => Slot(a, l) = Slot(j, l)
      <3> SUFFICES ASSUME m <= l PROVE Slot(a, l) = Slot(j, l)
        OBVIOUS
      <3>1. l >= m
        BY DEF Level
      <3> QED
        BY <1>1, <3>1, SlotsAbove
    <2> QED
      BY <2>1 DEF Level
  <1>3. Slot(b, m) = Slot(a, m) /\ b[m] = a[m]
    <2>1. m >= l
      BY <1>2 DEF Level
    <2> QED
      BY <1>2, <2>1, SlotsAbove
  <1> QED
    BY <1>1, <1>3, BeyondAt

-----------------------------------------------------------------------------
(* The branches of a search *)

\* Every branch is above level 1 and has a JP for some digit.
Inhabited(t) ==
    \A s \in Slots : t[s].type \in Branch =>
        s[1] > 1 /\ \E d \in Digit : t[Child(s, d)].type # "NULL"

\* What a search takes for granted of the tree.
Searchable(t) == Formed(t) /\ OwnKeys(t) /\ KeysInLeaves(t) /\ Inhabited(t)

\* The digits of a branch that have a JP.
LEMMA OccupiedIs ==
    ASSUME NEW t \in [Slots -> JP], Searchable(t), NEW s \in Slots, t[s].type \in Branch
    PROVE  /\ s[1] \in Level /\ s[1] > 1
           /\ Occupied(t, s) \in SUBSET Digit /\ Occupied(t, s) # {}
           /\ \A d \in Digit : /\ Child(s, d) \in Slots /\ Child(s, d)[1] = s[1] - 1
                               /\ d \in Occupied(t, s) <=> t[Child(s, d)].type # "NULL"
                               /\ d \in Occupied(t, s) => Enters(t[s], d)
                               /\ Enters(t[s], d) /\ t[s].type # "BRANCH_U" => d \in Occupied(t, s)
  <1>1. s[1] \in Level /\ s[1] > 1 /\ \E d \in Digit : t[Child(s, d)].type # "NULL"
    BY SlotKey DEF Searchable, Inhabited
  <1>2. ASSUME NEW d \in Digit
        PROVE  Child(s, d) \in Slots /\ Child(s, d)[1] = s[1] - 1
    BY <1>1, SlotKey, ChildKey
  <1>3. ASSUME NEW d \in Digit, t[Child(s, d)].type # "NULL"
        PROVE  Enters(t[s], d)
    <2>1. PICK k \in Key : Slot(k, s[1] - 1) = Child(s, d)
      BY <1>2, SlotKey
    <2>2. Slot(k, s[1]) = s /\ k[s[1]] = d /\ s[1] - 1 \in Level
      BY <1>1, <2>1, ChildOf
    <2>3. Reaches(t, k, s[1] - 1)
      BY <1>3, <2>1, <2>2 DEF Searchable, Formed, Rooted
    <2>4. s[1] > s[1] - 1
      BY <1>1 DEF Level
    <2> QED
      BY <1>1, <2>2, <2>3, <2>4, ReachesAbove
  <1>4. ASSUME NEW d \in t[s].exp PROVE t[Child(s, d)].type # "NULL"
    BY DEF Searchable, Formed, Peopled
  <1>5. t[s].exp \in SUBSET Digit
    BY DEF JP
  <1>6. t[s].type # "BRANCH_U" => Occupied(t, s) = t[s].exp
    BY DEF Occupied
  <1>7. t[s].type = "BRANCH_U" => Occupied(t, s) = {d \in Digit : t[Child(s, d)].type # "NULL"}
    BY DEF Occupied
  <1>8. \A d \in Digit : t[s].type # "BRANCH_U" => (Enters(t[s], d) <=> d \in t[s].exp)
    BY DEF Enters, EntersL, EntersB, EntersU, Branch
  <1>9. \A d \in Digit : d \in Occupied(t, s) <=> t[Child(s, d)].type # "NULL"
    BY <1>3, <1>4, <1>6, <1>7, <1>8
  <1>10. Occupied(t, s) \in SUBSET Digit
    BY <1>5, <1>6, <1>7
  <1> QED
    BY <1>1, <1>2, <1>3, <1>6, <1>7, <1>8, <1>9, <1>10

\* Where the nearest JP of a branch is.
Nearby(up, t, s) == Child(s, Nearest(up, Occupied(t, s)))

\* Each kind of branch sends SM3 there.
LEMMA NearbySlot ==
    ASSUME NEW up \in BOOLEAN, NEW t \in [Slots -> JP], Searchable(t),
           NEW s \in Slots, t[s].type \in Branch
    PROVE  /\ Nearby(up, t, s) \in Slots /\ Nearby(up, t, s)[1] = s[1] - 1
           /\ t[s].type = "BRANCH_L" => SM3BranchL(up, t, s) = Nearby(up, t, s)
           /\ t[s].type = "BRANCH_B" => SM3BranchB(up, t, s) = Nearby(up, t, s)
           /\ t[s].type = "BRANCH_U" => SM3BranchU(up, t, s) = Nearby(up, t, s)
  <1> DEFINE D == Occupied(t, s)
  <1>1. D \in SUBSET Digit /\ D # {} /\ \A d \in Digit : Child(s, d) \in Slots /\ Child(s, d)[1] = s[1] - 1
    BY OccupiedIs
  <1>2. Nearest(up, D) \in D
    <2>1. D \in SUBSET Nat /\ IsFiniteSet(D)
      BY <1>1, DigitsFinite, SizeAssumption DEF Digit
    <2> QED
      BY <1>1, <2>1, NearestIs
  <1>3. t[s].type # "BRANCH_U" => D = t[s].exp
    BY DEF Occupied
  <1>4. FirstBit(up, D, SUBEXP_B) = Nearest(up, D)
    BY <1>1, FirstBitIs, MaxAssumption
  <1> QED
    BY <1>1, <1>2, <1>3, <1>4 DEF Nearby, SM3BranchL, SM3BranchB, SM3BranchU

\* The first key of what is no branch.
LimitIn(up, t, u) ==
    CASE t[u].type = "LEAF_B1U" -> SM3LeafB1U(up, t[u].keys)
      [] t[u].type = "FULLPOPU1" -> SM3FullPop(up, u)
      [] t[u].type = "LEAF" -> SM3Leaf(up, t[u].keys)
      [] OTHER -> SM3Immed(up, t[u].keys)

\* SM3 goes down the nearest JPs to the first key of a leaf.
LEMMA FindLimitIs ==
    ASSUME NEW up \in BOOLEAN, NEW t \in [Slots -> JP], Searchable(t)
    PROVE  \A s \in Slots : FindLimit(up, t, s) =
              IF t[s].type \in Branch THEN FindLimit(up, t, Nearby(up, t, s))
              ELSE LimitIn(up, t, s)
  <1> DEFINE N(u) == Nearby(up, t, u)
             V == {LimitIn(up, t, u) : u \in Slots}
             r == [u \in Slots |-> u[1]]
             B == [x \in [Slots -> V] \X Slots |->
                      IF t[x[2]].type \in Branch THEN x[1][N(x[2])] ELSE LimitIn(up, t, x[2])]
             Iter(h) == h = [u \in Slots |->
                CASE t[u].type = "BRANCH_L" -> h[SM3BranchL(up, t, u)]
                  [] t[u].type = "BRANCH_B" -> h[SM3BranchB(up, t, u)]
                  [] t[u].type = "BRANCH_U" -> h[SM3BranchU(up, t, u)]
                  [] t[u].type = "LEAF_B1U" -> SM3LeafB1U(up, t[u].keys)
                  [] t[u].type = "FULLPOPU1" -> SM3FullPop(up, u)
                  [] t[u].type = "LEAF" -> SM3Leaf(up, t[u].keys)
                  [] OTHER -> SM3Immed(up, t[u].keys)]
             SM3 == CHOOSE h : Iter(h)
  <1>1. \A u \in Slots : u[1] \in Level /\ u[1] \in 0..RootLevel
    BY SlotKey DEF Level
  <1>2. r \in [Slots -> 0..RootLevel] /\ RootLevel \in Nat /\ V # {}
    BY <1>1, RootSlotType, SizeAssumption
  <1>3. \A u \in Slots : t[u].type \in Branch => N(u) \in Slots /\ r[N(u)] < r[u]
    <2> SUFFICES ASSUME NEW u \in Slots, t[u].type \in Branch PROVE N(u) \in Slots /\ r[N(u)] < r[u]
      OBVIOUS
    <2>1. N(u) \in Slots /\ N(u)[1] = u[1] - 1
      BY NearbySlot
    <2>2. u[1] - 1 < u[1]
      BY <1>1 DEF Level
    <2> QED
      BY <2>1, <2>2
  <1> DEFINE Body(h, u) == IF t[u].type \in Branch THEN h[N(u)] ELSE LimitIn(up, t, u)
  <1>4. \A h, u : u \in Slots =>
            (CASE t[u].type = "BRANCH_L" -> h[SM3BranchL(up, t, u)]
               [] t[u].type = "BRANCH_B" -> h[SM3BranchB(up, t, u)]
               [] t[u].type = "BRANCH_U" -> h[SM3BranchU(up, t, u)]
               [] t[u].type = "LEAF_B1U" -> SM3LeafB1U(up, t[u].keys)
               [] t[u].type = "FULLPOPU1" -> SM3FullPop(up, u)
               [] t[u].type = "LEAF" -> SM3Leaf(up, t[u].keys)
               [] OTHER -> SM3Immed(up, t[u].keys)) = Body(h, u)
    <2> SUFFICES ASSUME NEW h, NEW u \in Slots
                 PROVE  (CASE t[u].type = "BRANCH_L" -> h[SM3BranchL(up, t, u)]
                           [] t[u].type = "BRANCH_B" -> h[SM3BranchB(up, t, u)]
                           [] t[u].type = "BRANCH_U" -> h[SM3BranchU(up, t, u)]
                           [] t[u].type = "LEAF_B1U" -> SM3LeafB1U(up, t[u].keys)
                           [] t[u].type = "FULLPOPU1" -> SM3FullPop(up, u)
                           [] t[u].type = "LEAF" -> SM3Leaf(up, t[u].keys)
                           [] OTHER -> SM3Immed(up, t[u].keys)) = Body(h, u)
      OBVIOUS
    <2>1. CASE t[u].type \in Branch
      BY <2>1, NearbySlot DEF Branch
    <2>2. CASE t[u].type \notin Branch
      BY <2>2 DEF Branch, LimitIn
    <2> QED
      BY <2>1, <2>2
  <1>5. \A h : Iter(h) <=> h = [u \in Slots |-> Body(h, u)]
    <2> SUFFICES ASSUME NEW h PROVE Iter(h) <=> h = [u \in Slots |-> Body(h, u)]
      OBVIOUS
    <2> HIDE DEF Body
    <2> QED
      BY <1>4
  <1> HIDE DEF N, V, r
  <1>6. \A g \in [Slots -> V] : \A u \in Slots : B[<<g, u>>] = Body(g, u)
    OBVIOUS
  <1>7. \A g \in [Slots -> V] : \A u \in Slots : Body(g, u) \in V
    BY <1>3 DEF V
  <1> HIDE DEF B
  <1>8. PICK g \in [Slots -> V] : \A u \in Slots : g[u] = B[<<g, u>>]
    <2>1. \A g \in [Slots -> V] : \A u \in Slots : B[<<g, u>>] \in V
      BY <1>6, <1>7
    <2>2. \A g, h \in [Slots -> V] : \A u \in Slots :
              (\A v \in Slots : r[v] < r[u] => g[v] = h[v]) => B[<<g, u>>] = B[<<h, u>>]
      BY <1>3, <1>6
    <2> HIDE DEF Body, Iter
    <2>3. Descends(Slots, V, RootLevel, r, B)
      BY <1>2, <2>1, <2>2 DEF Descends
    <2> QED
      BY <2>3, Recursive
  <1>9. Iter(g)
    <2>1. g = [u \in Slots |-> Body(g, u)]
      BY <1>6, <1>8
    <2> HIDE DEF Body, Iter
    <2> QED
      BY <1>5, <2>1
  <1>10. Iter(SM3)
    <2> HIDE DEF Iter
    <2> QED
      BY <1>9
  <1>11. \A s : FindLimit(up, t, s) = SM3[s]
    BY DEF FindLimit
  <1>12. SM3 = [u \in Slots |-> Body(SM3, u)]
    <2> HIDE DEF Iter, SM3, Body
    <2> QED
      BY <1>5, <1>10
  <1> HIDE DEF SM3
  <1> QED
    BY <1>3, <1>11, <1>12 DEF N

-----------------------------------------------------------------------------
(* SM3Findlimit *)

\* A key under a branch is under one of its JPs.
LEMMA BelowOccupied ==
    ASSUME NEW t \in [Slots -> JP], Searchable(t), NEW s \in Slots, t[s].type \in Branch,
           NEW k \in Below(t, s)
    PROVE  /\ k \in Index /\ k \in Key /\ Slot(k, s[1]) = s /\ k[s[1]] \in Digit
           /\ k[s[1]] \in Occupied(t, s) /\ k \in Below(t, Child(s, k[s[1]]))
  <1> DEFINE l == s[1]
  <1>1. k \in Index /\ k \in Key /\ Slot(k, l) = s /\ Get(t, k)
    BY IndexKey DEF Below
  <1>2. l \in Level /\ l > 1 /\ k[l] \in Digit
    BY <1>1, OccupiedIs, KeySlot
  <1>3. PICK m \in Level : Reaches(t, k, m) /\ k \in t[Slot(k, m)].keys
    BY <1>1 DEF Get
  <1>4. Reaches(t, k, l)
    BY <1>1, <1>2 DEF Searchable, Formed, Rooted, Branch
  <1>5. \A n \in Level : Enters(t[Slot(k, n)], k[n]) => t[Slot(k, n)].type \in Branch
    BY DEF Enters, EntersL, EntersB, EntersU, Branch
  <1>6. t[Slot(k, m)].type \notin Branch \cup {"NULL"}
    BY <1>1, <1>3, KeySlot DEF Searchable, KeysInLeaves
  <1>7. m < l
    <2>1. ASSUME m > l PROVE FALSE
      BY <1>2, <1>4, <1>5, <1>6, <2>1, ReachesAbove
    <2>2. m # l
      BY <1>1, <1>6
    <2> QED
      BY <1>2, <2>1, <2>2 DEF Level
  <1>8. l - 1 \in Level /\ Child(s, k[l]) \in Slots /\ Child(s, k[l])[1] = l - 1
        /\ Slot(k, l - 1) = Child(s, k[l])
    BY <1>1, <1>2, ChildOf
  <1>9. t[Slot(k, l - 1)].type # "NULL"
    <2>1. CASE m = l - 1
      BY <1>6, <2>1
    <2>2. CASE m < l - 1
      <3>1. l - 1 > m
        BY <2>2
      <3> QED
        BY <1>3, <1>5, <1>8, <3>1, ReachesAbove DEF Branch
    <2> QED
      BY <1>2, <1>7, <2>1, <2>2 DEF Level
  <1>10. k[l] \in Occupied(t, s)
    BY <1>2, <1>8, <1>9, OccupiedIs
  <1> QED
    BY <1>1, <1>2, <1>8, <1>10 DEF Below

\* The keys under a JP are under its branch.
LEMMA BelowChild ==
    ASSUME NEW t \in [Slots -> JP], Searchable(t), NEW s \in Slots, t[s].type \in Branch,
           NEW d \in Digit, NEW k \in Below(t, Child(s, d))
    PROVE  /\ k \in Index /\ k \in Key /\ k \in Below(t, s) /\ Slot(k, s[1]) = s /\ k[s[1]] = d
  <1>1. s[1] \in Level /\ s[1] > 1 /\ Child(s, d)[1] = s[1] - 1
    BY OccupiedIs
  <1>2. k \in Index /\ k \in Key /\ Slot(k, s[1] - 1) = Child(s, d) /\ Get(t, k)
    BY <1>1, IndexKey DEF Below
  <1>3. Slot(k, s[1]) = s /\ k[s[1]] = d
    BY <1>1, <1>2, ChildOf
  <1> QED
    BY <1>2, <1>3 DEF Below

\* An expanse with as many keys as there are digits has one for each.
LEMMA FullExpanse ==
    ASSUME NEW s, NEW X \in SUBSET Index, \A k \in X : Slot(k, 1) = s, Cardinality(X) = Base,
           NEW d \in Digit
    PROVE  \E k \in X : k[1] = d
  <1> SUFFICES ASSUME \A k \in X : k[1] # d PROVE FALSE
    OBVIOUS
  <1> DEFINE f == [k \in X |-> k[1]]
  <1>1. \A k \in X : k \in Key /\ k[1] \in Digit
    BY IndexKey, KeySlot, SizeAssumption DEF Level
  <1>2. f \in [X -> Digit \ {d}]
    BY <1>1
  <1>3. \A i, j \in X : f[i] = f[j] => i = j
    BY <1>1, SlotsBottom
  <1>4. f \in Injection(X, Digit \ {d})
    BY <1>2, <1>3 DEF Injection, IsInjective
  <1>5. IsFiniteSet(Digit) /\ Cardinality(Digit) = Base
    BY SizeAssumption, FS_Interval DEF Digit
  <1>6. IsFiniteSet(Digit \ {d}) /\ Cardinality(Digit \ {d}) = Base - 1
    BY <1>5, FS_RemoveElement
  <1>7. Cardinality(X) <= Base - 1
    BY <1>4, <1>6, FS_Injection
  <1> QED
    BY <1>7, SizeAssumption

\* Keys of one expanse of level 1 are in the order of their last digits.
LEMMA FirstByDigit ==
    ASSUME NEW up \in BOOLEAN, NEW K \in SUBSET Key, NEW s, \A k \in K : Slot(k, 1) = s,
           NEW k \in K, \A j \in K : j[1] = k[1] \/ Past(up, k[1], j[1])
    PROVE  IsFirst(up, K, k)
  <1>1. 1 \in Level
    BY SizeAssumption DEF Level
  <1>2. ASSUME NEW j \in K PROVE j = k \/ Beyond(up, k, j)
    <2>1. CASE j[1] = k[1]
      BY <2>1, SlotsBottom
    <2>2. CASE j[1] # k[1]
      BY <1>1, <2>2, BeyondAt
    <2> QED
      BY <2>1, <2>2
  <1> QED
    BY <1>2 DEF IsFirst

\* The limit of a leaf is the first of its keys.
LEMMA LimitFirst ==
    ASSUME NEW up \in BOOLEAN, NEW t \in [Slots -> JP], Searchable(t), NEW s \in Slots,
           t[s].type \notin Branch \cup {"NULL"}
    PROVE  IsFirst(up, t[s].keys, LimitIn(up, t, s))
  <1> DEFINE K == t[s].keys
  <1>1. Fits(s[1], t[s]) /\ K \in SUBSET Index /\ K \in SUBSET Key /\ IsFiniteSet(K) /\ Cardinality(K) \in Nat
        /\ t[s].type \in JPType
    BY IndexKey, KeysFinite DEF Searchable, Formed, JP
  <1>2. \A k \in K : Slot(k, s[1]) = s
    BY DEF Searchable, OwnKeys
  <1>3. K # {}
    <2>1. Cardinality(K) # 0
      BY <1>1, SizeAssumption DEF Fits, JPType
    <2> QED
      BY <2>1, FS_EmptySet
  <1>4. CASE t[s].type = "LEAF_B1U"
    <2> DEFINE D == {k[1] : k \in K}
               d == FirstBit(up, D, SUBEXP_L)
               c == CHOOSE k \in K : k[1] = d
    <2>1. s[1] = 1
      BY <1>1, <1>4 DEF Fits
    <2>2. D \in SUBSET Digit /\ D # {}
      BY <1>1, <1>3, KeySlot, SizeAssumption DEF Level
    <2>3. D \in SUBSET Nat /\ IsFiniteSet(D)
      BY <2>2, DigitsFinite, SizeAssumption DEF Digit
    <2>4. d = Nearest(up, D)
      BY <2>2, FirstBitIs, SubExpAssumption
    <2> HIDE DEF d
    <2>5. d \in D /\ \A e \in D : e = d \/ Past(up, d, e)
      BY <2>2, <2>3, <2>4, NearestIs
    <2>6. c \in K /\ c[1] = d
      BY <2>5
    <2> HIDE DEF c
    <2>7. IsFirst(up, K, c)
      BY <1>1, <1>2, <2>1, <2>5, <2>6, FirstByDigit
    <2>8. LimitIn(up, t, s) = c
      BY <1>4 DEF LimitIn, SM3LeafB1U, c, d
    <2> QED
      BY <2>7, <2>8
  <1>5. CASE t[s].type = "FULLPOPU1"
    <2> DEFINE f == SM3FullPop(up, s)
               e == Limit(~up)[1]
    <2>1. s[1] = 1 /\ Cardinality(K) = Base
      BY <1>1, <1>5 DEF Fits
    <2>2. e = (IF up THEN 0 ELSE Base - 1) /\ e \in Digit
      BY SizeAssumption DEF Limit, Level, Digit
    <2>3. PICK k \in K : k[1] = e
      <3>1. \A k \in K : Slot(k, 1) = s
        BY <1>2, <2>1
      <3> HIDE DEF e, K
      <3>2. \E k \in K : k[1] = e
        BY <1>1, <2>1, <2>2, <3>1, FullExpanse
      <3> QED
        BY <3>2
    <2>4. k \in Key /\ Slot(k, 1) = s
      BY <1>1, <1>2, <2>1
    <2>5. f = k
      <3>1. k = [m \in Level |-> k[m]]
        BY <2>4 DEF Key
      <3>2. s[2] = [m \in 2..RootLevel |-> k[m]]
        BY <2>4 DEF Slot
      <3>3. ASSUME NEW m \in Level PROVE k[m] = IF m = 1 THEN e ELSE s[2][m]
        <4>1. m = 1 \/ m \in 2..RootLevel
          BY SizeAssumption DEF Level
        <4> QED
          BY <2>3, <3>2, <4>1
      <3> HIDE DEF e
      <3> QED
        BY <3>1, <3>3 DEF SM3FullPop, e
    <2>6. \A j \in K : j[1] = k[1] \/ Past(up, k[1], j[1])
      <3>1. \A j \in K : j[1] \in Digit
        BY <1>1, KeySlot, SizeAssumption DEF Level
      <3>2. \A x \in Digit : x = e \/ Past(up, e, x)
        BY <2>2, SizeAssumption DEF Past, Digit
      <3> QED
        BY <2>3, <3>1, <3>2
    <2>7. IsFirst(up, K, k)
      BY <1>1, <1>2, <2>1, <2>6, FirstByDigit
    <2>8. LimitIn(up, t, s) = f
      BY <1>5 DEF LimitIn
    <2> QED
      BY <2>5, <2>7, <2>8
  <1>6. CASE t[s].type = "LEAF"
    BY <1>1, <1>3, <1>6, FirstKey DEF LimitIn, SM3Leaf
  <1>7. CASE t[s].type = "IMMED"
    <2>1. LimitIn(up, t, s) = SM3Immed(up, K)
      BY <1>7 DEF LimitIn
    <2>2. CASE Cardinality(K) = 1
      <3>1. PICK x : K = {x}
        BY <1>1, <2>2, FS_Singleton
      <3>2. SM3Immed(up, K) = x
        BY <2>2, <3>1 DEF SM3Immed
      <3> QED
        BY <2>1, <3>1, <3>2 DEF IsFirst
    <2>3. CASE Cardinality(K) # 1
      BY <1>1, <1>3, <2>1, <2>3, FirstKey DEF SM3Immed
    <2> QED
      BY <2>2, <2>3
  <1> QED
    BY <1>1, <1>4, <1>5, <1>6, <1>7 DEF JPType, Branch

\* SM3 comes to the first key of the expanse.
LEMMA FindLimitFirst ==
    ASSUME NEW up \in BOOLEAN, NEW t \in [Slots -> JP], Searchable(t), NEW s \in Slots,
           t[s].type # "NULL"
    PROVE  IsFirst(up, Below(t, s), FindLimit(up, t, s))
  <1> DEFINE P == {n \in Nat : \A u \in Slots : u[1] <= n /\ t[u].type # "NULL" =>
                        IsFirst(up, Below(t, u), FindLimit(up, t, u))}
  <1>1. 0 \in P
    BY SlotKey DEF Level
  <1>2. ASSUME NEW n \in Nat, n \in P PROVE n + 1 \in P
    <2> SUFFICES ASSUME NEW u \in Slots, u[1] <= n + 1, t[u].type # "NULL"
                 PROVE  IsFirst(up, Below(t, u), FindLimit(up, t, u))
      OBVIOUS
    <2>1. u[1] \in Level
      BY SlotKey
    <2>2. CASE t[u].type \notin Branch
      <3>1. PICK k \in Key : Slot(k, u[1]) = u
        BY SlotKey
      <3>2. Reaches(t, k, u[1])
        BY <2>1, <3>1 DEF Searchable, Formed, Rooted
      <3>3. Below(t, u) = t[u].keys
        BY <2>1, <2>2, <3>1, <3>2, OwnBelow DEF Searchable
      <3> QED
        BY <2>2, <3>3, LimitFirst, FindLimitIs
    <2>3. CASE t[u].type \in Branch
      <3> DEFINE l == u[1]
                 D == Occupied(t, u)
                 d == Nearest(up, D)
                 c == Child(u, d)
                 f == FindLimit(up, t, c)
      <3>1. D \in SUBSET Digit /\ D # {} /\ l > 1
            /\ \A x \in Digit : Child(u, x) \in Slots /\ Child(u, x)[1] = l - 1 /\ (x \in D => t[Child(u, x)].type # "NULL")
        BY <2>3, OccupiedIs
      <3>2. D \in SUBSET Nat /\ IsFiniteSet(D)
        BY <3>1, DigitsFinite, SizeAssumption DEF Digit
      <3>3. d \in D /\ \A e \in D : e = d \/ Past(up, d, e)
        BY <3>1, <3>2, NearestIs
      <3> HIDE DEF d
      <3>4. c \in Slots /\ c[1] = l - 1 /\ t[c].type # "NULL" /\ d \in Digit
        BY <3>1, <3>3
      <3>5. c[1] <= n
        BY <2>1, <3>4 DEF Level
      <3>6. IsFirst(up, Below(t, c), f)
        BY <1>2, <3>4, <3>5
      <3>7. FindLimit(up, t, u) = f
        BY <2>3, FindLimitIs DEF Nearby, d
      <3> HIDE DEF f
      <3>8. f \in Below(t, u) /\ f \in Key /\ Slot(f, l) = u /\ f[l] = d
        BY <2>3, <3>4, <3>6, BelowChild DEF IsFirst
      <3>9. ASSUME NEW j \in Below(t, u) PROVE j = f \/ Beyond(up, f, j)
        <4>1. j \in Key /\ Slot(j, l) = u /\ j[l] \in D /\ j \in Below(t, Child(u, j[l]))
          BY <2>3, BelowOccupied
        <4>2. CASE j[l] = d
          BY <3>6, <4>1, <4>2 DEF IsFirst
        <4>3. CASE j[l] # d
          <5>1. Past(up, f[l], j[l])
            BY <3>3, <3>8, <4>1, <4>3
          <5> QED
            BY <2>1, <3>8, <4>1, <4>3, <5>1, BeyondAt
        <4> QED
          BY <4>2, <4>3
      <3> QED
        BY <3>7, <3>8, <3>9 DEF IsFirst
    <2> QED
      BY <2>2, <2>3
  <1> HIDE DEF P
  <1>3. RootLevel \in Nat /\ RootLevel \in 0..RootLevel
    BY SizeAssumption
  <1>4. RootLevel \in P
    <2>1. \A m \in 0..(RootLevel - 1) : m \in P => m + 1 \in P
      BY <1>2
    <2> QED
      BY <1>1, <1>3, <2>1, UpTo
  <1>5. s[1] <= RootLevel
    BY SlotKey DEF Level
  <1> QED
    BY <1>4, <1>5 DEF P

-----------------------------------------------------------------------------
(* SM2Backtrack *)

\* Every path starts at the root.
LEMMA RootOf ==
    ASSUME NEW k
    PROVE  Slot(k, RootLevel) = RootSlot
  <1>1. (RootLevel + 1)..RootLevel = {}
    BY SizeAssumption
  <1>2. [m \in (RootLevel + 1)..RootLevel |-> k[m]] = [m \in (RootLevel + 1)..RootLevel |-> 0]
    BY <1>1
  <1> QED
    BY <1>2 DEF Slot, RootSlot

\* The way out of a branch beyond a digit is the nearest JP beyond it.
LEMMA WayIs ==
    ASSUME NEW up \in BOOLEAN, NEW t \in [Slots -> JP], Searchable(t), NEW s \in Slots,
           t[s].type \in Branch, NEW d \in Digit
    PROVE  LET A == Ahead(up, Occupied(t, s), d)
           IN  /\ A = {} => Way(up, t, s, d) = {}
               /\ A # {} => Way(up, t, s, d) = {Nearest(up, A)}
               /\ \A e : e \in A <=> e \in Occupied(t, s) /\ Past(up, d, e)
               /\ A # {} => Nearest(up, A) \in A /\ \A e \in A : e = Nearest(up, A) \/ Past(up, Nearest(up, A), e)
               /\ t[s].type = "BRANCH_B" =>
                     NearestBit(up, t[s].exp, d, SUBEXP_B) = IF A = {} THEN {} ELSE {Nearest(up, A)}
  <1> DEFINE D == Occupied(t, s)
             A == Ahead(up, D, d)
  <1>1. D \in SUBSET Digit
    BY OccupiedIs
  <1>2. \A e : e \in A <=> e \in D /\ Past(up, d, e)
    BY DEF Ahead, Past
  <1>3. A \in SUBSET Nat /\ IsFiniteSet(A)
    <2>1. A \subseteq Digit
      BY <1>1, <1>2
    <2> QED
      BY <2>1, DigitsFinite, SizeAssumption DEF Digit
  <1>4. A # {} => Nearest(up, A) \in A /\ \A e \in A : e = Nearest(up, A) \/ Past(up, Nearest(up, A), e)
    BY <1>3, NearestIs
  <1>5. t[s].type # "BRANCH_U" => D = t[s].exp
    BY DEF Occupied
  <1>6. NearestBit(up, D, d, SUBEXP_B) = IF A = {} THEN {} ELSE {Nearest(up, A)}
    BY <1>1, NearestBitIs, MaxAssumption
  <1>7. Way(up, t, s, d) = IF A = {} THEN {} ELSE {Nearest(up, A)}
    <2> HIDE DEF A
    <2>1. CASE t[s].type = "BRANCH_L"
      BY <1>5, <2>1 DEF Way, SM2BranchL, A
    <2>2. CASE t[s].type = "BRANCH_B"
      BY <1>5, <1>6, <2>2 DEF Way, SM2BranchB
    <2>3. CASE t[s].type = "BRANCH_U"
      BY <2>3 DEF Way, SM2BranchU, A
    <2> QED
      BY <2>1, <2>2, <2>3 DEF Branch
  <1> QED
    BY <1>2, <1>4, <1>5, <1>6, <1>7

\* The keys of the tree beyond k that are not in its expanse of level l.
Far(up, t, k, l) ==
    {j \in Index : Get(t, j) /\ Beyond(up, k, j) /\ Slot(j, l) # Slot(k, l)}

\* The first key beyond the digit of k in a branch is under the nearest JP beyond.
LEMMA WayOut ==
    ASSUME NEW up \in BOOLEAN, NEW t \in [Slots -> JP], Searchable(t), NEW k \in Key,
           NEW l \in Level, l > 1, t[Slot(k, l)].type \in Branch
    PROVE  LET s == Slot(k, l)
               A == Ahead(up, Occupied(t, s), k[l])
           IN  /\ A = {} => Far(up, t, k, l - 1) = Far(up, t, k, l)
               /\ A # {} => IsFirst(up, Far(up, t, k, l - 1), FindLimit(up, t, Child(s, Nearest(up, A))))
  <1> DEFINE s == Slot(k, l)
             D == Occupied(t, s)
             A == Ahead(up, D, k[l])
             K == Far(up, t, k, l - 1)
             d == Nearest(up, A)
             f == FindLimit(up, t, Child(s, d))
  <1>1. s \in Slots /\ s[1] = l /\ k[l] \in Digit /\ l - 1 \in Level
    BY KeySlot, SlotsDown
  <1>2. /\ \A e : e \in A <=> e \in D /\ Past(up, k[l], e)
        /\ A # {} => d \in A /\ \A e \in A : e = d \/ Past(up, d, e)
    BY <1>1, WayIs
  <1>3. \A j \in Index : j \in Key
    BY IndexKey
  <1>4. ASSUME NEW j \in K, Slot(j, l) = s
        PROVE  j \in Below(t, s) /\ j[l] \in A /\ j \in Below(t, Child(s, j[l]))
    <2>1. j \in Index /\ j \in Key /\ Get(t, j) /\ Beyond(up, k, j) /\ Slot(j, l - 1) # Slot(k, l - 1)
      BY <1>3 DEF Far
    <2>2. j \in Below(t, s)
      BY <1>1, <1>4, <2>1 DEF Below
    <2>3. j[l] # k[l]
      BY <1>4, <2>1, SlotsDown
    <2>4. Past(up, k[l], j[l])
      BY <1>4, <2>1, <2>3, BeyondAt
    <2>5. j[l] \in D /\ j \in Below(t, Child(s, j[l]))
      BY <1>1, <2>2, BelowOccupied
    <2> QED
      BY <1>2, <2>2, <2>4, <2>5
  <1>5. \A j \in Index : Slot(j, l) # s => Slot(j, l - 1) # Slot(k, l - 1)
    BY <1>3, SlotsDown
  <1>6. ASSUME A = {} PROVE K = Far(up, t, k, l)
    BY <1>4, <1>5, <1>6 DEF Far
  <1>7. ASSUME A # {} PROVE IsFirst(up, K, f)
    <2>1. d \in D /\ Past(up, k[l], d) /\ d \in Digit
      BY <1>1, <1>2, <1>7, OccupiedIs
    <2>2. \A e \in A : e = d \/ Past(up, d, e)
      BY <1>2, <1>7
    <2> HIDE DEF d
    <2>3. Child(s, d) \in Slots /\ t[Child(s, d)].type # "NULL"
      BY <1>1, <2>1, OccupiedIs
    <2>4. IsFirst(up, Below(t, Child(s, d)), f)
      BY <2>3, FindLimitFirst
    <2> HIDE DEF f
    <2>5. f \in Index /\ f \in Key /\ f \in Below(t, s) /\ Slot(f, l) = s /\ f[l] = d
      BY <1>1, <2>1, <2>4, BelowChild DEF IsFirst
    <2>6. k[l] # d
      BY <1>1, <2>1 DEF Past, Digit
    <2>7. Beyond(up, k, f)
      BY <2>1, <2>5, <2>6, BeyondAt
    <2>8. f \in K
      BY <2>5, <2>6, <2>7, SlotsDown DEF Far, Below
    <2>9. ASSUME NEW j \in K PROVE j = f \/ Beyond(up, f, j)
      <3>1. j \in Key /\ Beyond(up, k, j)
        BY <1>3 DEF Far
      <3>2. CASE Slot(j, l) # s
        BY <2>5, <3>1, <3>2, SameSide
      <3>3. CASE Slot(j, l) = s
        <4>1. j[l] \in A /\ j \in Below(t, Child(s, j[l]))
          BY <1>4, <3>3
        <4>2. CASE j[l] = d
          BY <2>4, <4>1, <4>2 DEF IsFirst
        <4>3. CASE j[l] # d
          BY <2>2, <2>5, <3>1, <3>3, <4>1, <4>3, BeyondAt
        <4> QED
          BY <4>2, <4>3
      <3> QED
        BY <3>2, <3>3
    <2> QED
      BY <2>8, <2>9 DEF IsFirst
  <1> QED
    BY <1>6, <1>7

\* SM2 comes to the first key beyond the expanse it starts from.
LEMMA BacktrackFirst ==
    ASSUME NEW up \in BOOLEAN, NEW t \in [Slots -> JP], Searchable(t), NEW k \in Key,
           NEW l \in Level, \A m \in (l + 1)..RootLevel : t[Slot(k, m)].type \in Branch
    PROVE  Backtrack(up, t, k, l + 1) = FirstOf(up, Far(up, t, k, l))
  <1> DEFINE S == (l + 1)..(RootLevel + 1)
             D(m) == Way(up, t, Slot(k, m), k[m])
             E(m) == {FindLimit(up, t, Child(Slot(k, m), d)) : d \in D(m)}
             V == {{}} \cup {E(m) : m \in S}
             r == [m \in S |-> RootLevel + 1 - m]
             Body(h, m) == IF m > RootLevel THEN {} ELSE IF D(m) = {} THEN h[m + 1] ELSE E(m)
             B == [x \in [S -> V] \X S |-> Body(x[1], x[2])]
             Iter(h) == h = [m \in S |-> Body(h, m)]
             SM2 == CHOOSE h : Iter(h)
  <1>1. RootLevel \in Nat /\ l \in 1..RootLevel
    BY SizeAssumption DEF Level
  <1>2. r \in [S -> 0..RootLevel] /\ V # {}
    <2>1. V # {}
      OBVIOUS
    <2>2. ASSUME NEW m \in S PROVE RootLevel + 1 - m \in 0..RootLevel
      BY <1>1
    <2> QED
      BY <2>1, <2>2
  <1>3. \A m \in S : ~(m > RootLevel) => m + 1 \in S /\ r[m + 1] < r[m]
    BY <1>1
  <1> HIDE DEF r, E, D
  <1>4. \A g \in [S -> V] : \A m \in S : B[<<g, m>>] = Body(g, m)
    OBVIOUS
  <1> HIDE DEF B
  <1>5. \A g \in [S -> V] : \A m \in S : Body(g, m) \in V
    BY <1>3
  <1>6. PICK g \in [S -> V] : \A m \in S : g[m] = B[<<g, m>>]
    <2>1. \A g \in [S -> V] : \A m \in S : B[<<g, m>>] \in V
      BY <1>4, <1>5
    <2>2. \A g, h \in [S -> V] : \A u \in S :
              (\A v \in S : r[v] < r[u] => g[v] = h[v]) => B[<<g, u>>] = B[<<h, u>>]
      BY <1>3, <1>4
    <2> HIDE DEF Body, Iter, S, V
    <2>3. Descends(S, V, RootLevel, r, B)
      BY <1>1, <1>2, <2>1, <2>2 DEF Descends
    <2> QED
      BY <2>3, Recursive
  <1>7. Iter(g)
    <2>1. \A m \in S : g[m] = Body(g, m)
      BY <1>4, <1>6
    <2> HIDE DEF Body, S, V
    <2> QED
      BY <2>1
  <1>8. Iter(SM2)
    <2> HIDE DEF Iter
    <2> QED
      BY <1>7
  <1>9. Backtrack(up, t, k, l + 1) = SM2[l + 1]
    BY DEF Backtrack, D, E
  <1> HIDE DEF SM2
  <1>10. \A m \in S : SM2[m] = Body(SM2, m)
    <2> HIDE DEF Body, S
    <2> QED
      BY <1>8
  <1> DEFINE P == {n \in Nat : \A m \in S : RootLevel + 1 - m <= n => SM2[m] = FirstOf(up, Far(up, t, k, m - 1))}
  <1>11. 0 \in P
    <2> SUFFICES ASSUME NEW m \in S, RootLevel + 1 - m <= 0
                 PROVE  SM2[m] = FirstOf(up, Far(up, t, k, m - 1))
      OBVIOUS
    <2>1. m = RootLevel + 1 /\ m - 1 = RootLevel
      BY <1>1
    <2>2. SM2[m] = {}
      BY <1>1, <1>10, <2>1
    <2>3. Far(up, t, k, m - 1) = {}
      BY <2>1, RootOf DEF Far
    <2> QED
      BY <2>2, <2>3 DEF FirstOf
  <1>12. ASSUME NEW n \in Nat, n \in P PROVE n + 1 \in P
    <2> SUFFICES ASSUME NEW m \in S, RootLevel + 1 - m <= n + 1, ~(RootLevel + 1 - m <= n)
                 PROVE  SM2[m] = FirstOf(up, Far(up, t, k, m - 1))
      BY <1>12
    <2>1. m \in Level /\ m > 1 /\ ~(m > RootLevel) /\ m + 1 \in S /\ RootLevel + 1 - (m + 1) <= n /\ (m + 1) - 1 = m
          /\ m \in (l + 1)..RootLevel
      BY <1>1 DEF Level
    <2>2. SM2[m + 1] = FirstOf(up, Far(up, t, k, m))
      BY <1>12, <2>1
    <2> DEFINE s == Slot(k, m)
               A == Ahead(up, Occupied(t, s), k[m])
    <2>3. s \in Slots /\ k[m] \in Digit /\ t[s].type \in Branch
      BY <2>1, KeySlot
    <2>4. /\ A = {} => D(m) = {}
          /\ A # {} => D(m) = {Nearest(up, A)}
      <3>1. /\ A = {} => Way(up, t, s, k[m]) = {}
            /\ A # {} => Way(up, t, s, k[m]) = {Nearest(up, A)}
        BY <2>3, WayIs
      <3> QED
        BY <3>1 DEF D
    <2>5. /\ A = {} => Far(up, t, k, m - 1) = Far(up, t, k, m)
          /\ A # {} => IsFirst(up, Far(up, t, k, m - 1), FindLimit(up, t, Child(s, Nearest(up, A))))
      BY <2>1, <2>3, WayOut
    <2>6. SM2[m] = IF D(m) = {} THEN SM2[m + 1] ELSE E(m)
      BY <1>10, <2>1
    <2>7. CASE A = {}
      BY <2>2, <2>4, <2>5, <2>6, <2>7
    <2>8. CASE A # {}
      <3>1. SM2[m] = {FindLimit(up, t, Child(s, Nearest(up, A)))}
        BY <2>4, <2>6, <2>8 DEF E
      <3>2. Far(up, t, k, m - 1) \in SUBSET Key
        BY IndexKey DEF Far
      <3> QED
        BY <2>5, <2>8, <3>1, <3>2, FirstIs
    <2> QED
      BY <2>7, <2>8
  <1> HIDE DEF P
  <1>13. RootLevel - l \in Nat /\ RootLevel - l \in 0..(RootLevel - l)
    BY <1>1
  <1>14. RootLevel - l \in P
    <2>1. \A m \in 0..(RootLevel - l - 1) : m \in P => m + 1 \in P
      BY <1>12
    <2> QED
      BY <1>11, <1>13, <2>1, UpTo
  <1>15. l + 1 \in S /\ RootLevel + 1 - (l + 1) <= RootLevel - l
    BY <1>1
  <1>16. SM2[l + 1] = FirstOf(up, Far(up, t, k, l))
    <2>1. \A m \in S : RootLevel + 1 - m <= RootLevel - l => SM2[m] = FirstOf(up, Far(up, t, k, m - 1))
      BY <1>14 DEF P
    <2> DEFINE i == l + 1
    <2>2. i \in S /\ RootLevel + 1 - i <= RootLevel - l /\ i - 1 = l
      BY <1>1, <1>15
    <2> HIDE DEF S, i
    <2>3. SM2[i] = FirstOf(up, Far(up, t, k, i - 1))
      BY <2>1, <2>2
    <2> QED
      BY <2>2, <2>3 DEF i
  <1> QED
    BY <1>9, <1>16

-----------------------------------------------------------------------------
(* SM1Get *)

\* What SM1 goes on with is one of its four ends, and no JP of level 1 goes on down.
LEMMA SM1Ends ==
    ASSUME NEW up \in BOOLEAN, NEW t \in [Slots -> JP], Inhabited(t), NEW k \in Key, NEW l \in Level
    PROVE  LET o == SM1At(up, t, k, l)
           IN  /\ o.to \in {"SM1Get", "SM2Backtrack", "SM3Findlimit", "found"}
               /\ o.to = "SM1Get" => l > 1 /\ l - 1 \in Level
  <1> DEFINE Tos == {"SM1Get", "SM2Backtrack", "SM3Findlimit", "found"}
             J == t[Slot(k, l)]
  <1>1. \A a : /\ On(a).to = "SM1Get" /\ Back(a).to = "SM2Backtrack"
               /\ Limits(a).to = "SM3Findlimit" /\ Is(a).to = "found"
    BY DEF On, Back, Limits, Is
  <1>2. Slot(k, l) \in Slots /\ Slot(k, l)[1] = l
    BY KeySlot
  <1>3. J.type \in Branch => l > 1 /\ l - 1 \in Level
    <2>1. J.type \in Branch => l > 1
      BY <1>2 DEF Inhabited
    <2>2. l > 1 => l - 1 \in Level
      BY SizeAssumption DEF Level
    <2> QED
      BY <2>1, <2>2
  <1>4. \A K, n : SM1LeafLImm(up, K, k, l, n).to \in Tos \ {"SM1Get"}
    BY <1>1 DEF SM1LeafLImm, SM1Beyond
  <1>5. SM1LeafB1U(up, J.keys, k).to \in Tos \ {"SM1Get"}
    BY <1>1 DEF SM1LeafB1U
  <1>6. SM1BranchL(up, t, k, l).to \in Tos
    BY <1>1 DEF SM1BranchL
  <1>7. SM1BranchB(up, t, k, l).to \in Tos
    BY <1>1 DEF SM1BranchB
  <1>8. SM1BranchU(up, t, k, l).to \in Tos
    BY <1>1 DEF SM1BranchU
  <1>9. CASE J.type \in Branch
    <2>1. SM1At(up, t, k, l) \in {SM1BranchL(up, t, k, l), SM1BranchB(up, t, k, l), SM1BranchU(up, t, k, l)}
      BY <1>9 DEF SM1At, Branch
    <2> QED
      BY <1>3, <1>6, <1>7, <1>8, <1>9, <2>1
  <1>10. CASE J.type \notin Branch
    <2>1. SM1At(up, t, k, l).to \in Tos \ {"SM1Get"}
      BY <1>1, <1>4, <1>5, <1>10 DEF SM1At, SM1Leaf, SM1Immed, Branch
    <2> QED
      BY <2>1
  <1> QED
    BY <1>9, <1>10

\* The keys of the tree from k on.
KeysOnward(up, t, k) == {j \in Index : Get(t, j) /\ (j = k \/ Beyond(up, k, j))}

\* What a leaf on the way of k says of them.
LEMMA LeafOnward ==
    ASSUME NEW up \in BOOLEAN, NEW t \in [Slots -> JP], Searchable(t), NEW k \in Key,
           NEW l \in Level, Reaches(t, k, l), t[Slot(k, l)].type \notin Branch
    PROVE  LET K == t[Slot(k, l)].keys
           IN  /\ K \in SUBSET Index /\ \A j \in K : Slot(j, l) = Slot(k, l)
               /\ k \in K => IsFirst(up, KeysOnward(up, t, k), k)
               /\ \A f : IsFirst(up, {j \in K : Beyond(up, k, j)}, f) /\ k \notin K
                            => IsFirst(up, KeysOnward(up, t, k), f)
               /\ (\A j \in K : ~Beyond(up, k, j)) /\ k \notin K => KeysOnward(up, t, k) = Far(up, t, k, l)
  <1> DEFINE s == Slot(k, l)
             K == t[s].keys
             O == KeysOnward(up, t, k)
  <1>1. K \in SUBSET Index /\ s \in Slots /\ s[1] = l
    BY KeySlot DEF JP
  <1>2. \A j \in Index : j \in K <=> Get(t, j) /\ Slot(j, l) = s
    <2>1. Below(t, s) = K
      BY OwnBelow DEF Searchable
    <2> QED
      BY <1>1, <2>1 DEF Below
  <1>3. \A j \in Index : j \in Key
    BY IndexKey
  <1>4. ASSUME k \in K PROVE IsFirst(up, O, k)
    BY <1>1, <1>2, <1>4 DEF IsFirst, KeysOnward
  <1>5. ASSUME NEW f, IsFirst(up, {j \in K : Beyond(up, k, j)}, f), k \notin K PROVE IsFirst(up, O, f)
    <2>1. f \in K /\ Beyond(up, k, f) /\ f \in Index /\ f \in Key /\ Slot(f, l) = s /\ Get(t, f)
      BY <1>1, <1>2, <1>3, <1>5 DEF IsFirst
    <2>2. f \in O
      BY <2>1 DEF KeysOnward
    <2>3. ASSUME NEW j \in O PROVE j = f \/ Beyond(up, f, j)
      <3>1. j \in Index /\ j \in Key /\ Get(t, j) /\ (j = k \/ Beyond(up, k, j))
        BY <1>3 DEF KeysOnward
      <3>2. CASE Slot(j, l) = s
        BY <1>2, <1>5, <3>1, <3>2 DEF IsFirst
      <3>3. CASE Slot(j, l) # s
        BY <2>1, <3>1, <3>3, SameSide
      <3> QED
        BY <3>2, <3>3
    <2> QED
      BY <2>2, <2>3 DEF IsFirst
  <1>6. ASSUME \A j \in K : ~Beyond(up, k, j), k \notin K PROVE O = Far(up, t, k, l)
    BY <1>2, <1>6 DEF KeysOnward, Far
  <1> QED
    BY <1>1, <1>2, <1>4, <1>5, <1>6

\* The place of a key that is not in a leaf tells whether one is beyond it.
LEMMA PlaceTells ==
    ASSUME NEW up \in BOOLEAN, NEW K \in SUBSET Index, NEW k \in Key, k \notin K
    PROVE  /\ (IF up THEN Rank(k, K) < Cardinality(K) ELSE Rank(k, K) > 0)
                 <=> \E j \in K : Beyond(up, k, j)
           /\ Cardinality(K) = 1 =>
                 (Rank(k, K) = IF \E j \in K : Less(j, k) THEN 1 ELSE 0)
  <1> DEFINE L == {j \in K : Less(j, k)}
  <1>1. IsFiniteSet(K) /\ Cardinality(K) \in Nat /\ IsFiniteSet(L) /\ Cardinality(L) \in Nat /\ L \subseteq K
    <2>1. L \in SUBSET Index
      OBVIOUS
    <2> QED
      BY <2>1, KeysFinite
  <1>2. Rank(k, K) = Cardinality(L)
    BY DEF Rank
  <1>3. \A j \in K : (Less(j, k) \/ Less(k, j)) /\ ~(Less(j, k) /\ Less(k, j))
    BY IndexKey, LessApart, LessOneWay
  <1>4. Cardinality(L) > 0 <=> L # {}
    BY <1>1, FS_EmptySet
  <1>5. Cardinality(L) <= Cardinality(K) /\ (Cardinality(L) = Cardinality(K) => L = K)
    BY <1>1, FS_Subset
  <1>6. Cardinality(L) < Cardinality(K) <=> L # K
    BY <1>1, <1>5
  <1> HIDE DEF L
  <1>7. ASSUME up PROVE Cardinality(L) < Cardinality(K) <=> \E j \in K : Beyond(up, k, j)
    BY <1>3, <1>6, <1>7 DEF L, Beyond
  <1>8. ASSUME ~up PROVE Cardinality(L) > 0 <=> \E j \in K : Beyond(up, k, j)
    BY <1>3, <1>4, <1>8 DEF L, Beyond
  <1>9. ASSUME Cardinality(K) = 1
        PROVE  Cardinality(L) = IF \E j \in K : Less(j, k) THEN 1 ELSE 0
    <2>1. PICK x : K = {x}
      BY <1>1, <1>9, FS_Singleton
    <2>2. CASE Less(x, k)
      <3>1. L = K
        BY <2>1, <2>2 DEF L
      <3> QED
        BY <1>9, <2>1, <2>2, <3>1
    <2>3. CASE ~Less(x, k)
      <3>1. L = {}
        BY <2>1, <2>3 DEF L
      <3> QED
        BY <2>1, <2>3, <3>1, FS_EmptySet
    <2> QED
      BY <2>2, <2>3
  <1> QED
    BY <1>2, <1>7, <1>8, <1>9

\* What an end of SM1 answers for.
Tells(up, t, k, l, o) ==
    CASE o.to = "SM1Get" -> l > 1 /\ l - 1 \in Level /\ Reaches(t, k, l - 1)
      [] o.to = "SM2Backtrack" -> o.at = l + 1 /\ KeysOnward(up, t, k) = Far(up, t, k, l)
      [] o.to = "SM3Findlimit" -> IsFirst(up, KeysOnward(up, t, k), FindLimit(up, t, o.at))
      [] o.to = "found" -> IsFirst(up, KeysOnward(up, t, k), o.at)

\* Each end answers for what it stands for.
LEMMA EndTells ==
    ASSUME NEW up, NEW t, NEW k, NEW l, NEW a
    PROVE  /\ l > 1 /\ l - 1 \in Level /\ Reaches(t, k, l - 1) => Tells(up, t, k, l, On(k))
           /\ KeysOnward(up, t, k) = Far(up, t, k, l) => Tells(up, t, k, l, Back(l + 1))
           /\ IsFirst(up, KeysOnward(up, t, k), FindLimit(up, t, a)) => Tells(up, t, k, l, Limits(a))
           /\ IsFirst(up, KeysOnward(up, t, k), a) => Tells(up, t, k, l, Is(a))
  BY DEF Tells, On, Back, Limits, Is

\* A leaf or an immediate.
LEMMA LeafTells ==
    ASSUME NEW up \in BOOLEAN, NEW t \in [Slots -> JP], Searchable(t), NEW k \in Key,
           NEW l \in Level, Reaches(t, k, l), t[Slot(k, l)].type \notin Branch
    PROVE  LET K == t[Slot(k, l)].keys
           IN  /\ Tells(up, t, k, l, SM1Leaf(up, K, k, l))
               /\ Tells(up, t, k, l, SM1Immed(up, K, k, l))
  <1> DEFINE K == t[Slot(k, l)].keys
             n == Rank(k, K)
             F == {j \in K : Beyond(up, k, j)}
             o == SM1LeafLImm(up, K, k, l, n)
  <1>1. /\ K \in SUBSET Index
        /\ k \in K => IsFirst(up, KeysOnward(up, t, k), k)
        /\ \A f : IsFirst(up, F, f) /\ k \notin K => IsFirst(up, KeysOnward(up, t, k), f)
        /\ (\A j \in K : ~Beyond(up, k, j)) /\ k \notin K => KeysOnward(up, t, k) = Far(up, t, k, l)
    BY LeafOnward
  <1> HIDE DEF K
  <1>2. Tells(up, t, k, l, o)
    <2>1. CASE k \in K
      BY <1>1, <2>1, EndTells DEF SM1LeafLImm
    <2>2. CASE k \notin K /\ F # {}
      <3>1. IF up THEN n < Cardinality(K) ELSE n > 0
        BY <1>1, <2>2, PlaceTells
      <3>2. o = Is(NearestKey(up, F))
        BY <2>2, <3>1 DEF SM1LeafLImm, SM1Beyond
      <3>3. IsFirst(up, F, NearestKey(up, F))
        BY <1>1, <2>2, FirstKey
      <3> QED
        BY <1>1, <2>2, <3>2, <3>3, EndTells
    <2>3. CASE k \notin K /\ F = {}
      <3>1. ~(IF up THEN n < Cardinality(K) ELSE n > 0)
        BY <1>1, <2>3, PlaceTells
      <3>2. o = Back(l + 1)
        BY <2>3, <3>1 DEF SM1LeafLImm
      <3> QED
        BY <1>1, <2>3, <3>2, EndTells
    <2> QED
      BY <2>1, <2>2, <2>3
  <1>3. SM1Leaf(up, K, k, l) = o
    BY DEF SM1Leaf
  <1>4. Tells(up, t, k, l, SM1Immed(up, K, k, l))
    <2>1. CASE k \in K
      BY <1>1, <2>1, EndTells DEF SM1Immed, SM1LeafLImm
    <2>2. CASE k \notin K
      BY <1>1, <1>2, <2>2, PlaceTells DEF SM1Immed
    <2> QED
      BY <2>1, <2>2
  <1> QED
    BY <1>2, <1>3, <1>4 DEF K

\* A branch on the way of k.
LEMMA BranchTells ==
    ASSUME NEW up \in BOOLEAN, NEW t \in [Slots -> JP], Searchable(t), NEW k \in Key,
           NEW l \in Level, Reaches(t, k, l), t[Slot(k, l)].type \in Branch
    PROVE  Tells(up, t, k, l, SM1At(up, t, k, l))
  <1> DEFINE s == Slot(k, l)
             D == Occupied(t, s)
             A == Ahead(up, D, k[l])
             O == KeysOnward(up, t, k)
  <1>1. s \in Slots /\ s[1] = l /\ k[l] \in Digit /\ l > 1 /\ l - 1 \in Level
    <2>1. s \in Slots /\ s[1] = l /\ k[l] \in Digit
      BY KeySlot
    <2>2. l > 1
      BY <2>1, OccupiedIs
    <2> QED
      BY <2>1, <2>2, SlotsDown
  <1>2. ASSUME k[l] \in D PROVE Reaches(t, k, l - 1)
    <2>1. Enters(t[s], k[l])
      BY <1>1, <1>2, OccupiedIs
    <2> QED
      BY <1>1, <2>1, ReachesBelow
  <1>3. ASSUME k[l] \notin D PROVE O = Far(up, t, k, l - 1)
    <2>1. ASSUME NEW j \in Index, Get(t, j) PROVE Slot(j, l - 1) # Slot(k, l - 1)
      <3>1. j \in Key
        BY IndexKey
      <3>2. SUFFICES ASSUME Slot(j, l - 1) = Slot(k, l - 1) PROVE FALSE
        OBVIOUS
      <3>3. Slot(j, l) = s /\ j[l] = k[l]
        BY <1>1, <3>1, <3>2, SlotsDown
      <3>4. j \in Below(t, s)
        BY <1>1, <2>1, <3>3 DEF Below
      <3>5. j[s[1]] \in D
        BY <1>1, <3>4, BelowOccupied
      <3> QED
        BY <1>1, <1>3, <3>3, <3>5
    <2>2. ASSUME NEW j \in O PROVE j # k
      BY <2>1 DEF KeysOnward
    <2> QED
      BY <2>1, <2>2 DEF KeysOnward, Far
  <1>4. /\ A = {} => Far(up, t, k, l - 1) = Far(up, t, k, l)
        /\ A # {} => IsFirst(up, Far(up, t, k, l - 1), FindLimit(up, t, Child(s, Nearest(up, A))))
    BY <1>1, WayOut
  <1> DEFINE S == Limits(Child(s, Nearest(up, A)))
  <1>5. /\ k[l] \in D => Tells(up, t, k, l, On(k))
        /\ k[l] \notin D /\ A # {} => Tells(up, t, k, l, S)
        /\ k[l] \notin D /\ A = {} => Tells(up, t, k, l, Back(l + 1))
    BY <1>1, <1>2, <1>3, <1>4, EndTells
  <1>6. t[s].type # "BRANCH_U" => D = t[s].exp
    BY DEF Occupied
  <1>7. CASE t[s].type = "BRANCH_L"
    <2>1. SM1At(up, t, k, l) = SM1BranchL(up, t, k, l)
      BY <1>7 DEF SM1At
    <2>2. SM1BranchL(up, t, k, l) = CASE k[l] \in D -> On(k)
                                      [] k[l] \notin D /\ A # {} -> S
                                      [] OTHER -> Back(l + 1)
      BY <1>6, <1>7 DEF SM1BranchL
    <2> HIDE DEF D, A, S
    <2> QED
      BY <1>5, <2>1, <2>2
  <1>8. CASE t[s].type = "BRANCH_B"
    <2> DEFINE E == NearestBit(up, D, k[l], SUBEXP_B)
    <2>1. SM1At(up, t, k, l) = SM1BranchB(up, t, k, l)
      BY <1>8 DEF SM1At
    <2>2. E = IF A = {} THEN {} ELSE {Nearest(up, A)}
      <3>1. t[s].exp = D
        BY <1>6, <1>8
      <3>2. NearestBit(up, t[s].exp, k[l], SUBEXP_B) = IF A = {} THEN {} ELSE {Nearest(up, A)}
        BY <1>1, <1>8, WayIs
      <3> HIDE DEF D, A
      <3> QED
        BY <3>1, <3>2
    <2>3. SM1BranchB(up, t, k, l) = CASE k[l] \in D -> On(k)
                                      [] k[l] \notin D /\ E # {} -> Limits(Child(s, Nearest(up, E)))
                                      [] OTHER -> Back(l + 1)
      BY <1>6, <1>8 DEF SM1BranchB
    <2>4. A # {} => Nearest(up, E) = Nearest(up, A) /\ E # {}
      <3>1. SUFFICES ASSUME A # {} PROVE Nearest(up, {Nearest(up, A)}) = Nearest(up, A)
        BY <2>2
      <3> DEFINE x == Nearest(up, A)
      <3>2. x \in Nat
        <4>1. x \in A /\ A \subseteq D
          BY <1>1, <1>8, <3>1, WayIs DEF Branch, Ahead
        <4>2. D \in SUBSET Digit
          BY <1>1, <1>8, OccupiedIs DEF Branch
        <4> QED
          BY <4>1, <4>2, SizeAssumption DEF Digit
      <3> HIDE DEF x
      <3>3. IsFiniteSet({x}) /\ {x} \in SUBSET Nat /\ {x} # {}
        BY <3>2, FS_Singleton
      <3>4. Nearest(up, {x}) \in {x}
        BY <3>3, NearestIs
      <3> QED
        BY <3>4 DEF x
    <2> HIDE DEF D, A, E
    <2>5. CASE k[l] \in D
      BY <1>5, <2>1, <2>3, <2>5
    <2>6. CASE k[l] \notin D /\ A # {}
      BY <1>5, <2>1, <2>3, <2>4, <2>6
    <2>7. CASE k[l] \notin D /\ A = {}
      BY <1>5, <2>1, <2>2, <2>3, <2>7
    <2> QED
      BY <2>5, <2>6, <2>7
  <1>9. CASE t[s].type = "BRANCH_U"
    <2> DEFINE E == {d \in Ahead(up, Digit, k[l]) : t[Child(s, d)].type # "NULL"}
    <2>1. SM1At(up, t, k, l) = SM1BranchU(up, t, k, l)
      BY <1>9 DEF SM1At
    <2>2. E = A
      BY <1>9 DEF Occupied, Ahead
    <2>3. k[l] \in D <=> t[Child(s, k[l])].type # "NULL"
      BY <1>1, <1>9 DEF Occupied
    <2>4. SM1BranchU(up, t, k, l) = CASE k[l] \in D -> On(k)
                                      [] k[l] \notin D /\ E # {} -> Limits(Child(s, Nearest(up, E)))
                                      [] OTHER -> Back(l + 1)
      <3> HIDE DEF D
      <3> QED
        BY <2>3 DEF SM1BranchU
    <2> HIDE DEF D, A, E
    <2> QED
      BY <1>5, <2>1, <2>2, <2>4
  <1> QED
    BY <1>7, <1>8, <1>9 DEF Branch

\* A bitmap leaf.
LEMMA BitmapTells ==
    ASSUME NEW up \in BOOLEAN, NEW t \in [Slots -> JP], Searchable(t), NEW k \in Key,
           Reaches(t, k, 1), t[Slot(k, 1)].type \notin Branch
    PROVE  Tells(up, t, k, 1, SM1LeafB1U(up, t[Slot(k, 1)].keys, k))
  <1> DEFINE K == t[Slot(k, 1)].keys
             D == {j[1] : j \in K}
             A == Ahead(up, D, k[1])
             e == Nearest(up, A)
             E == NearestBit(up, D, k[1], SUBEXP_L)
             F == {j \in K : Beyond(up, k, j)}
  <1>1. 1 \in Level /\ k[1] \in Digit
    BY KeySlot, SizeAssumption DEF Level
  <1>2. /\ K \in SUBSET Index /\ K \in SUBSET Key /\ \A j \in K : Slot(j, 1) = Slot(k, 1)
        /\ k \in K => IsFirst(up, KeysOnward(up, t, k), k)
        /\ \A f : IsFirst(up, F, f) /\ k \notin K => IsFirst(up, KeysOnward(up, t, k), f)
        /\ F = {} /\ k \notin K => KeysOnward(up, t, k) = Far(up, t, k, 1)
    BY <1>1, LeafOnward, IndexKey
  <1> HIDE DEF K
  <1>3. D \in SUBSET Digit /\ A \in SUBSET Nat /\ IsFiniteSet(A)
    <2>1. D \in SUBSET Digit
      BY <1>1, <1>2, KeySlot
    <2>2. A \subseteq Digit
      BY <2>1 DEF Ahead
    <2> QED
      BY <2>1, <2>2, DigitsFinite, SizeAssumption DEF Digit
  <1>4. k[1] \in D <=> k \in K
    <2>1. ASSUME NEW j \in K, j[1] = k[1] PROVE j = k
      BY <1>2, <2>1, SlotsBottom
    <2> QED
      BY <2>1
  <1>5. E = IF A = {} THEN {} ELSE {e}
    BY <1>1, <1>3, NearestBitIs, SubExpAssumption
  <1>6. \A j \in K : Beyond(up, k, j) <=> Past(up, k[1], j[1])
    <2> SUFFICES ASSUME NEW j \in K PROVE Beyond(up, k, j) <=> Past(up, k[1], j[1])
      OBVIOUS
    <2>1. CASE j[1] = k[1]
      <3>1. j = k
        BY <1>2, <2>1, SlotsBottom
      <3>2. ~Past(up, k[1], k[1])
        BY <1>1, SizeAssumption DEF Past, Digit
      <3> QED
        BY <3>1, <3>2, BeyondOrder
    <2>2. CASE j[1] # k[1]
      BY <1>1, <1>2, <2>2, BeyondAt
    <2> QED
      BY <2>1, <2>2
  <1>7. \A d : d \in A <=> d \in D /\ Past(up, k[1], d)
    BY DEF Ahead, Past
  <1>8. F = {} <=> A = {}
    BY <1>6, <1>7
  <1>9. CASE k[1] \in D
    BY <1>2, <1>4, <1>9, EndTells DEF SM1LeafB1U, K
  <1>10. CASE k[1] \notin D /\ A # {}
    <2> DEFINE i == [k EXCEPT ![1] = e]
    <2>1. e \in A /\ \A d \in A : d = e \/ Past(up, e, d)
      BY <1>3, <1>10, NearestIs
    <2>2. SM1LeafB1U(up, K, k) = Is(i)
      <3>1. Nearest(up, E) = e /\ E # {}
        <4>1. E = {e}
          BY <1>5, <1>10
        <4>2. e \in Nat
          BY <1>3, <2>1
        <4> HIDE DEF e, E
        <4>3. IsFiniteSet({e}) /\ {e} \in SUBSET Nat /\ {e} # {}
          BY <4>2, FS_Singleton
        <4>4. Nearest(up, {e}) \in {e}
          BY <4>3, NearestIs
        <4> QED
          BY <4>1, <4>4
      <3> HIDE DEF A, e
      <3>2. SM1LeafB1U(up, K, k) = CASE k[1] \in D -> Is(k)
              [] k[1] \notin D /\ E # {} -> Is([k EXCEPT ![1] = Nearest(up, E)])
              [] OTHER -> Back(2)
        BY DEF SM1LeafB1U
      <3> HIDE DEF D, E
      <3> QED
        BY <1>10, <3>1, <3>2
    <2> HIDE DEF e
    <2>3. PICK j \in K : j[1] = e
      BY <1>7, <2>1
    <2>4. i = j
      <3>1. e \in Digit
        BY <1>3, <1>7, <2>1
      <3>2. i \in Key /\ i[1] = e
        BY <1>1, <3>1 DEF Key
      <3>3. Slot(i, 1) = Slot(k, 1)
        <4>1. \A m \in 2..RootLevel : i[m] = k[m]
          BY SizeAssumption DEF Key, Level
        <4>2. [m \in 2..RootLevel |-> i[m]] = [m \in 2..RootLevel |-> k[m]]
          BY <4>1
        <4> QED
          BY <4>2 DEF Slot
      <3> HIDE DEF i
      <3> QED
        BY <1>2, <2>3, <3>2, <3>3, SlotsBottom
    <2> HIDE DEF i
    <2>5. j \in F /\ F \in SUBSET Key /\ \A x \in F : Slot(x, 1) = Slot(k, 1)
      BY <1>2, <1>6, <1>7, <2>1, <2>3
    <2>6. \A x \in F : x[1] = j[1] \/ Past(up, j[1], x[1])
      BY <1>6, <1>7, <2>1, <2>3
    <2> HIDE DEF F
    <2>7. IsFirst(up, F, j)
      BY <2>5, <2>6, FirstByDigit
    <2>8. IsFirst(up, KeysOnward(up, t, k), j)
      BY <1>2, <1>4, <1>10, <2>7
    <2> QED
      BY <2>2, <2>4, <2>8, EndTells DEF K
  <1>11. CASE k[1] \notin D /\ A = {}
    <2>1. SM1LeafB1U(up, K, k) = Back(2)
      BY <1>5, <1>11 DEF SM1LeafB1U
    <2>2. KeysOnward(up, t, k) = Far(up, t, k, 1)
      BY <1>2, <1>4, <1>8, <1>11
    <2>3. Tells(up, t, k, 1, Back(1 + 1))
      BY <2>2, EndTells
    <2> QED
      BY <2>1, <2>3 DEF K
  <1> QED
    BY <1>9, <1>10, <1>11

\* What SM1 finds at a JP that it comes to is so.
LEMMA SM1Tells ==
    ASSUME NEW up \in BOOLEAN, NEW t \in [Slots -> JP], Searchable(t), NEW k \in Key,
           NEW l \in Level, Reaches(t, k, l)
    PROVE  Tells(up, t, k, l, SM1At(up, t, k, l))
  <1> DEFINE s == Slot(k, l)
             J == t[s]
  <1>1. s \in Slots /\ s[1] = l /\ Fits(l, J) /\ J.type \in JPType /\ J.keys \in SUBSET Index
    BY KeySlot DEF Searchable, Formed, JP
  <1>2. CASE J.type \in Branch
    BY <1>2, BranchTells
  <1>3. CASE J.type = "LEAF_B1U"
    <2>1. l = 1 /\ J.type \notin Branch
      BY <1>1, <1>3 DEF Fits, Branch
    <2>2. SM1At(up, t, k, l) = SM1LeafB1U(up, J.keys, k)
      BY <1>3 DEF SM1At
    <2> QED
      BY <2>1, <2>2, BitmapTells
  <1>4. CASE J.type = "FULLPOPU1"
    <2>1. l = 1 /\ Cardinality(J.keys) = Base /\ J.type \notin Branch
      BY <1>1, <1>4 DEF Fits, Branch
    <2>2. \A j \in J.keys : Slot(j, 1) = s /\ j \in Key
      BY <1>1, <2>1, IndexKey DEF Searchable, OwnKeys
    <2>3. k[1] \in Digit
      BY <2>1, KeySlot
    <2>4. PICK j \in J.keys : j[1] = k[1]
      <3> DEFINE X == J.keys
      <3>1. X \in SUBSET Index /\ Cardinality(X) = Base /\ \A x \in X : Slot(x, 1) = s
        BY <1>1, <2>1, <2>2
      <3> HIDE DEF X, s
      <3>2. \E x \in X : x[1] = k[1]
        BY <2>3, <3>1, FullExpanse
      <3> QED
        BY <3>2 DEF X
    <2>5. k \in J.keys
      BY <2>1, <2>2, <2>4, SlotsBottom
    <2>6. IsFirst(up, KeysOnward(up, t, k), k)
      BY <2>1, <2>5, LeafOnward
    <2>7. SM1At(up, t, k, l) = Is(k)
      BY <1>4 DEF SM1At
    <2> QED
      BY <2>6, <2>7, EndTells
  <1>5. CASE J.type \notin Branch \cup {"LEAF_B1U", "FULLPOPU1"}
    <2>1. SM1At(up, t, k, l) \in {SM1Leaf(up, J.keys, k, l), SM1Immed(up, J.keys, k, l)}
      BY <1>5 DEF SM1At, Branch
    <2> QED
      BY <1>5, <2>1, LeafTells
  <1> QED
    BY <1>2, <1>3, <1>4, <1>5

-----------------------------------------------------------------------------
(* The search *)

\* With no branch left there is nothing beyond.
LEMMA FarRoot ==
    ASSUME NEW up, NEW t, NEW k
    PROVE  Far(up, t, k, RootLevel) = {}
  BY RootOf DEF Far

\* A LEAF8 is searched for the first of its keys from k on.
LEMMA Leaf8First ==
    ASSUME NEW up \in BOOLEAN, NEW t \in [Slots -> JP], Searchable(t), NEW k \in Key,
           t[RootSlot].type = "LEAF"
    PROVE  Leaf8Search(up, t[RootSlot].keys, k) = FirstOf(up, KeysOnward(up, t, k))
  <1> DEFINE K == t[RootSlot].keys
             F == {j \in K : Beyond(up, k, j)}
             O == KeysOnward(up, t, k)
  <1>1. RootLevel \in Level /\ Slot(k, RootLevel) = RootSlot /\ Reaches(t, k, RootLevel)
    BY RootOf, ReachesRoot, SizeAssumption DEF Level
  <1>2. /\ K \in SUBSET Index
        /\ k \in K => IsFirst(up, O, k)
        /\ \A f : IsFirst(up, F, f) /\ k \notin K => IsFirst(up, O, f)
        /\ (\A j \in K : ~Beyond(up, k, j)) /\ k \notin K => O = Far(up, t, k, RootLevel)
    <2>1. t[Slot(k, RootLevel)].type \notin Branch
      BY <1>1 DEF Branch
    <2> QED
      BY <1>1, <2>1, LeafOnward
  <1>3. \A f : IsFirst(up, O, f) => FirstOf(up, O) = {f}
    <2>1. O \in SUBSET Key
      BY IndexKey DEF KeysOnward
    <2> QED
      BY <2>1, FirstIs
  <1> HIDE DEF O, K
  <1>4. CASE k \in K
    BY <1>2, <1>3, <1>4 DEF Leaf8Search, K, O
  <1>5. CASE k \notin K /\ F # {}
    <2>1. IsFirst(up, F, NearestKey(up, F))
      BY <1>2, <1>5, FirstKey
    <2>2. FirstOf(up, O) = {NearestKey(up, F)}
      BY <1>2, <1>3, <1>5, <2>1
    <2>3. Leaf8Search(up, K, k) = {NearestKey(up, F)}
      BY <1>5 DEF Leaf8Search
    <2> QED
      BY <2>2, <2>3 DEF K, O
  <1>6. CASE k \notin K /\ F = {}
    <2>1. O = {}
      BY <1>2, <1>6, FarRoot
    <2>2. Leaf8Search(up, K, k) = {}
      BY <1>6 DEF Leaf8Search
    <2> QED
      BY <2>1, <2>2 DEF K, O, FirstOf
  <1> QED
    BY <1>4, <1>5, <1>6

\* What SM1 is to answer for the end o.
AnswerOf(up, t, k, o) ==
    CASE o.to = "SM2Backtrack" -> Backtrack(up, t, k, o.at)
      [] o.to = "SM3Findlimit" -> {FindLimit(up, t, o.at)}
      [] o.to = "found" -> {o.at}

\* An end that is not to go on answers the first key from k on.
LEMMA EndFirst ==
    ASSUME NEW up \in BOOLEAN, NEW t \in [Slots -> JP], Searchable(t), NEW k \in Key,
           NEW l \in Level, Reaches(t, k, l), NEW o,
           o.to \in {"SM2Backtrack", "SM3Findlimit", "found"}, Tells(up, t, k, l, o)
    PROVE  AnswerOf(up, t, k, o) = FirstOf(up, KeysOnward(up, t, k))
  <1> DEFINE O == KeysOnward(up, t, k)
  <1>1. \A f : IsFirst(up, O, f) => FirstOf(up, O) = {f}
    <2>1. O \in SUBSET Key
      BY IndexKey DEF KeysOnward
    <2> QED
      BY <2>1, FirstIs
  <1> HIDE DEF O
  <1>2. CASE o.to = "SM2Backtrack"
    <2>1. o.at = l + 1 /\ O = Far(up, t, k, l)
      BY <1>2 DEF Tells, O
    <2>2. ASSUME NEW m \in (l + 1)..RootLevel PROVE t[Slot(k, m)].type \in Branch
      BY DEF Reaches, Enters, EntersL, EntersB, EntersU, Branch
    <2>3. Backtrack(up, t, k, l + 1) = FirstOf(up, Far(up, t, k, l))
      BY <2>2, BacktrackFirst
    <2> QED
      BY <1>2, <2>1, <2>3 DEF AnswerOf, O
  <1>3. CASE o.to = "SM3Findlimit"
    BY <1>1, <1>3 DEF AnswerOf, Tells, O
  <1>4. CASE o.to = "found"
    BY <1>1, <1>4 DEF AnswerOf, Tells, O
  <1> QED
    BY <1>2, <1>3, <1>4

\* A search comes to the first key from k on.
LEMMA SearchFirst ==
    ASSUME NEW up \in BOOLEAN, NEW t \in [Slots -> JP], Searchable(t), NEW k \in Key
    PROVE  Search(up, t, k) = FirstOf(up, KeysOnward(up, t, k))
  <1> DEFINE CaseAt(l) == SM1At(up, t, k, l)
             Body(h, l) == CASE CaseAt(l).to = "SM1Get" -> h[l - 1]
                             [] CaseAt(l).to = "SM2Backtrack" -> Backtrack(up, t, k, CaseAt(l).at)
                             [] CaseAt(l).to = "SM3Findlimit" -> {FindLimit(up, t, CaseAt(l).at)}
                             [] CaseAt(l).to = "found" -> {CaseAt(l).at}
             Out(l) == AnswerOf(up, t, k, CaseAt(l))
             V == {{}} \cup {Out(l) : l \in Level}
             r == [l \in Level |-> l]
             B == [x \in [Level -> V] \X Level |-> Body(x[1], x[2])]
             Iter(h) == h = [l \in Level |-> Body(h, l)]
             SM1 == CHOOSE h : Iter(h)
  <1>1. RootLevel \in Nat /\ RootLevel \in Level /\ \A l \in Level : l \in 1..RootLevel
    BY SizeAssumption DEF Level
  <1>2. \A l \in Level : /\ CaseAt(l).to \in {"SM1Get", "SM2Backtrack", "SM3Findlimit", "found"}
                         /\ CaseAt(l).to = "SM1Get" => l > 1 /\ l - 1 \in Level
    BY SM1Ends DEF Searchable
  <1> HIDE DEF CaseAt
  <1>3. \A h : \A l \in Level : /\ CaseAt(l).to = "SM1Get" => Body(h, l) = h[l - 1]
                                /\ CaseAt(l).to # "SM1Get" => Body(h, l) = Out(l)
    <2> TAKE h
    <2> TAKE l \in Level
    <2>1. CASE CaseAt(l).to = "SM1Get"
      BY <2>1
    <2>2. CASE CaseAt(l).to = "SM2Backtrack"
      BY <2>2 DEF AnswerOf
    <2>3. CASE CaseAt(l).to = "SM3Findlimit"
      BY <2>3 DEF AnswerOf
    <2>4. CASE CaseAt(l).to = "found"
      BY <2>4 DEF AnswerOf
    <2> QED
      BY <1>2, <2>1, <2>2, <2>3, <2>4
  <1>4. r \in [Level -> 0..RootLevel] /\ V # {}
    BY <1>1
  <1>5. \A l \in Level : CaseAt(l).to = "SM1Get" => l - 1 \in Level /\ r[l - 1] < r[l]
    BY <1>1, <1>2
  <1> HIDE DEF r
  <1>6. \A g \in [Level -> V] : \A l \in Level : B[<<g, l>>] = Body(g, l)
    OBVIOUS
  <1> HIDE DEF B
  <1> HIDE DEF Body, Out
  <1>7. \A g \in [Level -> V] : \A l \in Level : Body(g, l) \in V
    BY <1>3, <1>5
  <1>8. PICK g \in [Level -> V] : \A l \in Level : g[l] = B[<<g, l>>]
    <2>1. \A g \in [Level -> V] : \A l \in Level : B[<<g, l>>] \in V
      BY <1>6, <1>7
    <2>2. \A g, h \in [Level -> V] : \A u \in Level :
              (\A v \in Level : r[v] < r[u] => g[v] = h[v]) => B[<<g, u>>] = B[<<h, u>>]
      BY <1>3, <1>5, <1>6
    <2> HIDE DEF Iter, V
    <2>3. Descends(Level, V, RootLevel, r, B)
      BY <1>1, <1>4, <2>1, <2>2 DEF Descends
    <2> QED
      BY <2>3, Recursive
  <1>9. Iter(g)
    <2>1. \A l \in Level : g[l] = Body(g, l)
      BY <1>6, <1>8
    <2> HIDE DEF V
    <2> QED
      BY <2>1
  <1>10. Iter(SM1)
    <2> HIDE DEF Iter
    <2> QED
      BY <1>9
  <1>11. Search(up, t, k) = IF t[RootSlot].type = "LEAF" THEN Leaf8Search(up, t[RootSlot].keys, k)
                            ELSE SM1[RootLevel]
    BY DEF Search, Body, CaseAt
  <1> HIDE DEF SM1
  <1>12. \A l \in Level : SM1[l] = Body(SM1, l)
    BY <1>10
  <1> DEFINE P == {n \in Nat : \A l \in Level : l <= n /\ Reaches(t, k, l) =>
                                    SM1[l] = FirstOf(up, KeysOnward(up, t, k))}
  <1>13. 0 \in P
    BY <1>1
  <1>14. ASSUME NEW n \in Nat, n \in P PROVE n + 1 \in P
    <2> SUFFICES ASSUME NEW l \in Level, l <= n + 1, Reaches(t, k, l)
                 PROVE  SM1[l] = FirstOf(up, KeysOnward(up, t, k))
      OBVIOUS
    <2>1. Tells(up, t, k, l, CaseAt(l))
      BY SM1Tells DEF CaseAt
    <2>2. SM1[l] = Body(SM1, l)
      BY <1>12
    <2>3. CASE CaseAt(l).to = "SM1Get"
      <3>1. l - 1 \in Level /\ Reaches(t, k, l - 1)
        BY <2>1, <2>3 DEF Tells
      <3>2. l - 1 <= n
        BY <1>1
      <3>3. SM1[l - 1] = FirstOf(up, KeysOnward(up, t, k))
        BY <1>14, <3>1, <3>2
      <3> QED
        BY <1>3, <2>2, <2>3, <3>3
    <2>4. CASE CaseAt(l).to # "SM1Get"
      <3>1. SM1[l] = AnswerOf(up, t, k, CaseAt(l))
        BY <1>3, <2>2, <2>4 DEF Out
      <3>2. CaseAt(l).to \in {"SM2Backtrack", "SM3Findlimit", "found"}
        BY <1>2, <2>4
      <3> QED
        BY <2>1, <3>1, <3>2, EndFirst
    <2> QED
      BY <2>3, <2>4
  <1> HIDE DEF P
  <1>15. RootLevel \in P
    <2>1. RootLevel \in 0..RootLevel /\ \A m \in 0..(RootLevel - 1) : m \in P => m + 1 \in P
      BY <1>1, <1>14
    <2> QED
      BY <1>1, <1>13, <2>1, UpTo
  <1>16. SM1[RootLevel] = FirstOf(up, KeysOnward(up, t, k))
    BY <1>1, <1>15, ReachesRoot DEF P
  <1>17. CASE t[RootSlot].type = "LEAF"
    BY <1>11, <1>17, Leaf8First
  <1>18. CASE t[RootSlot].type # "LEAF"
    BY <1>11, <1>16, <1>18
  <1> QED
    BY <1>17, <1>18

-----------------------------------------------------------------------------
(* The key after a key *)

\* A digit that is not the last in the direction of the search goes one on, and the
\* last comes round to the first.
LEMMA DigitOn ==
    ASSUME NEW up \in BOOLEAN, NEW d \in Digit
    PROVE  LET last == IF up THEN Base - 1 ELSE 0
               first == IF up THEN 0 ELSE Base - 1
               e == (d + (IF up THEN 1 ELSE Base - 1)) % Base
           IN  /\ e \in Digit
               /\ d = last => e = first
               /\ d # last => Past(up, d, e) /\ \A x \in Digit : Past(up, d, x) <=> x = e \/ Past(up, e, x)
  <1>1. Base \in Nat \ {0} /\ Base >= 2 /\ d \in Int /\ d >= 0 /\ d <= Base - 1
    BY SizeAssumption DEF Digit
  <1>2. \A n \in 0..(Base - 1) : n % Base = n
    BY <1>1
  <1>3. \A n \in Int : n >= Base /\ n < 2 * Base => n % Base = n - Base
    <2> SUFFICES ASSUME NEW n \in Int, n >= Base, n < 2 * Base PROVE n % Base = n - Base
      OBVIOUS
    <2>1. n \div Base = 1
      BY <1>1
    <2> QED
      BY <1>1, <2>1
  <1>4. CASE up
    <2>1. CASE d = Base - 1
      <3>1. (d + 1) % Base = 0
        BY <1>1, <1>3, <2>1
      <3> QED
        BY <1>1, <1>4, <2>1, <3>1 DEF Digit
    <2>2. CASE d # Base - 1
      <3>1. (d + 1) % Base = d + 1
        BY <1>1, <1>2, <2>2
      <3> QED
        BY <1>1, <1>4, <2>2, <3>1 DEF Digit, Past
    <2> QED
      BY <2>1, <2>2
  <1>5. CASE ~up
    <2>1. CASE d = 0
      <3>1. (d + (Base - 1)) % Base = Base - 1
        BY <1>1, <1>2, <2>1
      <3> QED
        BY <1>1, <1>5, <2>1, <3>1 DEF Digit
    <2>2. CASE d # 0
      <3>1. (d + (Base - 1)) % Base = d - 1
        BY <1>1, <1>3, <2>2
      <3> QED
        BY <1>1, <1>5, <2>2, <3>1 DEF Digit, Past
    <2> QED
      BY <2>1, <2>2
  <1> QED
    BY <1>4, <1>5

\* Nothing is beyond the last key.
LEMMA LimitLast ==
    ASSUME NEW up \in BOOLEAN, NEW j \in Key
    PROVE  Limit(up) \in Key /\ ~Beyond(up, Limit(up), j)
  <1> DEFINE k == Limit(up)
  <1>1. k \in Key /\ \A l \in Level : k[l] = IF up THEN Base - 1 ELSE 0
    BY SizeAssumption DEF Limit, Key, Digit
  <1> HIDE DEF k
  <1>2. CASE j = k
    BY <1>1, <1>2, BeyondOrder DEF k
  <1>3. CASE j # k
    <2>1. PICK m \in Level : Slot(k, m) = Slot(j, m) /\ k[m] # j[m]
      BY <1>1, <1>3, Parting
    <2>2. Beyond(up, k, j) <=> Past(up, k[m], j[m])
      BY <1>1, <2>1, BeyondAt
    <2>3. j[m] \in Digit
      BY DEF Key
    <2>4. ~Past(up, k[m], j[m])
      BY <1>1, <2>3, SizeAssumption DEF Past, Digit
    <2> QED
      BY <1>1, <2>2, <2>4 DEF k
  <1> QED
    BY <1>1, <1>2, <1>3 DEF k

\* The key after k: the lowest digit that can goes one on, those below come round.
LEMMA StepIs ==
    ASSUME NEW up \in BOOLEAN, NEW k \in Key, k # Limit(up)
    PROVE  /\ Step(up, k) \in Key
           /\ \E p \in Level :
                 LET n == Step(up, k)
                 IN  /\ Slot(n, p) = Slot(k, p) /\ n[p] # k[p] /\ Past(up, k[p], n[p])
                     /\ \A x \in Digit : Past(up, k[p], x) <=> x = n[p] \/ Past(up, n[p], x)
                     /\ \A m \in Level : m < p =>
                           \A x \in Digit : ~Past(up, k[m], x) /\ ~Past(up, x, n[m])
  <1> DEFINE n == Step(up, k)
             last == IF up THEN Base - 1 ELSE 0
             first == IF up THEN 0 ELSE Base - 1
             next(d) == (d + (IF up THEN 1 ELSE Base - 1)) % Base
             C(l) == \A m \in 1..(l - 1) : k[m] = Limit(up)[m]
             P == {l \in Level : k[l] # last}
  <1>1. RootLevel \in Nat /\ Level = 1..RootLevel /\ Base \in Nat /\ Base >= 2
    BY SizeAssumption DEF Level
  <1>2. \A l \in Level : k[l] \in Digit /\ Limit(up)[l] = last
    BY DEF Key, Limit
  <1>3. n = [l \in Level |-> IF C(l) THEN next(k[l]) ELSE k[l]]
    BY DEF Step
  <1> HIDE DEF n, C, next
  <1>4. \A d \in Digit : /\ next(d) \in Digit
                         /\ d = last => next(d) = first
                         /\ d # last => Past(up, d, next(d)) /\ \A x \in Digit : Past(up, d, x) <=> x = next(d) \/ Past(up, next(d), x)
    BY DigitOn DEF next
  <1>5. n \in Key
    <2>1. \A l \in Level : (IF C(l) THEN next(k[l]) ELSE k[l]) \in Digit
      BY <1>2, <1>4
    <2> HIDE DEF last, first
    <2> QED
      BY <1>3, <2>1 DEF Key
  <1>6. P # {}
    <2>1. SUFFICES ASSUME \A l \in Level : k[l] = last PROVE FALSE
      OBVIOUS
    <2>2. \A l \in Level : k[l] = (IF up THEN Base - 1 ELSE 0)
      BY <2>1
    <2>3. k = [l \in Level |-> k[l]]
      BY DEF Key
    <2>4. k = [l \in Level |-> IF up THEN Base - 1 ELSE 0]
      BY <2>2, <2>3
    <2> QED
      BY <2>4 DEF Limit
  <1>7. PICK p \in P : \A m \in P : p <= m
    <2>1. P \in SUBSET Nat
      BY <1>1
    <2> HIDE DEF P
    <2> QED
      BY <1>6, <2>1, Least
  <1>8. p \in Level /\ k[p] # last /\ \A m \in Level : m < p => k[m] = last
    BY <1>1, <1>7
  <1>9. \A l \in Level : C(l) <=> l <= p
    <2> SUFFICES ASSUME NEW l \in Level PROVE C(l) <=> l <= p
      OBVIOUS
    <2>1. \A m \in 1..(l - 1) : m \in Level
      BY <1>1
    <2>2. C(l) <=> \A m \in 1..(l - 1) : k[m] = last
      BY <1>2, <2>1 DEF C
    <2>3. CASE l <= p
      <3>1. \A m \in 1..(l - 1) : m < p
        BY <1>1, <1>8, <2>3
      <3> HIDE DEF last
      <3> QED
        BY <1>8, <2>1, <2>2, <2>3, <3>1
    <2>4. CASE ~(l <= p)
      <3>1. p \in 1..(l - 1)
        BY <1>1, <1>8, <2>4
      <3> HIDE DEF last
      <3> QED
        BY <1>8, <2>2, <2>4, <3>1
    <2> QED
      BY <2>3, <2>4
  <1>10. \A l \in Level : n[l] = IF l <= p THEN next(k[l]) ELSE k[l]
    BY <1>3, <1>9
  <1>11. Slot(n, p) = Slot(k, p)
    <2>1. \A m \in (p + 1)..RootLevel : m \in Level /\ ~(m <= p)
      BY <1>1, <1>8
    <2>2. \A m \in (p + 1)..RootLevel : n[m] = k[m]
      BY <1>10, <2>1
    <2>3. [m \in (p + 1)..RootLevel |-> n[m]] = [m \in (p + 1)..RootLevel |-> k[m]]
      BY <2>2
    <2> QED
      BY <2>3 DEF Slot
  <1>12. n[p] = next(k[p])
    BY <1>1, <1>8, <1>10
  <1>13. /\ Past(up, k[p], n[p])
         /\ \A x \in Digit : Past(up, k[p], x) <=> x = n[p] \/ Past(up, n[p], x)
    BY <1>2, <1>4, <1>8, <1>12
  <1>14. n[p] # k[p]
    BY <1>2, <1>8, <1>13, SizeAssumption DEF Past, Digit
  <1>15. ASSUME NEW m \in Level, m < p, NEW x \in Digit PROVE ~Past(up, k[m], x) /\ ~Past(up, x, n[m])
    <2>1. k[m] = last /\ n[m] = first
      <3>1. k[m] = last /\ n[m] = next(k[m])
        BY <1>1, <1>8, <1>10, <1>15
      <3> HIDE DEF last, first
      <3> QED
        BY <1>2, <1>4, <3>1
    <2> QED
      BY <1>1, <2>1 DEF Past, Digit
  <1> QED
    BY <1>5, <1>8, <1>11, <1>13, <1>14, <1>15 DEF n

\* Between a key and the next one there is none.
LEMMA StepNext ==
    ASSUME NEW up \in BOOLEAN, NEW k \in Key, k # Limit(up), NEW j \in Key
    PROVE  Beyond(up, k, j) <=> j = Step(up, k) \/ Beyond(up, Step(up, k), j)
  <1> DEFINE n == Step(up, k)
  <1>1. n \in Key
    BY StepIs
  <1>2. PICK p \in Level :
            /\ Slot(n, p) = Slot(k, p) /\ n[p] # k[p] /\ Past(up, k[p], n[p])
            /\ \A x \in Digit : Past(up, k[p], x) <=> x = n[p] \/ Past(up, n[p], x)
            /\ \A m \in Level : m < p => \A x \in Digit : ~Past(up, k[m], x) /\ ~Past(up, x, n[m])
    BY StepIs
  <1> HIDE DEF n
  <1>3. Beyond(up, k, n)
    BY <1>1, <1>2, BeyondAt
  <1>4. ASSUME j = n \/ Beyond(up, n, j) PROVE Beyond(up, k, j)
    BY <1>1, <1>3, <1>4, BeyondOrder
  <1>5. ASSUME Beyond(up, k, j), j # n, ~Beyond(up, n, j) PROVE FALSE
    <2>1. Beyond(up, j, n)
      BY <1>1, <1>5, BeyondOrder
    <2>2. ~Beyond(up, j, k) /\ j # k
      BY <1>5, BeyondOrder
    <2>3. PICK m \in Level : Slot(j, m) = Slot(n, m) /\ j[m] # n[m]
      BY <1>1, <1>5, Parting
    <2>4. Past(up, j[m], n[m])
      BY <1>1, <2>1, <2>3, BeyondAt
    <2>5. j[m] \in Digit /\ m \in Int /\ p \in Int
      BY SizeAssumption DEF Key, Level
    <2>6. CASE m < p
      BY <1>2, <2>4, <2>5, <2>6
    <2>7. CASE m > p
      <3>1. Slot(n, m) = Slot(k, m) /\ n[m] = k[m]
        BY <1>1, <1>2, <2>5, <2>7, SlotsAbove
      <3>2. Slot(j, m) = Slot(k, m) /\ j[m] # k[m] /\ Past(up, j[m], k[m])
        BY <2>3, <2>4, <3>1
      <3> QED
        BY <2>2, <3>2, BeyondAt
    <2>8. CASE m = p
      <3>1. Slot(j, p) = Slot(k, p)
        BY <1>2, <2>3, <2>8
      <3>2. CASE j[p] # k[p]
        <4>1. Past(up, k[p], j[p])
          BY <1>5, <3>1, <3>2, BeyondAt
        <4>2. Past(up, n[p], j[p])
          BY <1>2, <2>3, <2>5, <2>8, <4>1
        <4>3. n[p] \in Digit
          BY <1>1 DEF Key
        <4> QED
          BY <2>4, <2>5, <2>8, <4>2, <4>3, SizeAssumption DEF Past, Digit
      <3>3. CASE j[p] = k[p]
        <4>1. PICK i \in Level : Slot(k, i) = Slot(j, i) /\ k[i] # j[i]
          BY <2>2, Parting
        <4>2. i < p
          <5>1. i \in Int
            BY SizeAssumption DEF Level
          <5>2. CASE i > p
            BY <2>5, <3>1, <4>1, <5>1, <5>2, SlotsAbove
          <5> QED
            BY <2>5, <3>3, <4>1, <5>1, <5>2
        <4>3. Past(up, k[i], j[i]) /\ j[i] \in Digit
          BY <1>5, <4>1, BeyondAt DEF Key
        <4> QED
          BY <1>2, <4>2, <4>3
      <3> QED
        BY <3>2, <3>3
    <2> QED
      BY <2>5, <2>6, <2>7, <2>8
  <1> QED
    BY <1>4, <1>5 DEF n

\* Next and Prev come to the nearest key beyond.
LEMMA NeighbourFirst ==
    ASSUME NEW up \in BOOLEAN, NEW t \in [Slots -> JP], Searchable(t), NEW k \in Key
    PROVE  Neighbour(up, t, k) = NearestBeyond(up, {j \in Index : Get(t, j)}, k)
  <1> DEFINE K == {j \in Index : Get(t, j)}
             F == {j \in K : Beyond(up, k, j)}
  <1>1. NearestBeyond(up, K, k) = FirstOf(up, F)
    BY DEF NearestBeyond, FirstOf
  <1>2. \A j \in K : j \in Key
    BY IndexKey
  <1>3. CASE k = Limit(up)
    <2>1. F = {}
      BY <1>2, <1>3, LimitLast
    <2> QED
      BY <1>1, <1>3, <2>1 DEF Neighbour, FirstOf
  <1>4. CASE k # Limit(up)
    <2>1. Step(up, k) \in Key
      BY <1>4, StepIs
    <2>2. F = KeysOnward(up, t, Step(up, k))
      BY <1>2, <1>4, StepNext DEF KeysOnward
    <2>3. Search(up, t, Step(up, k)) = FirstOf(up, KeysOnward(up, t, Step(up, k)))
      BY <2>1, SearchFirst
    <2> HIDE DEF F
    <2> QED
      BY <1>1, <1>4, <2>2, <2>3 DEF Neighbour
  <1> QED
    BY <1>3, <1>4

-----------------------------------------------------------------------------
(* Every branch has a JP *)

\* A tree whose branches were branches with a JP, and where no JP has gone.
LEMMA InhabitedStays ==
    ASSUME NEW t, NEW u, Inhabited(t),
           \A x \in Slots : t[x].type # "NULL" => u[x].type # "NULL",
           \A x \in Slots : u[x].type \in Branch =>
              \/ t[x].type \in Branch
              \/ x[1] > 1 /\ \E d \in Digit : u[Child(x, d)].type # "NULL"
    PROVE  Inhabited(u)
  <1> SUFFICES ASSUME NEW x \in Slots, u[x].type \in Branch
               PROVE  x[1] > 1 /\ \E d \in Digit : u[Child(x, d)].type # "NULL"
    BY DEF Inhabited
  <1>1. CASE t[x].type \in Branch
    <2>1. x[1] > 1
      BY <1>1 DEF Inhabited
    <2>2. PICK d \in Digit : t[Child(x, d)].type # "NULL"
      BY <1>1 DEF Inhabited
    <2>3. Child(x, d) \in Slots
      <3>1. PICK k \in Key : Slot(k, x[1]) = x /\ x[1] \in Level
        BY SlotKey
      <3> QED
        BY <2>1, <3>1, ChildKey
    <2> QED
      BY <2>1, <2>2, <2>3
  <1>2. CASE t[x].type \notin Branch
    BY <1>2
  <1> QED
    BY <1>1, <1>2

\* A JP is replaced, and not by a branch where there was none.
LEMMA InhabitedPut ==
    ASSUME NEW t \in [Slots -> JP], Inhabited(t), NEW s \in Slots, NEW J,
           t[s].type # "NULL" => J.type # "NULL", J.type \in Branch => t[s].type \in Branch
    PROVE  Inhabited([t EXCEPT ![s] = J])
  <1> DEFINE u == [t EXCEPT ![s] = J]
  <1>1. \A x \in Slots : u[x] = IF x = s THEN J ELSE t[x]
    OBVIOUS
  <1> HIDE DEF u
  <1>2. Inhabited(u)
    BY <1>1, InhabitedStays
  <1> QED
    BY <1>2 DEF u

\* The branch of a splay has the parts of the leaf.
LEMMA InhabitedSplay ==
    ASSUME NEW t \in [Slots -> JP], Formed(t), OwnKeys(t), Inhabited(t), NEW j \in Key,
           NEW n \in Level, n > 1, Reaches(t, j, n), t[Slot(j, n)].type = "LEAF"
    PROVE  Inhabited(Splay(t, Slot(j, n)))
  <1> DEFINE s == Slot(j, n)
             Q == t[s].keys
             u == Splay(t, s)
  <1>1. s \in Slots /\ s[1] = n /\ Q \in SUBSET Index
    BY KeySlot DEF JP
  <1>2. Q # {}
    <2>1. Cardinality(Q) \in 1..LEAF_MAXPOP1[n]
      BY <1>1 DEF Formed, Fits
    <2> QED
      BY <2>1, FS_EmptySet
  <1>3. u[s].exp = {k[n] : k \in Q} /\ u[s].type \in Branch
    BY <1>1, <1>2, SplayBranchFits, SplayBranch
  <1>4. Formed(u)
    BY SplayFormed
  <1>5. PICK i \in Q : TRUE
    BY <1>2
  <1>6. i[n] \in Digit /\ i[n] \in u[s].exp
    BY <1>1, <1>3, IndexKey DEF Key
  <1>7. u[Child(s, i[n])].type # "NULL"
    BY <1>1, <1>4, <1>6 DEF Formed, Peopled
  <1>8. ASSUME NEW x \in Slots, x # s
        PROVE  \/ u[x] = t[x]
               \/ u[x].type \notin Branch \cup {"NULL"}
    <2>1. CASE x[1] = s[1] - 1 /\ Share(Q, x) # {}
      <3>1. u[x] = SplayJP(x[1], Share(Q, x))
        BY <1>1, <1>8, <2>1, SplayPart
      <3> QED
        BY <3>1, SplayJPKeys
    <2>2. CASE ~(x[1] = s[1] - 1 /\ Share(Q, x) # {})
      BY <1>1, <1>8, <2>2, SplayRest
    <2> QED
      BY <2>1, <2>2
  <1> HIDE DEF u
  <1>9. \A x \in Slots : t[x].type # "NULL" => u[x].type # "NULL"
    BY <1>3, <1>8 DEF Branch
  <1>10. \A x \in Slots : u[x].type \in Branch =>
              \/ t[x].type \in Branch
              \/ x[1] > 1 /\ \E d \in Digit : u[Child(x, d)].type # "NULL"
    BY <1>1, <1>6, <1>7, <1>8
  <1>11. Inhabited(u)
    BY <1>9, <1>10, InhabitedStays
  <1> QED
    BY <1>11 DEF u

\* The cases of the switch.
LEMMA WalkInhabits ==
    ASSUME TypeOK, KeptInv, Formed(jp), Inhabited(jp), Walk
    PROVE  Inhabited(jp')
  <1>1. /\ pc = "walk" /\ KeysInLeaves(jp) /\ OwnKeys(jp) /\ Reaches(jp, key, level)
        /\ Pjp \in Slots /\ Pjp[1] = level /\ jp \in [Slots -> JP] /\ Here = jp[Pjp]
        /\ Pjp = Slot(key, level) /\ key \in Key /\ level \in Level
    BY HereType, IndexKey DEF Walk, KeptInv, TypeOK, Here, Pjp
  <1>2. CASE Replaced
    <2>1. PICK J : jp' = [jp EXCEPT ![Pjp] = J] /\ Grows(J)
      BY <1>2 DEF Replaced
    <2>2. (Here.type # "NULL" => J.type # "NULL") /\ (J.type \in Branch => Here.type \in Branch)
      BY <2>1 DEF Grows
    <2> QED
      BY <1>1, <2>1, <2>2, InhabitedPut
  <1>3. CASE Added
    <2> DEFINE c == Slot(key, level - 1)
               J == [Here EXCEPT !.exp = @ \cup {digit}]
    <2>1. /\ c \in Slots
          /\ \A s \in Slots :
               jp'[s] = IF s = Pjp THEN J ELSE IF s = c THEN ImmedJP({key}) ELSE jp[s]
          /\ J.type = Here.type
      BY <1>1, <1>3, AddedTree
    <2>2. ImmedJP({key}).type = "IMMED"
      BY DEF ImmedJP, NullJP
    <2> HIDE DEF J, c
    <2>3. \A x \in Slots : /\ jp[x].type # "NULL" => jp'[x].type # "NULL"
                           /\ jp'[x].type \in Branch => jp[x].type \in Branch
      BY <1>1, <2>1, <2>2 DEF Branch
    <2> QED
      BY <2>3, InhabitedStays
  <1>4. CASE Splayed
    BY <1>1, <1>4, InhabitedSplay DEF Splayed
  <1>5. CASE Shifted
    <2> DEFINE L == {k \in Here.keys \cup {key} : Rank(k, Here.keys \cup {key}) < Cardinality(Here.keys)}
               J == [Here EXCEPT !.keys = L]
    <2>1. jp' = [jp EXCEPT ![Pjp] = J]
      BY <1>5 DEF Shifted, ImmedShifted, Here
    <2>2. J.type = Here.type
      BY <1>1 DEF JP
    <2> HIDE DEF J
    <2> QED
      BY <1>1, <2>1, <2>2, InhabitedPut
  <1> QED
    BY <1>1, <1>2, <1>3, <1>4, <1>5, WalkShape

\* The insertions that return without a walk, or start one.
LEMMA InsInhabits ==
    ASSUME TypeOK, KeptInv, FormInv, Inhabited(jp), NEW k \in Index, Ins(k)
    PROVE  Inhabited(jp')
  <1>0. /\ jp \in [Slots -> JP] /\ RootSlot \in Slots /\ Slot(k, RootLevel) = RootSlot
        /\ RootLevel \in Level /\ RootLevel > 1 /\ k \in Key /\ Reaches(jp, k, RootLevel)
    BY RootSlotType, IndexKey, ReachesRoot, SizeAssumption DEF TypeOK, Slot, RootSlot
  <1>1. CASE InsPresent(k) \/ InsTree(k)
    BY <1>1 DEF InsPresent, InsTree, tree
  <1>2. CASE InsEmpty(k)
    <2>1. jp' = jp \/ jp' = [jp EXCEPT ![RootSlot] = LeafJP(RootLevel, {k})]
      BY <1>2 DEF InsEmpty
    <2>2. LeafJP(RootLevel, {k}).type = "LEAF"
      BY DEF LeafJP, NullJP
    <2> QED
      BY <1>0, <2>1, <2>2, InhabitedPut DEF Branch
  <1>3. CASE InsLeaf8(k)
    <2> DEFINE J == [jp[RootSlot] EXCEPT !.keys = @ \cup {k}]
    <2>1. jp' = jp \/ jp' = [jp EXCEPT ![RootSlot] = J]
      BY <1>3 DEF InsLeaf8
    <2>2. J.type = jp[RootSlot].type
      BY <1>0 DEF JP
    <2> HIDE DEF J
    <2> QED
      BY <1>0, <2>1, <2>2, InhabitedPut
  <1>4. CASE InsCascade8(k)
    <2>1. /\ root = "LEAF8"
          /\ UNCHANGED tree \/ (root' = "JPM" /\ jp' = Splay(jp, RootSlot))
      BY <1>4 DEF InsCascade8
    <2>2. jp[RootSlot].type = "LEAF" /\ OwnKeys(jp)
      BY <2>1 DEF KeptInv
    <2>3. Inhabited(Splay(jp, RootSlot))
      BY <1>0, <2>2, InhabitedSplay DEF FormInv
    <2> QED
      BY <2>1, <2>3 DEF tree
  <1> QED
    BY <1>1, <1>2, <1>3, <1>4 DEF Ins

\* An empty tree has no branch.
LEMMA EmptyInhabited == Inhabited(EmptyTree)
  BY DEF Inhabited, EmptyTree, NullJP, Branch

\* Every step.
LEMMA NextInhabits ==
    ASSUME TypeOK, KeptInv, FormInv, Inhabited(jp), [Next]_vars
    PROVE  Inhabited(jp')
  <1>1. ASSUME NEW k \in Index, Del(k) PROVE Inhabited(jp')
    BY <1>1 DEF Del, tree
  <1>2. ASSUME NEW v \in Value, Store(v) PROVE Inhabited(jp')
    BY <1>2 DEF Store, tree
  <1>3. CASE FreeArray
    BY <1>3, EmptyInhabited DEF FreeArray
  <1>4. CASE Walk
    BY <1>4, WalkInhabits DEF FormInv
  <1>5. CASE WalkUp \/ InsDone
    <2> DEFINE J == [jp[Pjp] EXCEPT !.pop = jp[Pjp].pop + 1]
    <2>1. /\ pc = "up" /\ jp \in [Slots -> JP] /\ key \in Index /\ level \in Level
          /\ Pjp \in Slots
      BY <1>5, SlotType DEF TypeOK, WalkUp, InsDone, Pjp
    <2>2. jp' = jp \/ jp' = [jp EXCEPT ![Pjp] = J]
      <3>1. CASE WalkUp
        BY <3>1 DEF WalkUp, Here
      <3>2. CASE InsDone
        BY <3>2 DEF InsDone, tree
      <3> QED
        BY <1>5, <3>1, <3>2
    <2>3. J.type = jp[Pjp].type
      BY <2>1 DEF JP
    <2> HIDE DEF J
    <2> QED
      BY <2>1, <2>2, <2>3, InhabitedPut
  <1>6. CASE UNCHANGED vars
    BY <1>6 DEF vars, tree
  <1> QED
    BY <1>1, <1>2, <1>3, <1>4, <1>5, <1>6, InsInhabits DEF Next

(***************************************************************************)
(* From any key, in the array or not, Next and Prev come to the nearest    *)
(* key beyond it and to no other, or say that there is none: down to where *)
(* the walk leaves the keys (SM1), back up to the first branch with a      *)
(* digit beyond (SM2) and down to the limit of what it has there (SM3).    *)
(* No failure of an allocation keeps this from being so: it needs that no  *)
(* branch is without a JP, which holds in every state, and not the counts. *)
(***************************************************************************)
THEOREM NeighboursTold == Spec => []NeighboursExact
  <1>1. Init => KeptInv /\ FormInv /\ Inhabited(jp)
    BY EmptyFormed, EmptyInhabited
       DEF Init, KeptInv, FormInv, OwnKeys, KeysInLeaves, EmptyTree, NullJP
  <1>2. TypeOK /\ KeptInv /\ FormInv /\ Inhabited(jp) /\ [Next]_vars =>
            KeptInv' /\ FormInv' /\ Inhabited(jp)'
    BY NextKeeps, NextFormed, NextInhabits
  <1>3. TypeOK /\ KeptInv /\ FormInv /\ Inhabited(jp) => NeighboursExact
    <2> SUFFICES ASSUME TypeOK, KeptInv, FormInv, Inhabited(jp), NEW k \in Probe, NEW up \in BOOLEAN
                 PROVE  Neighbour(up, jp, k) = NearestBeyond(up, Content, k)
      BY DEF NeighboursExact
    <2>1. jp \in [Slots -> JP] /\ Searchable(jp) /\ k \in Key
      BY ProbeAssumption DEF TypeOK, KeptInv, FormInv, Searchable
    <2> QED
      BY <2>1, NeighbourFirst DEF Content
  <1> QED
    BY <1>1, <1>2, <1>3, TypeCorrect, PTL DEF Spec

-----------------------------------------------------------------------------
(* What lies beside the path of a key *)

\* The array in the form that a call finds it in: what is counted is there.
Tallied(t) ==
    /\ Searchable(t)
    /\ Counts(t)
    /\ OctantsTold(t)
    /\ \A s \in Slots : t[s].type = "BRANCH_U" =>
          \A g \in Digit : t[s].sums[g] = Cardinality(Group(t, s, g))

\* The keys below slot s with a digit of D.
Part(t, s, D) == {k \in Below(t, s) : k[s[1]] \in D}

\* The population of a JP under a branch is the number of keys with its digit.
LEMMA ChildPop ==
    ASSUME NEW t \in [Slots -> JP], Tallied(t), NEW s \in Slots, t[s].type \in Branch, NEW d \in Digit
    PROVE  /\ JPPop1(t[Child(s, d)]) = Cardinality(Below(t, Child(s, d)))
           /\ \A k : k \in Below(t, Child(s, d)) <=> k \in Below(t, s) /\ k[s[1]] = d
  <1> DEFINE c == Child(s, d)
  <1>0. Searchable(t)
    BY DEF Tallied
  <1>1. c \in Slots /\ (d \in Occupied(t, s) <=> t[c].type # "NULL")
    BY <1>0, OccupiedIs
  <1>2. \A k : k \in Below(t, c) <=> k \in Below(t, s) /\ k[s[1]] = d
    BY <1>0, BelowOccupied, BelowChild
  <1> HIDE DEF c
  <1>3. CASE t[c].type # "NULL"
    BY <1>1, <1>2, <1>3, JPPop1Is DEF Tallied, Searchable, c
  <1>4. CASE t[c].type = "NULL"
    <2>1. t[c].keys = {} /\ t[c].type \notin Branch
      BY <1>0, <1>1, <1>4 DEF Searchable, KeysInLeaves, Branch
    <2>2. JPPop1(t[c]) = Cardinality({})
      BY <1>0, <1>1, <2>1, LeafPop1 DEF Searchable
    <2>3. Below(t, c) = {}
      BY <1>0, <1>1, <1>2, <1>4, BelowOccupied
    <2> QED
      BY <1>2, <2>2, <2>3 DEF c
  <1> QED
    BY <1>3, <1>4

\* The populations of the JPs of some digits are the number of keys with them.
LEMMA PopsIs ==
    ASSUME NEW t \in [Slots -> JP], Tallied(t), NEW s \in Slots, t[s].type \in Branch,
           NEW D \in SUBSET Digit
    PROVE  Pops(t, s, D) = Cardinality(Part(t, s, D))
  <1> DEFINE f == [d \in D |-> JPPop1(t[Child(s, d)])]
             K == [d \in D |-> Below(t, Child(s, d))]
             V == Part(t, s, D)
  <1>1. IsFiniteSet(D)
    BY DigitsFinite
  <1>2. ASSUME NEW d \in D
        PROVE  /\ IsFiniteSet(K[d]) /\ f[d] = Cardinality(K[d])
               /\ \A k : k \in K[d] <=> k \in Below(t, s) /\ k[s[1]] = d
    <2>1. Below(t, Child(s, d)) \in SUBSET Index
      BY DEF Below
    <2>2. IsFiniteSet(Below(t, Child(s, d)))
      BY <2>1, KeysFinite
    <2>3. /\ JPPop1(t[Child(s, d)]) = Cardinality(Below(t, Child(s, d)))
          /\ \A k : k \in Below(t, Child(s, d)) <=> k \in Below(t, s) /\ k[s[1]] = d
      BY ChildPop
    <2> QED
      BY <2>2, <2>3
  <1>3. Pops(t, s, D) = SumFunctionOnSet(f, D)
    BY Zenon DEF Pops, SumFunction
  <1> HIDE DEF f, K
  <1>4. \A v : v \in V <=> \E d \in D : v \in K[d]
    BY <1>2 DEF Part
  <1>5. \A x, y \in D : x # y => K[x] \cap K[y] = {}
    BY <1>2
  <1> HIDE DEF V
  <1>6. SumFunctionOnSet(f, D) = Cardinality(V)
    <2>1. \A x \in D : IsFiniteSet(K[x]) /\ f[x] = Cardinality(K[x])
      BY <1>2
    <2> QED
      BY <1>1, <1>4, <1>5, <2>1, SumSizes
  <1> QED
    BY <1>3, <1>6 DEF V

\* Keys of one set and of another, apart, are counted together.
LEMMA CountApart ==
    ASSUME NEW A \in SUBSET Index, NEW B \in SUBSET Index, NEW C, A \cap B = {},
           \A k : k \in C <=> k \in A \/ k \in B
    PROVE  /\ Cardinality(A) \in Nat /\ Cardinality(B) \in Nat /\ Cardinality(C) \in Nat
           /\ Cardinality(C) = Cardinality(A) + Cardinality(B)
  <1>1. IsFiniteSet(A) /\ IsFiniteSet(B) /\ Cardinality(A) \in Nat /\ Cardinality(B) \in Nat
    BY KeysFinite
  <1>2. C = A \cup B
    OBVIOUS
  <1>3. Cardinality(A \cap B) = 0
    BY FS_EmptySet
  <1>4. Cardinality(A \cup B) = Cardinality(A) + Cardinality(B) - Cardinality(A \cap B)
    BY <1>1, FS_Union
  <1> QED
    BY <1>1, <1>2, <1>3, <1>4

\* The groups of a BranchU below one are the keys with a digit of theirs.
LEMMA SumBeforeIs ==
    ASSUME NEW t \in [Slots -> JP], Tallied(t), NEW s \in Slots, t[s].type = "BRANCH_U",
           NEW d \in Digit
    PROVE  SumBefore(t[s].sums, d \div GROUP8) =
              Cardinality({k \in Below(t, s) : k[s[1]] \div GROUP8 < d \div GROUP8})
  <1> DEFINE g == d \div GROUP8
             S == 0..(g - 1)
             f == t[s].sums
             K == [x \in S |-> Group(t, s, x)]
             V == {k \in Below(t, s) : k[s[1]] \div GROUP8 < g}
  <1>0. GROUP8 \in Nat \ {0} /\ d \in Nat /\ Searchable(t) /\ t[s].type \in Branch
    BY MaxAssumption, SizeAssumption DEF Digit, Tallied, Branch
  <1>1. g \in Nat /\ g <= d
    <2>1. d \div GROUP8 \in Nat /\ d \div GROUP8 <= d
      BY <1>0
    <2> QED
      BY <2>1
  <1> HIDE DEF g
  <1>2. IsFiniteSet(S) /\ S \subseteq Digit /\ \A x \in Int : x \in S <=> 0 <= x /\ x < g
    BY <1>0, <1>1, FS_Interval, SizeAssumption DEF Digit
  <1>3. ASSUME NEW x \in S
        PROVE IsFiniteSet(K[x]) /\ f[x] = Cardinality(K[x])
    <2>1. Group(t, s, x) \in SUBSET Index
      BY DEF Group, Below
    <2>2. IsFiniteSet(Group(t, s, x))
      BY <2>1, KeysFinite
    <2>3. f[x] = Cardinality(Group(t, s, x))
      BY <1>2 DEF Tallied
    <2> QED
      BY <2>2, <2>3
  <1>4. \A k \in Below(t, s) : k[s[1]] \div GROUP8 \in Nat
    <2> TAKE k \in Below(t, s)
    <2>1. k[s[1]] \in Nat
      BY <1>0, BelowOccupied, SizeAssumption DEF Digit
    <2> QED
      BY <1>0, <2>1, Quotient
  <1>5. \A x \in S : \A k : k \in K[x] <=> k \in Below(t, s) /\ k[s[1]] \div GROUP8 = x
    BY DEF Group
  <1> HIDE DEF K, f
  <1>6. \A v : v \in V <=> \E x \in S : v \in K[x]
    <2> HIDE DEF S
    <2> QED
      BY <1>1, <1>2, <1>4, <1>5
  <1>7. \A x, y \in S : x # y => K[x] \cap K[y] = {}
    BY <1>5
  <1> HIDE DEF V
  <1>8. SumFunctionOnSet(f, S) = Cardinality(V)
    <2> HIDE DEF S
    <2> QED
      BY <1>2, <1>3, <1>6, <1>7, SumSizes
  <1> QED
    BY <1>8 DEF SumBefore, V, f, g

\* The keys of a branch above a digit, as each kind of branch tells them.
LEMMA AboveIs ==
    ASSUME NEW t \in [Slots -> JP], Tallied(t), NEW s \in Slots, t[s].type \in Branch, NEW d \in Digit
    PROVE  LET n == Cardinality({k \in Below(t, s) : k[s[1]] > d})
           IN  /\ t[s].type = "BRANCH_L" => Pops(t, s, {e \in t[s].exp : e > d}) = n
               /\ t[s].type = "BRANCH_B" => AboveInB(t, s, d) = n
               /\ t[s].type = "BRANCH_U" => AboveInU(t, s, d) = n
  <1> DEFINE X == Below(t, s)
             l == s[1]
             U == {k \in X : k[l] > d}
             L == {k \in X : k[l] <= d}
  <1>0. GROUP8 \in Nat \ {0} /\ d \in Nat /\ Searchable(t)
    BY MaxAssumption, SizeAssumption DEF Digit, Tallied
  <1>1. X \in SUBSET Index /\ U \in SUBSET Index /\ L \in SUBSET Index
    BY DEF Below
  <1>2. \A k \in X : k[l] \in Digit /\ k[l] \in Nat /\ k[l] \in Occupied(t, s)
    BY <1>0, BelowOccupied, SizeAssumption DEF Digit
  <1>3. /\ Cardinality(X) = Cardinality(U) + Cardinality(L)
        /\ Cardinality(U) \in Nat /\ Cardinality(L) \in Nat
    <2>1. U \cap L = {} /\ \A k : k \in X <=> k \in U \/ k \in L
      BY <1>0, <1>2
    <2> HIDE DEF X, U, L
    <2> QED
      BY <1>1, <2>1, CountApart
  <1>4. t[s].pop + 1 = Cardinality(X) /\ t[s].pop \in Nat
    BY DEF Tallied, Counts, JP
  <1>5. t[s].type # "BRANCH_U" =>
           /\ Pops(t, s, {e \in t[s].exp : e > d}) = Cardinality(U)
           /\ Pops(t, s, {e \in t[s].exp : e <= d}) = Cardinality(L)
    <2> SUFFICES ASSUME t[s].type # "BRANCH_U"
                 PROVE  /\ Pops(t, s, {e \in t[s].exp : e > d}) = Cardinality(U)
                        /\ Pops(t, s, {e \in t[s].exp : e <= d}) = Cardinality(L)
      OBVIOUS
    <2>1. Occupied(t, s) = t[s].exp /\ t[s].exp \in SUBSET Digit
      BY DEF Occupied, JP
    <2>2. Part(t, s, {e \in t[s].exp : e > d}) = U
      BY <1>2, <2>1 DEF Part
    <2>3. Part(t, s, {e \in t[s].exp : e <= d}) = L
      BY <1>2, <2>1 DEF Part
    <2> HIDE DEF U, L
    <2>4. /\ {e \in t[s].exp : e > d} \in SUBSET Digit
          /\ {e \in t[s].exp : e <= d} \in SUBSET Digit
      BY <2>1
    <2> QED
      BY <2>2, <2>3, <2>4, PopsIs
  <1>6. CASE t[s].type = "BRANCH_L"
    BY <1>5, <1>6
  <1>7. CASE t[s].type = "BRANCH_B"
    <2> HIDE DEF X, U, L
    <2>1. AboveInB(t, s, d) = IF CountsUpward(t[s].exp, d)
                THEN t[s].pop + 1 - Pops(t, s, {e \in t[s].exp : e <= d})
                ELSE Pops(t, s, {e \in t[s].exp : e > d})
      BY DEF AboveInB
    <2>2. AboveInB(t, s, d) = Cardinality(U)
      <3> HIDE DEF l
      <3>1. CASE CountsUpward(t[s].exp, d)
        BY <1>3, <1>4, <1>5, <1>7, <2>1, <3>1
      <3>2. CASE ~CountsUpward(t[s].exp, d)
        BY <1>3, <1>4, <1>5, <1>7, <2>1, <3>2
      <3> QED
        BY <3>1, <3>2
    <2> QED
      BY <1>7, <2>2 DEF U, X
  <1>8. CASE t[s].type = "BRANCH_U"
    <2> DEFINE g == d \div GROUP8
               D == (g * GROUP8)..d
               A == {k \in X : k[l] \div GROUP8 < g}
               B == Part(t, s, D)
    <2>1. \A x \in Nat : /\ x \div GROUP8 < g => x <= d /\ x \notin D
                         /\ x <= d /\ ~(x \div GROUP8 < g) => x \in D
                         /\ x \in D => x <= d
                         /\ g \in Nat /\ g * GROUP8 \in Nat
      <3> TAKE x \in Nat
      <3> DEFINE y == x \div GROUP8
                 p == x % GROUP8
                 r == d % GROUP8
      <3>1. /\ g \in Nat /\ r \in 0..(GROUP8 - 1) /\ d = GROUP8 * g + r
            /\ y \in Nat /\ p \in 0..(GROUP8 - 1) /\ x = GROUP8 * y + p
        BY <1>0, Quotient
      <3> HIDE DEF g, y, p, r
      <3>2. ASSUME y < g PROVE x < g * GROUP8
        <4> DEFINE e == g - y - 1
        <4>1. e \in Nat /\ g = y + 1 + e
          BY <3>1, <3>2
        <4> HIDE DEF e
        <4>2. GROUP8 * g = GROUP8 * y + GROUP8 + GROUP8 * e /\ GROUP8 * e \in Nat
          BY <1>0, <3>1, <4>1
        <4> QED
          BY <1>0, <3>1, <4>2
      <3>3. ASSUME g <= y PROVE x >= g * GROUP8
        <4> DEFINE e == y - g
        <4>1. e \in Nat /\ y = g + e
          BY <3>1, <3>3
        <4> HIDE DEF e
        <4>2. GROUP8 * y = GROUP8 * g + GROUP8 * e /\ GROUP8 * e \in Nat
          BY <1>0, <3>1, <4>1
        <4> QED
          BY <1>0, <3>1, <4>2
      <3>4. g * GROUP8 \in Nat /\ g * GROUP8 <= d
        BY <1>0, <3>1
      <3> QED
        BY <1>0, <3>1, <3>2, <3>3, <3>4 DEF y
    <2>2. D \in SUBSET Digit
      <3>1. g * GROUP8 \in Nat
        BY <1>0, <2>1
      <3> QED
        BY <1>0, <3>1, SizeAssumption DEF Digit
    <2>3. A \in SUBSET Index /\ B \in SUBSET Index /\ A \cap B = {} /\ \A k : k \in L <=> k \in A \/ k \in B
      <3>1. A \in SUBSET Index /\ B \in SUBSET Index
        BY <1>1 DEF Part
      <3>2. \A k \in X : /\ k[l] \div GROUP8 < g => k[l] <= d /\ k[l] \notin D
                         /\ k[l] <= d /\ ~(k[l] \div GROUP8 < g) => k[l] \in D
                         /\ k[l] \in D => k[l] <= d
        <4> HIDE DEF X, g, D
        <4> QED
          BY <1>2, <2>1
      <3>3. \A k : k \in B <=> k \in X /\ k[l] \in D
        BY DEF Part
      <3> HIDE DEF g, D, B, X
      <3> QED
        BY <3>1, <3>2, <3>3
    <2>4. Cardinality(L) = Cardinality(A) + Cardinality(B) /\ Cardinality(A) \in Nat /\ Cardinality(B) \in Nat
      <3> HIDE DEF L, A, B
      <3> QED
        BY <2>3, CountApart
    <2>5. Pops(t, s, D) = Cardinality(B)
      BY <2>2, PopsIs
    <2>6. SumBefore(t[s].sums, g) = Cardinality(A)
      BY <1>8, SumBeforeIs
    <2>7. AboveInU(t, s, d) = t[s].pop + 1 - SumBefore(t[s].sums, g) - Pops(t, s, D)
      BY DEF AboveInU
    <2> HIDE DEF A, B, D, g, L, X, U, l
    <2>8. AboveInU(t, s, d) = Cardinality(U)
      BY <1>3, <1>4, <2>4, <2>5, <2>6, <2>7
    <2> QED
      BY <1>8, <2>8 DEF U, X, l
  <1> QED
    BY <1>6, <1>7, <1>8 DEF Branch

-----------------------------------------------------------------------------
(* JudyLCount *)

\* The keys of K from k on.
From(K, k) == {j \in K : ~Less(j, k)}

\* The keys of K are those before k and those from k on.
LEMMA RankRest ==
    ASSUME NEW K \in SUBSET Index, NEW k
    PROVE  /\ Cardinality(K) \in Nat /\ Rank(k, K) \in Nat /\ Cardinality(From(K, k)) \in Nat
           /\ Cardinality(From(K, k)) = Cardinality(K) - Rank(k, K)
  <1> DEFINE A == {j \in K : Less(j, k)}
             B == From(K, k)
  <1>1. A \in SUBSET Index /\ B \in SUBSET Index /\ A \cap B = {} /\ \A j : j \in K <=> j \in A \/ j \in B
    BY DEF From
  <1>2. Rank(k, K) = Cardinality(A)
    BY DEF Rank
  <1> HIDE DEF A, B
  <1>3. /\ Cardinality(A) \in Nat /\ Cardinality(B) \in Nat /\ Cardinality(K) \in Nat
        /\ Cardinality(K) = Cardinality(A) + Cardinality(B)
    BY <1>1, CountApart
  <1> QED
    BY <1>2, <1>3 DEF B

\* From a key on is that key and those beyond it.
LEMMA FromIs ==
    ASSUME NEW a \in Key, NEW b \in Key
    PROVE  ~Less(b, a) <=> b = a \/ Beyond(TRUE, a, b)
  <1>1. /\ ~Beyond(TRUE, a, a)
        /\ a # b => Beyond(TRUE, a, b) \/ Beyond(TRUE, b, a)
        /\ ~(Beyond(TRUE, a, b) /\ Beyond(TRUE, b, a))
    BY BeyondOrder
  <1> QED
    BY <1>1 DEF Beyond

\* In one expanse of level 1 the last digits tell the order.
LEMMA BottomOrder ==
    ASSUME NEW a \in Key, NEW b \in Key, Slot(a, 1) = Slot(b, 1)
    PROVE  a[1] \in Nat /\ b[1] \in Nat /\ (Less(b, a) <=> b[1] < a[1])
  <1>1. 1 \in Level /\ a[1] \in Nat /\ b[1] \in Nat
    BY SizeAssumption DEF Level, Key, Digit
  <1>2. CASE a[1] = b[1]
    <2>1. a = b
      BY <1>2, SlotsBottom
    <2>2. ~Less(a, a)
      BY LessOneWay
    <2> QED
      BY <1>1, <2>1, <2>2
  <1>3. CASE a[1] # b[1]
    <2>1. Beyond(FALSE, a, b) <=> Past(FALSE, a[1], b[1])
      BY <1>1, <1>3, BeyondAt
    <2> QED
      BY <1>1, <2>1 DEF Beyond, Past
  <1> QED
    BY <1>2, <1>3

\* The words of a bitmap before that of a key, and the bits before it in its own.
LEMMA B1URank ==
    ASSUME NEW K \in SUBSET Index, NEW k \in K, \A j \in K : Slot(j, 1) = Slot(k, 1)
    PROVE  LET word(e) == {j \in K : j[1] \div SUBEXP_L = e}
               own == k[1] \div SUBEXP_L
           IN  Rank(k, K) = Rank(k, word(own)) +
                   SumFunctionOnSet([e \in 0..(own - 1) |-> Cardinality(word(e))], 0..(own - 1))
  <1> DEFINE word(e) == {j \in K : j[1] \div SUBEXP_L = e}
             own == k[1] \div SUBEXP_L
             S == 0..(own - 1)
             W == [e \in S |-> word(e)]
             f == [e \in S |-> Cardinality(word(e))]
             L == {j \in K : Less(j, k)}
             A == {j \in K : j[1] \div SUBEXP_L < own}
             B == {j \in word(own) : Less(j, k)}
  <1>0. SUBEXP_L \in Nat \ {0} /\ k \in Key
    BY SubExpAssumption, IndexKey
  <1>1. \A j \in K : /\ j \in Key /\ j[1] \in Nat /\ j[1] \div SUBEXP_L \in Nat
                     /\ Less(j, k) <=> j[1] < k[1]
                     /\ j[1] \div SUBEXP_L < own => j[1] < k[1]
                     /\ j[1] < k[1] => j[1] \div SUBEXP_L = own \/ j[1] \div SUBEXP_L < own
    <2> TAKE j \in K
    <2>1. j \in Key /\ Slot(k, 1) = Slot(j, 1)
      BY IndexKey
    <2>2. j[1] \in Nat /\ k[1] \in Nat /\ (Less(j, k) <=> j[1] < k[1])
      BY <1>0, <2>1, BottomOrder
    <2>3. /\ k[1] \div SUBEXP_L \in Nat /\ j[1] \div SUBEXP_L \in Nat
          /\ Past(FALSE, k[1] \div SUBEXP_L, j[1] \div SUBEXP_L) => Past(FALSE, k[1], j[1])
          /\ Past(FALSE, k[1], j[1]) => k[1] \div SUBEXP_L = j[1] \div SUBEXP_L
                                         \/ Past(FALSE, k[1] \div SUBEXP_L, j[1] \div SUBEXP_L)
      BY <1>0, <2>2, PartsPast
    <2> QED
      BY <2>1, <2>2, <2>3 DEF Past
  <1>2. own \in Nat /\ IsFiniteSet(S) /\ \A x : x \in S <=> x \in Nat /\ x < own
    <2>1. own \in Nat
      BY <1>1
    <2> HIDE DEF own
    <2> QED
      BY <2>1, FS_Interval
  <1> HIDE DEF own
  <1>3. /\ A \in SUBSET Index /\ B \in SUBSET Index /\ A \cap B = {}
        /\ \A j : j \in L <=> j \in A \/ j \in B
    BY <1>1, <1>2
  <1>4. Cardinality(L) = Cardinality(A) + Cardinality(B) /\ Cardinality(A) \in Nat /\ Cardinality(B) \in Nat
    <2> HIDE DEF L, A, B
    <2> QED
      BY <1>3, CountApart
  <1>5. \A x \in S : IsFiniteSet(W[x]) /\ f[x] = Cardinality(W[x])
    <2> TAKE x \in S
    <2>1. word(x) \in SUBSET Index
      OBVIOUS
    <2>2. IsFiniteSet(word(x))
      BY <2>1, KeysFinite
    <2> QED
      BY <2>2
  <1>6. \A x \in S : \A j : j \in W[x] <=> j \in K /\ j[1] \div SUBEXP_L = x
    OBVIOUS
  <1> HIDE DEF W, f
  <1>7. \A v : v \in A <=> \E x \in S : v \in W[x]
    <2> HIDE DEF S
    <2> QED
      BY <1>1, <1>2, <1>6
  <1>8. \A x, y \in S : x # y => W[x] \cap W[y] = {}
    BY <1>6
  <1> HIDE DEF A
  <1>9. SumFunctionOnSet(f, S) = Cardinality(A)
    <2> HIDE DEF S
    <2> QED
      BY <1>2, <1>5, <1>7, <1>8, SumSizes
  <1>10. Rank(k, K) = Cardinality(L) /\ Rank(k, word(own)) = Cardinality(B)
    BY DEF Rank
  <1> HIDE DEF L, B, word, S
  <1>11. Rank(k, K) = Rank(k, word(own)) + SumFunctionOnSet(f, S)
    BY <1>4, <1>9, <1>10
  <1> QED
    BY <1>11 DEF f, S, own, word

\* Of a full expanse, the digits from that of a key on.
LEMMA FullFrom ==
    ASSUME NEW K \in SUBSET Index, NEW k \in K, \A j \in K : Slot(j, 1) = Slot(k, 1),
           Cardinality(K) = Base
    PROVE  Cardinality(From(K, k)) = Base - k[1]
  <1> DEFINE D == k[1]..(Base - 1)
             f == [j \in From(K, k) |-> j[1]]
  <1>0. k \in Key /\ Base \in Nat /\ k[1] \in Digit /\ k[1] \in Nat
    BY IndexKey, SizeAssumption DEF Key, Digit, Level
  <1>1. \A j \in K : j \in Key /\ j[1] \in Digit /\ (Less(j, k) <=> j[1] < k[1])
    <2> TAKE j \in K
    <2>1. j \in Key /\ Slot(k, 1) = Slot(j, 1)
      BY IndexKey
    <2>2. j[1] \in Digit
      BY <2>1, SizeAssumption DEF Key, Level
    <2> QED
      BY <1>0, <2>1, <2>2, BottomOrder
  <1>2. \A d \in D : \E j \in From(K, k) : f[j] = d
    <2> SUFFICES ASSUME NEW d \in D PROVE \E j \in From(K, k) : f[j] = d
      OBVIOUS
    <2>1. d \in Digit /\ d >= k[1] /\ d \in Nat
      BY <1>0 DEF Digit
    <2>2. PICK j \in K : j[1] = d
      BY <2>1, FullExpanse
    <2>3. j \in From(K, k)
      BY <1>0, <1>1, <2>1, <2>2 DEF From
    <2> QED
      BY <2>2, <2>3
  <1>3. f \in [From(K, k) -> D]
    BY <1>0, <1>1 DEF From, Digit
  <1>4. \A i, j \in From(K, k) : f[i] = f[j] => i = j
    BY <1>1, SlotsBottom DEF From
  <1>5. f \in Bijection(From(K, k), D)
    BY <1>2, <1>3, <1>4 DEF Bijection, Injection, IsInjective, Surjection
  <1>6. IsFiniteSet(From(K, k))
    <2>1. From(K, k) \in SUBSET Index
      BY DEF From
    <2> QED
      BY <2>1, KeysFinite
  <1>7. Cardinality(D) = Cardinality(From(K, k))
    <2> HIDE DEF D
    <2> QED
      BY <1>5, <1>6, FS_Bijection DEF ExistsBijection
  <1>8. Cardinality(D) = Base - k[1]
    BY <1>0, FS_Interval DEF Digit
  <1> QED
    BY <1>7, <1>8

\* At the end of the walk to a key that is there, the keys from it on.
LEMMA EndFrom ==
    ASSUME NEW t \in [Slots -> JP], Tallied(t), NEW l \in Level, NEW k \in Index,
           t[Slot(k, l)].type \notin Branch, k \in t[Slot(k, l)].keys
    PROVE  LET J == t[Slot(k, l)]
               n == Cardinality(From(J.keys, k))
           IN  /\ J.type # "NULL"
               /\ J.type = "LEAF" => LeafFrom(J, k) = n
               /\ J.type = "LEAF_B1U" => LeafB1UFrom(J, k) = n
               /\ J.type = "FULLPOPU1" => FullPopFrom(k) = n
               /\ J.type = "IMMED" => ImmedFrom(J, k) = n
  <1> DEFINE s == Slot(k, l)
             J == t[s]
             K == J.keys
             n == Cardinality(From(K, k))
  <1>0. k \in Key /\ s \in Slots /\ s[1] = l /\ K \in SUBSET Index /\ Searchable(t)
    BY IndexKey, KeySlot DEF Tallied, JP
  <1>1. J.type # "NULL" /\ JPPop1(J) = Cardinality(K) /\ Fits(l, J)
    BY <1>0, LeafPop1 DEF Searchable, KeysInLeaves, Formed
  <1>2. \A j \in K : Slot(j, l) = s
    BY <1>0 DEF Searchable, OwnKeys
  <1> HIDE DEF s, J
  <1>3. n = JPPop1(J) - Rank(k, K)
    BY <1>0, <1>1, RankRest
  <1>4. LeafFrom(J, k) = n
    BY <1>3 DEF LeafFrom
  <1>5. ASSUME J.type = "LEAF_B1U" PROVE LeafB1UFrom(J, k) = n
    <2> DEFINE word(e) == {j \in K : j[1] \div SUBEXP_L = e}
               own == k[1] \div SUBEXP_L
               f == [e \in 0..(own - 1) |-> Cardinality(word(e))]
    <2>1. \A j \in K : Slot(j, 1) = Slot(k, 1)
      BY <1>1, <1>2, <1>5 DEF Fits, s
    <2>2. Rank(k, K) = Rank(k, word(own)) + SumFunctionOnSet(f, 0..(own - 1))
      BY <1>0, <2>1, B1URank DEF J, s
    <2>3. LeafB1UFrom(J, k) = JPPop1(J) - Rank(k, word(own)) - SumFunctionOnSet(f, 0..(own - 1))
      BY DEF LeafB1UFrom, SumFunction
    <2>4. SumFunctionOnSet(f, 0..(own - 1)) \in Int /\ Rank(k, word(own)) \in Nat
      <3>1. word(own) \in SUBSET Index
        BY <1>0
      <3>2. Rank(k, word(own)) \in Nat
        <4> HIDE DEF word, own
        <4> QED
          BY <3>1, RankRest
      <3>3. own \in Int
        BY <1>0, SizeAssumption, SubExpAssumption DEF Key, Digit, Level
      <3>4. \A e \in 0..(own - 1) : f[e] \in Nat
        <4> TAKE e \in 0..(own - 1)
        <4>1. word(e) \in SUBSET Index
          BY <1>0
        <4>2. Cardinality(word(e)) \in Nat
          BY <4>1, KeysFinite
        <4> QED
          BY <4>2
      <3>5. IsFiniteSet(0..(own - 1))
        <4> HIDE DEF own
        <4> QED
          BY <3>3, FS_Interval
      <3> HIDE DEF f, own
      <3>6. SumFunctionOnSet(f, 0..(own - 1)) \in Nat
        BY <3>4, <3>5, SumType
      <3> QED
        BY <3>2, <3>6
    <2>5. JPPop1(J) \in Nat /\ Rank(k, K) \in Nat
      BY <1>0, <1>1, RankRest
    <2> HIDE DEF word, own, f, n
    <2> QED
      BY <1>3, <2>2, <2>3, <2>4, <2>5
  <1>6. ASSUME J.type = "FULLPOPU1" PROVE FullPopFrom(k) = n
    <2>1. l = 1 /\ Cardinality(K) = Base
      BY <1>1, <1>6 DEF Fits
    <2>2. k \in K /\ \A j \in K : Slot(j, 1) = Slot(k, 1)
      BY <1>2, <2>1 DEF s, J
    <2> QED
      BY <1>0, <2>1, <2>2, FullFrom DEF FullPopFrom
  <1>7. ImmedFrom(J, k) = n
    <2>1. CASE Cardinality(K) = 1
      <3>1. PICK x : K = {x}
        BY <1>0, <2>1, KeysFinite, FS_Singleton
      <3>2. k \in K
        BY DEF J, s
      <3>3. From(K, k) = {k}
        BY <1>0, <3>1, <3>2, LessOneWay DEF From
      <3> QED
        BY <2>1, <3>3, FS_Singleton DEF ImmedFrom
    <2>2. CASE Cardinality(K) # 1
      BY <1>3, <2>2 DEF ImmedFrom
    <2> QED
      BY <2>1, <2>2
  <1> QED
    BY <1>1, <1>4, <1>5, <1>6, <1>7 DEF J, s

\* In a branch, the keys with a digit above its own and those from it on with its digit.
LEMMA BranchFrom ==
    ASSUME NEW t \in [Slots -> JP], Tallied(t), NEW l \in Level, NEW k \in Index,
           t[Slot(k, l)].type \in Branch
    PROVE  /\ l > 1 /\ l - 1 \in Level /\ Slot(k, l - 1) = Child(Slot(k, l), k[l])
           /\ Cardinality({j \in Below(t, Slot(k, l)) : j[l] > k[l]}) \in Nat
           /\ Cardinality(From(Below(t, Slot(k, l - 1)), k)) \in Nat
           /\ Cardinality(From(Below(t, Slot(k, l)), k)) =
                 Cardinality({j \in Below(t, Slot(k, l)) : j[l] > k[l]})
                 + Cardinality(From(Below(t, Slot(k, l - 1)), k))
  <1> DEFINE s == Slot(k, l)
             X == Below(t, s)
             U == {j \in X : j[l] > k[l]}
             B == From(Below(t, Slot(k, l - 1)), k)
             C == From(X, k)
  <1>0. k \in Key /\ s \in Slots /\ s[1] = l /\ k[l] \in Digit /\ Searchable(t)
    BY IndexKey, KeySlot DEF Tallied
  <1>1. l > 1 /\ l - 1 \in Level
    BY <1>0, OccupiedIs, SizeAssumption DEF Level
  <1>2. Slot(k, l - 1) = Child(s, k[l])
    BY <1>0, <1>1, ChildOf
  <1>3. \A j : j \in Below(t, Slot(k, l - 1)) <=> j \in X /\ j[l] = k[l]
    BY <1>0, <1>2, ChildPop
  <1>4. \A j \in X : j \in Index /\ j \in Key /\ j[l] \in Nat /\ k[l] \in Nat
                     /\ (j[l] # k[l] => (Less(j, k) <=> j[l] < k[l]))
    <2> SUFFICES ASSUME NEW j \in X
                 PROVE  /\ j \in Index /\ j \in Key /\ j[l] \in Nat /\ k[l] \in Nat
                        /\ j[l] # k[l] => (Less(j, k) <=> j[l] < k[l])
      OBVIOUS
    <2>1. j \in Index /\ j \in Key /\ Slot(j, l) = s /\ j[l] \in Digit
      BY <1>0, BelowOccupied
    <2>2. j[l] # k[l] => (Beyond(FALSE, k, j) <=> Past(FALSE, k[l], j[l]))
      BY <1>0, <2>1, BeyondAt
    <2> QED
      BY <1>0, <2>1, <2>2, SizeAssumption DEF Beyond, Past, Digit
  <1> HIDE DEF X, s
  <1>5. /\ U \in SUBSET Index /\ B \in SUBSET Index /\ U \cap B = {}
        /\ \A j : j \in C <=> j \in U \/ j \in B
    BY <1>3, <1>4 DEF From
  <1> HIDE DEF U, B, C
  <1>6. Cardinality(U) \in Nat /\ Cardinality(B) \in Nat /\ Cardinality(C) = Cardinality(U) + Cardinality(B)
    BY <1>5, CountApart
  <1> QED
    BY <1>1, <1>2, <1>6 DEF U, B, C, X, s

\* The count of the keys from one that is there.
LEMMA CountSMIs ==
    ASSUME NEW t \in [Slots -> JP], Tallied(t), NEW k \in Index, Get(t, k)
    PROVE  CountSM(t, k) = Cardinality(From({j \in Index : Get(t, j)}, k))
  <1> DEFINE s(l) == Slot(k, l)
             Body(h, l) ==
                  CASE t[s(l)].type = "BRANCH_L" ->
                         Pops(t, s(l), {e \in t[s(l)].exp : e > k[l]}) + h[l - 1]
                    [] t[s(l)].type = "BRANCH_B" -> AboveInB(t, s(l), k[l]) + h[l - 1]
                    [] t[s(l)].type = "BRANCH_U" -> AboveInU(t, s(l), k[l]) + h[l - 1]
                    [] t[s(l)].type = "LEAF" -> LeafFrom(t[s(l)], k)
                    [] t[s(l)].type = "LEAF_B1U" -> LeafB1UFrom(t[s(l)], k)
                    [] t[s(l)].type = "FULLPOPU1" -> FullPopFrom(k)
                    [] t[s(l)].type = "IMMED" -> ImmedFrom(t[s(l)], k)
                    [] OTHER -> 0
             Iter(h) == h = [l \in Level |-> Body(h, l)]
             SM == CHOOSE h : Iter(h)
             N(l) == Cardinality(From(Below(t, s(l)), k))
  <1>0. k \in Key /\ Searchable(t) /\ RootLevel \in Level /\ Level = 1..RootLevel /\ RootLevel \in Nat
    BY IndexKey, SizeAssumption DEF Tallied, Level
  <1>1. PICK p \in Level : Reaches(t, k, p) /\ k \in t[s(p)].keys
    BY DEF Get
  <1>2. t[s(p)].type \notin Branch /\ t[s(p)].type # "NULL" /\ s(p) \in Slots
    BY <1>0, <1>1, KeySlot DEF Searchable, KeysInLeaves, Branch
  <1>3. ASSUME NEW l \in Level, l > p PROVE t[s(l)].type \in Branch
    <2>1. Enters(t[s(l)], k[l])
      BY <1>1, <1>3, ReachesAbove
    <2> QED
      BY <2>1 DEF Enters, EntersL, EntersB, EntersU, Branch
  <1>4. ASSUME NEW l \in Level, l < p PROVE t[s(l)].type = "NULL"
    <2> SUFFICES ASSUME t[s(l)].type # "NULL" PROVE FALSE
      OBVIOUS
    <2>1. s(l) \in Slots /\ s(l)[1] = l
      BY <1>0, KeySlot
    <2>2. Reaches(t, k, l)
      BY <1>0, <2>1 DEF Searchable, Formed, Rooted
    <2>3. Enters(t[s(p)], k[p])
      BY <1>1, <1>4, <2>2, ReachesAbove
    <2> QED
      BY <1>2, <2>3 DEF Enters, EntersL, EntersB, EntersU, Branch
  <1>5. N(p) = Cardinality(From(t[s(p)].keys, k))
    BY <1>0, <1>1, <1>2, OwnBelow DEF Searchable
  <1>6. ASSUME NEW h PROVE Body(h, p) = N(p)
    <2>1. /\ t[s(p)].type = "LEAF" => LeafFrom(t[s(p)], k) = N(p)
          /\ t[s(p)].type = "LEAF_B1U" => LeafB1UFrom(t[s(p)], k) = N(p)
          /\ t[s(p)].type = "FULLPOPU1" => FullPopFrom(k) = N(p)
          /\ t[s(p)].type = "IMMED" => ImmedFrom(t[s(p)], k) = N(p)
      BY <1>1, <1>2, <1>5, EndFrom
    <2>2. t[s(p)].type \in {"LEAF", "LEAF_B1U", "FULLPOPU1", "IMMED"}
      BY <1>2 DEF JP, JPType, Branch
    <2> HIDE DEF s, N
    <2> QED
      BY <2>1, <2>2
  <1>7. ASSUME NEW h, NEW l \in Level, l > p, h[l - 1] = N(l - 1) PROVE Body(h, l) = N(l)
    <2>1. s(l) \in Slots /\ k[l] \in Digit /\ s(l)[1] = l /\ t[s(l)].type \in Branch
      BY <1>0, <1>3, <1>7, KeySlot
    <2> DEFINE n == Cardinality({j \in Below(t, s(l)) : j[l] > k[l]})
    <2>2. N(l) = n + N(l - 1)
      BY <2>1, BranchFrom
    <2>3. /\ t[s(l)].type = "BRANCH_L" => Pops(t, s(l), {e \in t[s(l)].exp : e > k[l]}) = n
          /\ t[s(l)].type = "BRANCH_B" => AboveInB(t, s(l), k[l]) = n
          /\ t[s(l)].type = "BRANCH_U" => AboveInU(t, s(l), k[l]) = n
      BY <2>1, AboveIs
    <2> HIDE DEF s, N, n
    <2> QED
      BY <1>7, <2>1, <2>2, <2>3 DEF Branch
  <1>8. ASSUME NEW h, NEW l \in Level, l < p PROVE Body(h, l) = 0
    BY <1>4, <1>8
  <1> HIDE DEF Body, N
  <1>9. \E h : Iter(h)
    <2> DEFINE g == [l \in Level |-> IF l >= p THEN N(l) ELSE 0]
    <2>1. ASSUME NEW l \in Level PROVE g[l] = Body(g, l)
      <3>1. CASE l < p
        BY <1>0, <1>8, <3>1
      <3>2. CASE l = p
        BY <1>0, <1>6, <3>2
      <3>3. CASE l > p
        <4>1. l - 1 \in Level /\ l - 1 >= p
          BY <1>0, <3>3
        <4>2. g[l - 1] = N(l - 1) /\ g[l] = N(l)
          BY <1>0, <3>3, <4>1
        <4> HIDE DEF g
        <4> QED
          BY <1>7, <3>3, <4>2
      <3> QED
        BY <1>0, <3>1, <3>2, <3>3
    <2>2. g = [l \in Level |-> g[l]]
      OBVIOUS
    <2> HIDE DEF g
    <2>3. Iter(g)
      BY <2>1, <2>2
    <2> QED
      BY <2>3
  <1>10. Iter(SM)
    <2> HIDE DEF Iter
    <2> QED
      BY <1>9
  <1>11. CountSM(t, k) = SM[RootLevel]
    BY DEF CountSM, Body
  <1> HIDE DEF SM
  <1>12. \A l \in Level : SM[l] = Body(SM, l)
    BY <1>10
  <1> DEFINE P == {n \in Nat : p + n \in Level => SM[p + n] = N(p + n)}
  <1>13. 0 \in P
    BY <1>0, <1>6, <1>12
  <1>14. ASSUME NEW n \in Nat, n \in P PROVE n + 1 \in P
    <2> SUFFICES ASSUME p + (n + 1) \in Level PROVE SM[p + (n + 1)] = N(p + (n + 1))
      OBVIOUS
    <2> DEFINE l == p + (n + 1)
    <2>1. l \in Level /\ l > p /\ l - 1 = p + n /\ l - 1 \in Level
      BY <1>0
    <2>2. SM[l - 1] = N(l - 1)
      BY <1>14, <2>1
    <2> HIDE DEF l
    <2>3. SM[l] = N(l)
      BY <1>7, <1>12, <2>1, <2>2
    <2> QED
      BY <2>3 DEF l
  <1> HIDE DEF P
  <1>15. RootLevel - p \in P
    <2> DEFINE q == RootLevel - p
    <2>1. q \in Nat
      BY <1>0
    <2> HIDE DEF q
    <2>2. q \in 0..q /\ \A m \in 0..(q - 1) : m \in P => m + 1 \in P
      BY <1>14, <2>1
    <2>3. q \in P
      BY <1>13, <2>1, <2>2, UpTo
    <2> QED
      BY <2>3 DEF q
  <1>16. SM[RootLevel] = N(RootLevel)
    <2>1. p + (RootLevel - p) = RootLevel
      BY <1>0
    <2> QED
      BY <1>0, <1>15, <2>1 DEF P
  <1>17. Below(t, s(RootLevel)) = {j \in Index : Get(t, j)}
    <2>1. s(RootLevel) = RootSlot /\ \A j : Slot(j, RootLevel) = RootSlot
      BY RootOf
    <2>2. RootSlot[1] = RootLevel
      BY DEF RootSlot
    <2> HIDE DEF s
    <2> QED
      BY <2>1, <2>2 DEF Below
  <1> QED
    BY <1>11, <1>16, <1>17 DEF N

\* The keys of the tree.
Keys(t) == {j \in Index : Get(t, j)}

\* No key but one of the callers' is found.
LEMMA FoundIs ==
    ASSUME NEW t \in [Slots -> JP], Tallied(t), NEW k \in Key
    PROVE  JudyLGet(t, k) <=> k \in Keys(t)
  <1>1. ASSUME JudyLGet(t, k) PROVE k \in Index
    <2>1. PICK l \in Level : k \in t[Slot(k, l)].keys
      BY <1>1 DEF JudyLGet, At, InLeaf1, InLeaf2, InLeaf3To7, InLeaf8, InLeafB1U, InFullPop,
                  InImmed01, InImmed
    <2>2. Slot(k, l) \in Slots
      BY KeySlot
    <2> QED
      BY <2>1, <2>2 DEF JP
  <1>2. k \in Index => (JudyLGet(t, k) <=> Get(t, k))
    BY GetsSame DEF Tallied, Searchable
  <1> QED
    BY <1>1, <1>2 DEF Keys

\* First and Next answer the first of the keys from one on, and its count is theirs.
LEMMA FromCounted ==
    ASSUME NEW t \in [Slots -> JP], Tallied(t), NEW k \in Key
    PROVE  LET first == FirstFrom(TRUE, t, k)
           IN  /\ From(Keys(t), k) \in SUBSET Index
               /\ first = {} <=> From(Keys(t), k) = {}
               /\ first # {} =>
                     CountSM(t, CHOOSE j \in first : TRUE) = Cardinality(From(Keys(t), k))
  <1> DEFINE X == Keys(t)
             K == From(X, k)
             first == FirstFrom(TRUE, t, k)
  <1>0. Searchable(t) /\ X \in SUBSET Index /\ X \in SUBSET Key /\ K \in SUBSET Index /\ K \in SUBSET Key
    BY IndexKey DEF Tallied, Keys, From
  <1>1. \A j \in X : ~Less(j, k) <=> j = k \/ Beyond(TRUE, k, j)
    BY <1>0, FromIs
  <1>2. first = FirstOf(TRUE, K)
    <2>1. CASE k \in X
      <3>1. first = {k}
        BY <2>1, FoundIs DEF FirstFrom
      <3>2. IsFirst(TRUE, K, k)
        BY <1>1, <2>1 DEF IsFirst, From
      <3> QED
        BY <1>0, <3>1, <3>2, FirstIs
    <2>2. CASE k \notin X
      <3>1. first = NearestBeyond(TRUE, X, k)
        BY <1>0, <2>2, FoundIs, NeighbourFirst DEF FirstFrom, Keys
      <3>2. {j \in X : Beyond(TRUE, k, j)} = K
        BY <1>1, <2>2 DEF From
      <3> HIDE DEF X, K, first
      <3> QED
        BY <3>1, <3>2 DEF NearestBeyond, FirstOf
    <2> QED
      BY <2>1, <2>2
  <1>3. CASE K = {}
    BY <1>0, <1>2, <1>3 DEF FirstOf
  <1>4. CASE K # {}
    <2> DEFINE f == NearestKey(TRUE, K)
    <2>1. IsFirst(TRUE, K, f)
      BY <1>0, <1>4, FirstKey
    <2> HIDE DEF f
    <2>2. first = {f}
      BY <1>0, <1>2, <2>1, FirstIs
    <2>3. f \in X /\ f \in Key /\ ~Less(f, k) /\ \A j \in K : j = f \/ Less(f, j)
      BY <1>0, <2>1 DEF IsFirst, From, Beyond
    <2>4. \A j \in X : ~Less(j, f) <=> ~Less(j, k)
      <3> SUFFICES ASSUME NEW j \in X PROVE ~Less(j, f) <=> ~Less(j, k)
        OBVIOUS
      <3>1. j \in Key
        BY <1>0
      <3>2. ~Less(j, k) => j = f \/ Less(f, j)
        BY <2>3 DEF From
      <3>3. Less(f, j) => ~Less(j, f)
        BY <2>3, <3>1, LessOneWay
      <3>4. ~Less(f, f)
        BY <2>3, LessOneWay
      <3>5. Less(j, k) => Less(j, f)
        <4>1. f = k \/ Less(k, f)
          BY <1>0, <1>1, <2>3 DEF Beyond
        <4> QED
          BY <2>3, <3>1, <4>1, LessThrough
      <3> QED
        BY <3>2, <3>3, <3>4, <3>5
    <2>5. From(X, f) = K
      BY <2>4 DEF From
    <2>6. CountSM(t, f) = Cardinality(From(X, f))
      BY <2>3, CountSMIs DEF Keys
    <2>7. (CHOOSE j \in first : TRUE) = f
      BY <2>2
    <2> QED
      BY <1>0, <1>4, <2>2, <2>5, <2>6, <2>7
  <1> QED
    BY <1>3, <1>4

\* Count of two ends, the lower first.
LEMMA CountIs ==
    ASSUME NEW t \in [Slots -> JP], Tallied(t), NEW a \in Key, NEW b \in Key
    PROVE  Count(t, Cardinality(Keys(t)), a, b) =
              Cardinality({k \in Keys(t) : \/ ~Less(k, a) /\ ~Less(b, k)
                                           \/ ~Less(k, b) /\ ~Less(a, k)})
  <1> DEFINE X == Keys(t)
             n == Cardinality(X)
             lo == IF Less(b, a) THEN b ELSE a
             hi == IF Less(b, a) THEN a ELSE b
             first == FirstFrom(TRUE, t, lo)
             past == IF hi = Limit(TRUE) THEN {} ELSE FirstFrom(TRUE, t, Step(TRUE, hi))
             above(K) == CountSM(t, CHOOSE k \in K : TRUE)
             above1 == IF lo = Limit(FALSE) THEN n ELSE above(first)
             A == From(X, lo)
             P == {k \in X : Less(hi, k)}
             R == {k \in X : ~Less(k, lo) /\ ~Less(hi, k)}
             S == {k \in X : \/ ~Less(k, a) /\ ~Less(b, k)
                             \/ ~Less(k, b) /\ ~Less(a, k)}
  <1>0. X \in SUBSET Index /\ X \in SUBSET Key /\ IsFiniteSet(X) /\ n \in Nat
    BY IndexKey, KeysFinite DEF Keys
  <1> HIDE DEF X
  <1>1. lo \in Key /\ hi \in Key /\ ~Less(hi, lo)
    BY LessOneWay
  <1>2. \A k \in Key : /\ Less(hi, k) => ~Less(k, lo)
                       /\ lo = hi => (~Less(k, lo) /\ ~Less(hi, k) <=> k = lo)
    <2> SUFFICES ASSUME NEW k \in Key
                 PROVE  /\ Less(hi, k) => ~Less(k, lo)
                        /\ lo = hi => (~Less(k, lo) /\ ~Less(hi, k) <=> k = lo)
      OBVIOUS
    <2> HIDE DEF lo, hi
    <2>1. Less(hi, k) /\ Less(k, lo) => Less(hi, lo)
      BY <1>1, LessThrough
    <2>2. k # lo => Less(k, lo) \/ Less(lo, k)
      BY <1>1, LessApart
    <2>3. ~Less(lo, lo)
      BY <1>1, LessOneWay
    <2> QED
      BY <1>1, <2>1, <2>2, <2>3
  <1>3. S = R
    <2>1. \A k \in X : \/ ~Less(k, a) /\ ~Less(b, k)
                       \/ ~Less(k, b) /\ ~Less(a, k)
                       <=> ~Less(k, lo) /\ ~Less(hi, k)
      <3> SUFFICES ASSUME NEW k \in X
                   PROVE  (\/ ~Less(k, a) /\ ~Less(b, k)
                           \/ ~Less(k, b) /\ ~Less(a, k))
                          <=> ~Less(k, lo) /\ ~Less(hi, k)
        OBVIOUS
      <3>1. k \in Key
        BY <1>0
      <3>2. /\ a # k => Less(a, k) \/ Less(k, a)
            /\ b # k => Less(b, k) \/ Less(k, b)
        BY <3>1, LessApart
      <3>3. ~Less(k, k)
        BY <3>1, LessOneWay
      <3>4. /\ Less(b, k) /\ Less(k, a) => Less(b, a)
            /\ Less(a, k) /\ Less(k, b) => Less(a, b)
        BY <3>1, LessThrough
      <3>5. Less(b, a) => ~Less(a, b)
        BY LessOneWay
      <3>6. CASE Less(b, a)
        <4>1. ~(~Less(k, a) /\ ~Less(b, k))
          <5>1. ~Less(k, a) => a = k \/ Less(a, k)
            BY <3>2
          <5>2. Less(b, a) /\ Less(a, k) => Less(b, k)
            BY <3>1, LessThrough
          <5> QED
            BY <3>6, <5>1, <5>2
        <4> QED
          BY <3>6, <4>1
      <3>7. CASE ~Less(b, a)
        <4>1. ASSUME ~Less(k, b), ~Less(a, k) PROVE ~Less(k, a) /\ ~Less(b, k)
          <5>1. (b = k \/ Less(b, k)) /\ (k = a \/ Less(k, a))
            BY <3>2, <4>1
          <5>2. b = k /\ k = a
            BY <3>4, <3>7, <5>1
          <5> QED
            BY <3>3, <5>2
        <4> QED
          BY <3>7, <4>1
      <3> QED
        BY <3>6, <3>7
    <2> QED
      BY <2>1
  <1> HIDE DEF lo, hi
  <1>4. /\ A \in SUBSET Index /\ P \in SUBSET Index /\ R \in SUBSET Index
        /\ P \cap R = {} /\ \A k : k \in A <=> k \in P \/ k \in R
    BY <1>0, <1>2 DEF From
  <1>5. /\ Cardinality(A) \in Nat /\ Cardinality(P) \in Nat /\ Cardinality(R) \in Nat
        /\ Cardinality(A) = Cardinality(P) + Cardinality(R)
    <2> HIDE DEF A, P, R
    <2> QED
      BY <1>4, CountApart
  <1>6. /\ first = {} <=> A = {}
        /\ first # {} => above(first) = Cardinality(A)
    BY <1>1, FromCounted DEF X
  <1>7. lo = Limit(FALSE) => A = X
    <2> SUFFICES ASSUME lo = Limit(FALSE) PROVE A = X
      OBVIOUS
    <2>1. \A j \in Key : ~Beyond(FALSE, Limit(FALSE), j)
      BY LimitLast
    <2> QED
      BY <1>0, <2>1 DEF From, Beyond
  <1>8. /\ past = {} <=> P = {}
        /\ past # {} => above(past) = Cardinality(P)
    <2>1. CASE hi = Limit(TRUE)
      <3>1. \A j \in Key : ~Beyond(TRUE, Limit(TRUE), j)
        BY LimitLast
      <3>2. P = {}
        BY <1>0, <2>1, <3>1 DEF Beyond
      <3> QED
        BY <2>1, <3>2
    <2>2. CASE hi # Limit(TRUE)
      <3> DEFINE m == Step(TRUE, hi)
      <3>1. m \in Key
        BY <1>1, <2>2, StepIs
      <3>2. \A j \in Key : Beyond(TRUE, hi, j) <=> j = m \/ Beyond(TRUE, m, j)
        BY <1>1, <2>2, StepNext
      <3> HIDE DEF m
      <3>3. \A j \in Key : ~Less(j, m) <=> Less(hi, j)
        BY <3>1, <3>2, FromIs DEF Beyond
      <3>4. From(X, m) = P
        BY <1>0, <3>3 DEF From
      <3>5. past = FirstFrom(TRUE, t, m)
        BY <2>2 DEF m
      <3> QED
        BY <3>1, <3>4, <3>5, FromCounted DEF X
    <2> QED
      BY <2>1, <2>2
  <1>9. Count(t, n, a, b) =
            CASE n = 0 -> 0
              [] n # 0 /\ lo = hi -> IF JudyLGet(t, lo) THEN 1 ELSE 0
              [] n # 0 /\ lo # hi /\ lo # Limit(FALSE) /\ first = {} -> 0
              [] OTHER -> IF past = {} THEN above1 ELSE above1 - above(past)
    BY DEF Count, lo, hi
  <1>10. Cardinality({}) = 0
    BY FS_EmptySet
  <1>11. CASE n = 0
    <2>1. X = {}
      BY <1>0, <1>11, FS_EmptySet
    <2> QED
      BY <1>3, <1>9, <1>10, <1>11, <2>1 DEF X
  <1>12. CASE n # 0 /\ lo = hi
    <2>1. R = {k \in X : k = lo}
      BY <1>0, <1>2, <1>12
    <2>2. JudyLGet(t, lo) <=> lo \in X
      BY <1>1, FoundIs DEF X
    <2>3. Count(t, n, a, b) = IF lo \in X THEN 1 ELSE 0
      BY <1>9, <1>12, <2>2
    <2>4. lo \in X => R = {lo} /\ Cardinality({lo}) = 1
      BY <2>1, FS_Singleton
    <2>5. lo \notin X => R = {}
      BY <2>1
    <2> HIDE DEF R, S
    <2> QED
      BY <1>3, <1>10, <2>3, <2>4, <2>5 DEF X, S
  <1>13. CASE n # 0 /\ lo # hi /\ lo # Limit(FALSE) /\ first = {}
    <2>1. A = {} /\ R = {}
      BY <1>4, <1>6, <1>13
    <2>2. Cardinality(R) = 0
      BY <1>10, <2>1
    <2> HIDE DEF R, S
    <2> QED
      BY <1>3, <1>9, <1>13, <2>2 DEF X, S
  <1>14. CASE n # 0 /\ lo # hi /\ ~(lo # Limit(FALSE) /\ first = {})
    <2>1. Count(t, n, a, b) = IF past = {} THEN above1 ELSE above1 - above(past)
      BY <1>9, <1>14
    <2>2. above1 = Cardinality(A)
      BY <1>6, <1>7, <1>14
    <2>3. past = {} => Cardinality(P) = 0
      BY <1>8, <1>10
    <2> HIDE DEF A, P, R, S, past, above1, above
    <2>4. Count(t, n, a, b) = Cardinality(R)
      BY <1>5, <1>8, <2>1, <2>2, <2>3
    <2> QED
      BY <1>3, <2>4 DEF X, S
  <1> QED
    BY <1>11, <1>12, <1>13, <1>14

\* What a caller finds: no count is open, and the population is that of the keys.
LEMMA CallerFinds ==
    ASSUME CountInv, Inhabited(jp), Callable
    PROVE  /\ jp \in [Slots -> JP] /\ Tallied(jp)
           /\ Content = Keys(jp) /\ Pop1 = Cardinality(Content)
  <1>0. pc = "idle" /\ (root = "JPM" => pop0 >= LEAF8_MAXPOP1)
    BY DEF Callable, Readable
  <1>1. jp \in [Slots -> JP] /\ Searchable(jp)
    BY DEF CountInv, ShapeInv, TypeOK, KeptInv, FormInv, Searchable
  <1>2. \A s \in Slots : ~Uncounted(s) /\ ~Announced(s)
    BY <1>0 DEF Uncounted, Announced
  <1>3. Counts(jp)
    <2> SUFFICES ASSUME NEW s \in Slots, jp[s].type \in Branch
                 PROVE  jp[s].pop + 1 = Cardinality(Below(jp, s))
      BY DEF Counts
    <2>1. jp[s].pop \in Nat
      BY <1>1 DEF JP
    <2> QED
      BY <1>2, <2>1 DEF CountInv, PopInv
  <1>4. ASSUME NEW s \in Slots, jp[s].type = "BRANCH_U", NEW g \in Digit
        PROVE  jp[s].sums[g] = Cardinality(Group(jp, s, g))
    <2>1. Group(jp, s, g) \in SUBSET Index
      BY DEF Group, Below
    <2>2. Cardinality(Group(jp, s, g)) \in Nat
      BY <2>1, KeysFinite
    <2> QED
      BY <1>2, <1>4, <2>2 DEF CountInv, SumsInv
  <1>5. Tallied(jp)
    BY <1>1, <1>3, <1>4 DEF Tallied, CountInv, SumsInv
  <1>6. Content = Keys(jp)
    BY DEF Content, Keys
  <1>7. ASSUME root = "JPM" PROVE Pop1 = Cardinality(Content)
    BY <1>0, <1>7 DEF CountInv, ShapeInv, TypeOK, PopInv, Pop1
  <1>8. ASSUME root # "JPM" PROVE Pop1 = Cardinality(Content)
    <2>1. \A s \in Slots : s # RootSlot => jp[s].keys = {}
      BY <1>8 DEF CountInv, ShapeInv, RootInv, TypeOK
    <2>2. Content = jp[RootSlot].keys
      <3>1. RootSlot \in Slots
        BY RootSlotType
      <3>2. jp[RootSlot].keys \in SUBSET Index
        BY <1>1, <3>1 DEF JP
      <3>3. \A k \in Index : Get(jp, k) <=> \E s \in Slots : k \in jp[s].keys
        BY <1>1, Held DEF Searchable
      <3> QED
        BY <2>1, <3>1, <3>2, <3>3 DEF Content
    <2> QED
      BY <1>8, <2>2 DEF Pop1, Pop8
  <1> QED
    BY <1>1, <1>5, <1>6, <1>7, <1>8

(***************************************************************************)
(* Count answers the number of keys between any two, in either order, at   *)
(* the ends of the key space or not, in the array or not: whatever branches *)
(* the two paths go through, what Count takes from the JPs beside them,     *)
(* the words of a bitmap and jbu_sums8, upward or downward, comes to the   *)
(* keys of one set.  It rests on the counts being told, so on the failures *)
(* being those that JudyLIns handles.                                      *)
(***************************************************************************)
THEOREM CountsTold ==
    ASSUME FailSites \subseteq HandledSites
    PROVE  Spec => []CountExact
  <1>1. Init => CountInv /\ Inhabited(jp)
    BY CountsKept, EmptyInhabited DEF Init
  <1>2. CountInv /\ Inhabited(jp) /\ [Next]_vars => CountInv' /\ Inhabited(jp)'
    BY CountsKept, NextInhabits DEF CountInv, ShapeInv
  <1>3. CountInv /\ Inhabited(jp) => CountExact
    <2> SUFFICES ASSUME CountInv, Inhabited(jp), Callable, NEW a \in Probe, NEW b \in Probe
                 PROVE  Count(jp, Pop1, a, b) =
                           Cardinality({k \in Content : \/ ~Less(k, a) /\ ~Less(b, k)
                                                        \/ ~Less(k, b) /\ ~Less(a, k)})
      BY DEF CountExact
    <2>1. a \in Key /\ b \in Key
      BY ProbeAssumption
    <2>2. jp \in [Slots -> JP] /\ Tallied(jp) /\ Content = Keys(jp) /\ Pop1 = Cardinality(Content)
      BY CallerFinds
    <2> QED
      BY <2>1, <2>2, CountIs
  <1> QED
    BY <1>1, <1>2, <1>3, PTL DEF Spec

-----------------------------------------------------------------------------
(* JudyLByCount *)

\* For each place up to the number of the keys there is one.
LEMMA PlaceTaken ==
    ASSUME NEW W \in SUBSET Index, NEW n \in Nat, n < Cardinality(W)
    PROVE  \E k \in W : Rank(k, W) = n /\ {j \in W : Rank(j, W) = n} = {k}
  <1> DEFINE T == 0..(Cardinality(W) - 1)
             f == [k \in W |-> Rank(k, W)]
  <1>1. IsFiniteSet(W) /\ Cardinality(W) \in Nat
    BY KeysFinite
  <1>2. IsFiniteSet(T) /\ Cardinality(T) = Cardinality(W)
    <2> DEFINE m == Cardinality(W)
    <2>1. m \in Nat
      BY <1>1
    <2> HIDE DEF m
    <2>2. IsFiniteSet(0..(m - 1)) /\ Cardinality(0..(m - 1)) = m
      BY <2>1, FS_Interval
    <2> QED
      BY <2>2 DEF m
  <1>3. f \in Injection(W, T)
    BY <1>1, RanksApart DEF Injection, IsInjective
  <1> HIDE DEF T, f
  <1>4. f \in Surjection(W, T)
    BY <1>2, <1>3, FS_Injection
  <1>5. \E k \in W : f[k] = n
    BY <1>1, <1>4 DEF Surjection, T
  <1> QED
    BY <1>5, RanksApart DEF f

\* The keys of the tree before k that are not under its slot at level l.
Earlier(t, k, l) == {j \in Keys(t) : Less(j, k) /\ Slot(j, l) # Slot(k, l)}

\* The keys before k are those and those under its slot.
LEMMA RankAt ==
    ASSUME NEW t \in [Slots -> JP], NEW k \in Key, NEW l \in Level
    PROVE  /\ Cardinality(Earlier(t, k, l)) \in Nat /\ Rank(k, Below(t, Slot(k, l))) \in Nat
           /\ Rank(k, Keys(t)) = Cardinality(Earlier(t, k, l)) + Rank(k, Below(t, Slot(k, l)))
  <1> DEFINE A == Earlier(t, k, l)
             B == {j \in Below(t, Slot(k, l)) : Less(j, k)}
             C == {j \in Keys(t) : Less(j, k)}
  <1>1. \A j : j \in Below(t, Slot(k, l)) <=> j \in Keys(t) /\ Slot(j, l) = Slot(k, l)
    BY KeySlot DEF Below, Keys
  <1>2. /\ A \in SUBSET Index /\ B \in SUBSET Index /\ A \cap B = {}
        /\ \A j : j \in C <=> j \in A \/ j \in B
    BY <1>1 DEF Earlier, Keys
  <1> HIDE DEF A, B, C
  <1>3. /\ Cardinality(A) \in Nat /\ Cardinality(B) \in Nat
        /\ Cardinality(C) = Cardinality(A) + Cardinality(B)
    BY <1>2, CountApart
  <1> QED
    BY <1>3 DEF Rank, A, B, C

\* In a branch the walk to a key takes its digit, past the keys of those below.
LEMMA BranchPlace ==
    ASSUME NEW t \in [Slots -> JP], Tallied(t), NEW l \in Level, NEW k \in Keys(t),
           t[Slot(k, l)].type \in Branch, NEW lower, lower = Cardinality(Earlier(t, k, l))
    PROVE  LET s == Slot(k, l)
           IN  /\ l > 1 /\ l - 1 \in Level /\ Slot(k, l - 1) = Child(s, k[l])
               /\ Min(Expanses(t, s, lower, Rank(k, Keys(t)))) = k[l]
               /\ lower + Pops(t, s, {e \in Occupied(t, s) : e < k[l]}) =
                     Cardinality(Earlier(t, k, l - 1))
  <1> DEFINE s == Slot(k, l)
             X == Below(t, s)
             D == Occupied(t, s)
             upTo(d) == {j \in X : j[l] <= d}
             under == {j \in X : j[l] < k[l]}
             before == {j \in X : Less(j, k)}
             n == Rank(k, Keys(t))
  <1>0. /\ k \in Index /\ k \in Key /\ s \in Slots /\ s[1] = l /\ k[l] \in Digit /\ k[l] \in Nat
        /\ Searchable(t) /\ k \in X
    BY IndexKey, KeySlot, SizeAssumption DEF Tallied, Keys, Below, Digit
  <1>1. l > 1 /\ l - 1 \in Level /\ D \in SUBSET Digit /\ k[l] \in D /\ s[1] = l
    BY <1>0, OccupiedIs, BelowOccupied, SizeAssumption DEF Level
  <1>2. Slot(k, l - 1) = Child(s, k[l])
    BY <1>0, <1>1, ChildOf
  <1>3. \A j \in X : /\ j \in Index /\ j \in Key /\ Slot(j, l) = s /\ j[l] \in Nat /\ j[l] \in D
                     /\ (j[l] # k[l] => (Less(j, k) <=> j[l] < k[l]))
    <2> SUFFICES ASSUME NEW j \in X
                 PROVE  /\ j \in Index /\ j \in Key /\ Slot(j, l) = s /\ j[l] \in Nat /\ j[l] \in D
                        /\ j[l] # k[l] => (Less(j, k) <=> j[l] < k[l])
      OBVIOUS
    <2>1. j \in Index /\ j \in Key /\ Slot(j, l) = s /\ j[l] \in Digit /\ j[l] \in D
      BY <1>0, BelowOccupied
    <2>2. j[l] # k[l] => (Beyond(FALSE, k, j) <=> Past(FALSE, k[l], j[l]))
      BY <1>0, <2>1, BeyondAt
    <2> QED
      BY <1>0, <2>1, <2>2, SizeAssumption DEF Beyond, Past, Digit
  <1>4. n = lower + Cardinality(before) /\ lower \in Nat /\ Cardinality(before) \in Nat
    BY <1>0, RankAt DEF Rank
  <1>5. \A E \in SUBSET Digit : Pops(t, s, E) = Cardinality({j \in X : j[l] \in E})
    BY <1>0, PopsIs DEF Part
  <1>6. ASSUME NEW d \in D
        PROVE  Pops(t, s, {e \in D : e <= d}) = Cardinality(upTo(d)) /\ d \in Nat
    <2>1. {e \in D : e <= d} \in SUBSET Digit /\ d \in Nat
      BY <1>1, SizeAssumption DEF Digit
    <2>2. {j \in X : j[l] \in {e \in D : e <= d}} = upTo(d)
      BY <1>3
    <2> HIDE DEF D, X, upTo
    <2> QED
      BY <1>5, <2>1, <2>2
  <1>7. Pops(t, s, {e \in D : e < k[l]}) = Cardinality(under)
    <2>1. {e \in D : e < k[l]} \in SUBSET Digit
      BY <1>1
    <2>2. {j \in X : j[l] \in {e \in D : e < k[l]}} = under
      BY <1>3
    <2> HIDE DEF D, X, under
    <2> QED
      BY <1>5, <2>1, <2>2
  <1>8. X \in SUBSET Index /\ before \in SUBSET Index /\ \A d : upTo(d) \in SUBSET Index
    BY <1>3
  <1>9. lower + Cardinality(upTo(k[l])) > n
    <2> DEFINE u == upTo(k[l])
    <2>1. before \subseteq u /\ k \in u /\ k \notin before
      BY <1>0, <1>3, LessOneWay
    <2>2. u \in SUBSET Index
      BY <1>8
    <2>3. IsFiniteSet(u) /\ Cardinality(u) \in Nat
      BY <2>2, KeysFinite
    <2> HIDE DEF u, before
    <2>4. Cardinality(before) <= Cardinality(u) /\ (Cardinality(before) = Cardinality(u) => before = u)
      BY <2>1, <2>3, FS_Subset
    <2>5. Cardinality(before) < Cardinality(u)
      BY <1>4, <2>1, <2>3, <2>4
    <2> QED
      BY <1>4, <2>3, <2>5 DEF u
  <1>10. ASSUME NEW d \in D, d < k[l] PROVE ~(lower + Cardinality(upTo(d)) > n)
    <2> DEFINE u == upTo(d)
    <2>1. u \subseteq before
      <3> SUFFICES ASSUME NEW j \in X, j[l] <= d PROVE Less(j, k)
        OBVIOUS
      <3>1. j[l] \in Nat /\ d \in Nat /\ (j[l] # k[l] => (Less(j, k) <=> j[l] < k[l]))
        BY <1>3, <1>6
      <3> QED
        BY <1>0, <1>10, <3>1
    <2>2. u \in SUBSET Index
      BY <1>8
    <2>3. Cardinality(u) \in Nat /\ IsFiniteSet(before)
      BY <1>8, <2>2, KeysFinite
    <2> HIDE DEF u, before
    <2>4. Cardinality(u) <= Cardinality(before)
      BY <2>1, <2>3, FS_Subset
    <2> QED
      BY <1>4, <2>3, <2>4 DEF u
  <1>11. Min(Expanses(t, s, lower, n)) = k[l]
    <2> DEFINE E == Expanses(t, s, lower, n)
    <2> HIDE DEF D, upTo, n, X
    <2>1. E = {d \in D : lower + Pops(t, s, {e \in D : e <= d}) > n}
      BY DEF Expanses, D
    <2>2. \A d : d \in E <=> d \in D /\ lower + Cardinality(upTo(d)) > n
      BY <1>6, <2>1
    <2> HIDE DEF E
    <2>3. k[l] \in E /\ \A d \in E : d \in Nat /\ k[l] <= d
      <3>1. k[l] \in E
        BY <1>1, <1>9, <2>2
      <3>2. ASSUME NEW d \in E PROVE d \in Nat /\ k[l] <= d
        <4>1. d \in D /\ d \in Nat /\ lower + Cardinality(upTo(d)) > n
          BY <1>6, <2>2
        <4>2. ~(d < k[l])
          BY <1>10, <4>1
        <4> QED
          BY <1>0, <4>1, <4>2
      <3> QED
        BY <3>1, <3>2
    <2>4. \A d \in E : (\A e \in E : d <= e) => d = k[l]
      BY <1>0, <2>3
    <2> QED
      BY <2>3, <2>4 DEF Min, E
  <1>12. lower + Cardinality(under) = Cardinality(Earlier(t, k, l - 1))
    <2> DEFINE A == Earlier(t, k, l)
               B == under
               C == Earlier(t, k, l - 1)
    <2>1. \A j \in Keys(t) : /\ j \in Key
                             /\ j \in X <=> Slot(j, l) = s
                             /\ Slot(j, l - 1) = Slot(k, l - 1) <=> Slot(j, l) = s /\ j[l] = k[l]
      <3> SUFFICES ASSUME NEW j \in Keys(t)
                   PROVE  /\ j \in Key
                          /\ j \in X <=> Slot(j, l) = s
                          /\ Slot(j, l - 1) = Slot(k, l - 1) <=> Slot(j, l) = s /\ j[l] = k[l]
        OBVIOUS
      <3>1. j \in Key
        BY IndexKey DEF Keys
      <3> QED
        BY <1>0, <1>1, <3>1, SlotsDown DEF Keys, Below
    <2>2. \A j \in X : j \in Keys(t)
      BY DEF Keys, Below
    <2> HIDE DEF X, s
    <2>3. /\ A \in SUBSET Index /\ B \in SUBSET Index /\ A \cap B = {}
          /\ \A j : j \in C <=> j \in A \/ j \in B
      <3>1. A \in SUBSET Index /\ B \in SUBSET Index
        BY <1>8 DEF Earlier, Keys
      <3>2. \A j : j \in A <=> j \in Keys(t) /\ Less(j, k) /\ Slot(j, l) # s
        BY DEF Earlier, s
      <3>3. \A j : j \in C <=> j \in Keys(t) /\ Less(j, k) /\ Slot(j, l - 1) # Slot(k, l - 1)
        BY DEF Earlier
      <3>4. \A j : j \in B <=> j \in Keys(t) /\ Less(j, k) /\ Slot(j, l) = s /\ j[l] # k[l]
        BY <1>0, <1>3, <2>1, <2>2
      <3> HIDE DEF A, B, C
      <3> QED
        BY <2>1, <3>1, <3>2, <3>3, <3>4
    <2> HIDE DEF A, B, C, under
    <2>4. Cardinality(C) = Cardinality(A) + Cardinality(B)
      BY <2>3, CountApart
    <2> QED
      BY <2>4 DEF A, B, C
  <1> QED
    BY <1>1, <1>2, <1>7, <1>11, <1>12

\* Where the walk of ByCount ends: at the key with so many before it.
LEMMA ByCountEndIs ==
    ASSUME NEW t \in [Slots -> JP], Tallied(t), NEW k \in Keys(t), NEW p \in Level,
           Reaches(t, k, p), k \in t[Slot(k, p)].keys
    PROVE  ByCountEnd(t, Rank(k, Keys(t))) =
              [slot |-> Slot(k, p), offset |-> Rank(k, t[Slot(k, p)].keys)]
  <1> DEFINE n == Rank(k, Keys(t))
             Take(s, lower) == Min(Expanses(t, s, lower, n))
             Body(h, l) ==
                 IF l = RootLevel THEN [slot |-> RootSlot, lower |-> 0]
                 ELSE IF t[h[l + 1].slot].type \in Branch
                      THEN [slot |-> Child(h[l + 1].slot, Take(h[l + 1].slot, h[l + 1].lower)),
                            lower |-> h[l + 1].lower + Pops(t, h[l + 1].slot,
                                          {e \in Occupied(t, h[l + 1].slot) :
                                                e < Take(h[l + 1].slot, h[l + 1].lower)})]
                      ELSE h[l + 1]
             Iter(h) == h = [l \in Level |-> Body(h, l)]
             SM == CHOOSE h : Iter(h)
             L(l) == [slot |-> Slot(k, l), lower |-> Cardinality(Earlier(t, k, l))]
             CaseAt(l) == IF l >= p THEN L(l) ELSE L(p)
  <1>0. k \in Key /\ Searchable(t) /\ RootLevel \in Level /\ Level = 1..RootLevel /\ RootLevel \in Nat
        /\ RootLevel >= 1 /\ 1 \in Level
    BY IndexKey, SizeAssumption DEF Tallied, Level, Keys
  <1>1. t[Slot(k, p)].type \notin Branch
    BY <1>0, KeySlot DEF Searchable, KeysInLeaves, Branch
  <1>2. ASSUME NEW l \in Level, l > p PROVE t[Slot(k, l)].type \in Branch
    <2>1. Enters(t[Slot(k, l)], k[l])
      BY <1>2, ReachesAbove
    <2> QED
      BY <2>1 DEF Enters, EntersL, EntersB, EntersU, Branch
  <1>3. L(RootLevel) = [slot |-> RootSlot, lower |-> 0]
    <2>1. Slot(k, RootLevel) = RootSlot /\ \A j : Slot(j, RootLevel) = RootSlot
      BY RootOf
    <2>2. Earlier(t, k, RootLevel) = {}
      BY <2>1 DEF Earlier
    <2> QED
      BY <2>1, <2>2, FS_EmptySet
  <1>4. ASSUME NEW h, NEW l \in Level, l >= p, l < RootLevel, h[l + 1] = L(l + 1)
        PROVE  Body(h, l) = L(l)
    <2> DEFINE s == Slot(k, l + 1)
               lower == Cardinality(Earlier(t, k, l + 1))
    <2>1. l + 1 \in Level /\ (l + 1) - 1 = l /\ l + 1 > p
      BY <1>0, <1>4
    <2>2. t[s].type \in Branch
      BY <1>2, <2>1
    <2>3. /\ Slot(k, l) = Child(s, k[l + 1])
          /\ Take(s, lower) = k[l + 1]
          /\ lower + Pops(t, s, {e \in Occupied(t, s) : e < k[l + 1]}) = Cardinality(Earlier(t, k, l))
      BY <2>1, <2>2, BranchPlace
    <2>4. h[l + 1].slot = s /\ h[l + 1].lower = lower
      BY <1>4
    <2> HIDE DEF s, lower, Take
    <2>5. l # RootLevel
      BY <1>0, <1>4
    <2>6. Body(h, l) = [slot |-> Child(s, Take(s, lower)),
                        lower |-> lower + Pops(t, s, {e \in Occupied(t, s) : e < Take(s, lower)})]
      BY <2>2, <2>4, <2>5
    <2> QED
      BY <2>3, <2>6
  <1>5. ASSUME NEW h, NEW l \in Level, l < p, h[l + 1] = L(p) PROVE Body(h, l) = L(p)
    <2>1. l # RootLevel /\ h[l + 1].slot = Slot(k, p)
      BY <1>0, <1>5
    <2> HIDE DEF L, Take
    <2> QED
      BY <1>1, <1>5, <2>1
  <1>6. ASSUME NEW h PROVE Body(h, RootLevel) = L(RootLevel)
    BY <1>3
  <1> HIDE DEF Body, L
  <1>7. ASSUME NEW h, NEW l \in Level, l < RootLevel => h[l + 1] = CaseAt(l + 1)
        PROVE  Body(h, l) = CaseAt(l)
    <2>1. CASE l = RootLevel
      BY <1>0, <1>6, <2>1
    <2>2. CASE l < RootLevel /\ l >= p
      BY <1>0, <1>4, <1>7, <2>2
    <2>3. CASE l < RootLevel /\ l < p
      <3>1. CaseAt(l + 1) = L(p)
        <4>1. l + 1 = p \/ l + 1 < p
          BY <1>0, <2>3
        <4> QED
          BY <1>0, <4>1
      <3> QED
        BY <1>0, <1>5, <1>7, <2>3, <3>1
    <2> QED
      BY <1>0, <2>1, <2>2, <2>3
  <1> HIDE DEF CaseAt
  <1>8. \E h : Iter(h)
    <2> DEFINE g == [l \in Level |-> CaseAt(l)]
    <2>1. \A l \in Level : l < RootLevel => g[l + 1] = CaseAt(l + 1)
      BY <1>0
    <2>2. \A l \in Level : g[l] = CaseAt(l) /\ g = [m \in Level |-> g[m]]
      OBVIOUS
    <2> HIDE DEF g
    <2>3. \A l \in Level : g[l] = Body(g, l)
      BY <1>7, <2>1, <2>2
    <2>4. Iter(g)
      BY <1>0, <2>2, <2>3
    <2> QED
      BY <2>4
  <1>9. Iter(SM)
    <2> HIDE DEF Iter
    <2> QED
      BY <1>8
  <1>10. ByCountEnd(t, n) = [slot |-> SM[1].slot, offset |-> n - SM[1].lower]
    BY DEF ByCountEnd, Body
  <1> HIDE DEF SM
  <1>11. \A l \in Level : SM[l] = Body(SM, l)
    BY <1>9
  <1> DEFINE P == {m \in Nat : RootLevel - m \in Level => SM[RootLevel - m] = CaseAt(RootLevel - m)}
  <1>12. 0 \in P
    <2>1. RootLevel - 0 = RootLevel /\ ~(RootLevel < RootLevel)
      BY <1>0
    <2> QED
      BY <1>0, <1>7, <1>11, <2>1
  <1>13. ASSUME NEW m \in Nat, m \in P PROVE m + 1 \in P
    <2> SUFFICES ASSUME RootLevel - (m + 1) \in Level
                 PROVE  SM[RootLevel - (m + 1)] = CaseAt(RootLevel - (m + 1))
      OBVIOUS
    <2> DEFINE l == RootLevel - (m + 1)
    <2>1. l \in Level /\ l + 1 = RootLevel - m /\ l + 1 \in Level
      BY <1>0
    <2>2. SM[l + 1] = CaseAt(l + 1)
      BY <1>13, <2>1
    <2> HIDE DEF l
    <2>3. SM[l] = CaseAt(l)
      BY <1>7, <1>11, <2>1, <2>2
    <2> QED
      BY <2>3 DEF l
  <1> HIDE DEF P
  <1>14. SM[1] = CaseAt(1)
    <2> DEFINE q == RootLevel - 1
    <2>1. q \in Nat /\ RootLevel - q = 1
      BY <1>0
    <2> HIDE DEF q
    <2>2. q \in 0..q /\ \A m \in 0..(q - 1) : m \in P => m + 1 \in P
      BY <1>13, <2>1
    <2>3. q \in P
      BY <1>12, <2>1, <2>2, UpTo
    <2> QED
      BY <1>0, <2>1, <2>3 DEF P
  <1>15. CaseAt(1) = L(p)
    <2>1. p >= 1 /\ p \in Nat
      BY <1>0
    <2> QED
      BY <2>1 DEF CaseAt
  <1>16. ByCountEnd(t, n) = [slot |-> Slot(k, p), offset |-> n - Cardinality(Earlier(t, k, p))]
    BY <1>10, <1>14, <1>15 DEF L
  <1>17. n - Cardinality(Earlier(t, k, p)) = Rank(k, t[Slot(k, p)].keys)
    <2>1. Below(t, Slot(k, p)) = t[Slot(k, p)].keys
      BY <1>0, <1>1, OwnBelow DEF Searchable
    <2>2. /\ Cardinality(Earlier(t, k, p)) \in Nat /\ Rank(k, Below(t, Slot(k, p))) \in Nat
          /\ n = Cardinality(Earlier(t, k, p)) + Rank(k, Below(t, Slot(k, p)))
      BY <1>0, RankAt
    <2> HIDE DEF n
    <2> QED
      BY <2>1, <2>2
  <1> QED
    BY <1>16, <1>17

\* The bit at a place of a bitmap is the key with so many before it.
LEMMA B1UPlace ==
    ASSUME NEW K \in SUBSET Index, NEW k \in K, \A j \in K : Slot(j, 1) = Slot(k, 1)
    PROVE  KeyAtInB1U(K, Rank(k, K)) = {k}
  <1> DEFINE n == Rank(k, K)
             word(e) == {j \in K : j[1] \div SUBEXP_L = e}
             upTo(e) == Cardinality(UNION {word(f) : f \in 0..e})
             sub == {e \in {d \div SUBEXP_L : d \in Digit} : upTo(e) > n}
             own == k[1] \div SUBEXP_L
             L == {j \in K : Less(j, k)}
             A == {j \in K : j[1] \div SUBEXP_L < own}
             B == {j \in word(own) : Less(j, k)}
             U(e) == {j \in K : j[1] \div SUBEXP_L <= e}
  <1>0. SUBEXP_L \in Nat \ {0} /\ k \in Key
    BY SubExpAssumption, IndexKey
  <1>1. \A j \in K : /\ j \in Key /\ j[1] \in Digit /\ j[1] \in Nat /\ j[1] \div SUBEXP_L \in Nat
                     /\ Less(j, k) <=> j[1] < k[1]
                     /\ j[1] \div SUBEXP_L < own => j[1] < k[1]
                     /\ j[1] < k[1] => j[1] \div SUBEXP_L = own \/ j[1] \div SUBEXP_L < own
    <2> TAKE j \in K
    <2>1. j \in Key /\ Slot(k, 1) = Slot(j, 1)
      BY IndexKey
    <2>2. j[1] \in Nat /\ k[1] \in Nat /\ (Less(j, k) <=> j[1] < k[1]) /\ j[1] \in Digit
      BY <1>0, <2>1, BottomOrder, SizeAssumption DEF Key, Level
    <2>3. /\ k[1] \div SUBEXP_L \in Nat /\ j[1] \div SUBEXP_L \in Nat
          /\ Past(FALSE, k[1] \div SUBEXP_L, j[1] \div SUBEXP_L) => Past(FALSE, k[1], j[1])
          /\ Past(FALSE, k[1], j[1]) => k[1] \div SUBEXP_L = j[1] \div SUBEXP_L
                                         \/ Past(FALSE, k[1] \div SUBEXP_L, j[1] \div SUBEXP_L)
      BY <1>0, <2>2, PartsPast
    <2> QED
      BY <2>1, <2>2, <2>3 DEF Past
  <1>2. own \in Nat /\ own \in {d \div SUBEXP_L : d \in Digit}
    BY <1>1
  <1>3. \A e \in {d \div SUBEXP_L : d \in Digit} : e \in Nat
    <2> SUFFICES ASSUME NEW d \in Digit PROVE d \div SUBEXP_L \in Nat
      OBVIOUS
    <2>1. d \in Nat
      BY SizeAssumption DEF Digit
    <2> QED
      BY <1>0, <2>1, Quotient
  <1> HIDE DEF own
  <1>4. ASSUME NEW e \in Nat PROVE upTo(e) = Cardinality(U(e)) /\ Cardinality(U(e)) \in Nat
    <2>1. UNION {word(f) : f \in 0..e} = U(e)
      BY <1>1
    <2>2. U(e) \in SUBSET Index
      OBVIOUS
    <2>3. Cardinality(U(e)) \in Nat
      BY <2>2, KeysFinite
    <2> HIDE DEF U, word
    <2> QED
      BY <2>1, <2>3
  <1>5. /\ A \in SUBSET Index /\ B \in SUBSET Index /\ A \cap B = {} /\ L \in SUBSET Index
        /\ \A j : j \in L <=> j \in A \/ j \in B
    BY <1>1, <1>2
  <1>6. n = Cardinality(A) + Cardinality(B) /\ Cardinality(A) \in Nat /\ Cardinality(B) \in Nat
    <2>1. n = Cardinality(L)
      BY DEF Rank
    <2> HIDE DEF L, A, B, n
    <2> QED
      BY <1>5, <2>1, CountApart
  <1>7. Cardinality(U(own)) = Cardinality(A) + Cardinality(word(own)) /\ Cardinality(word(own)) \in Nat
    <2> DEFINE W == word(own)
               V == U(own)
    <2>1. W \in SUBSET Index /\ A \cap W = {} /\ \A j : j \in V <=> j \in A \/ j \in W
      BY <1>1, <1>2
    <2> HIDE DEF W, V, A
    <2>2. Cardinality(V) = Cardinality(A) + Cardinality(W) /\ Cardinality(W) \in Nat
      BY <1>5, <2>1, CountApart
    <2> QED
      BY <2>2 DEF W, V
  <1>8. Cardinality(B) < Cardinality(word(own)) /\ Rank(k, word(own)) = Cardinality(B)
    <2> DEFINE W == word(own)
    <2>1. W \in SUBSET Index /\ k \in W
      BY DEF own
    <2>2. Rank(k, W) = Cardinality(B)
      BY DEF Rank
    <2> HIDE DEF W, B
    <2>3. Rank(k, W) < Cardinality(W)
      BY <2>1, RanksApart
    <2> QED
      BY <2>2, <2>3 DEF W
  <1>9. ASSUME NEW e \in Nat, e < own PROVE Cardinality(U(e)) <= Cardinality(A)
    <2> DEFINE V == U(e)
    <2>1. V \subseteq A
      BY <1>1, <1>2, <1>9
    <2> HIDE DEF V, A
    <2>2. Cardinality(V) <= Cardinality(A)
      BY <1>5, <2>1, KeysFinite, FS_Subset
    <2> QED
      BY <2>2 DEF V
  <1> HIDE DEF A, B, L, n, upTo, U
  <1>10. own \in sub /\ sub # {} /\ \A e \in sub : e \in Nat /\ own <= e
    <2>1. upTo(own) > n
      BY <1>2, <1>4, <1>6, <1>7, <1>8
    <2>2. ASSUME NEW e \in sub PROVE e \in Nat /\ own <= e
      <3>1. e \in Nat /\ upTo(e) > n
        BY <1>3
      <3>2. ~(e < own)
        BY <1>4, <1>6, <1>9, <3>1
      <3> QED
        BY <1>2, <3>1, <3>2
    <2> QED
      BY <1>2, <2>1, <2>2
  <1>11. Min(sub) = own
    <2> HIDE DEF sub
    <2>1. \A e \in sub : (\A f \in sub : e <= f) => e = own
      BY <1>2, <1>10
    <2> QED
      BY <1>10, <2>1 DEF Min
  <1>12. KeyAtInB1U(K, n) =
            IF sub = {} THEN {}
            ELSE KeyAt(word(Min(sub)), n - (upTo(Min(sub)) - Cardinality(word(Min(sub)))))
    BY DEF KeyAtInB1U, upTo
  <1>13. n - (upTo(own) - Cardinality(word(own))) = Rank(k, word(own))
    BY <1>2, <1>4, <1>6, <1>7, <1>8
  <1>14. KeyAtInB1U(K, n) = KeyAt(word(own), Rank(k, word(own)))
    BY <1>10, <1>11, <1>12, <1>13
  <1>15. KeyAt(word(own), Rank(k, word(own))) = {k}
    <2> DEFINE W == word(own)
    <2>1. W \in SUBSET Index /\ k \in W
      BY DEF own
    <2> HIDE DEF W
    <2>2. \A j \in W : Rank(j, W) = Rank(k, W) => j = k
      BY <2>1, RanksApart
    <2>3. KeyAt(W, Rank(k, W)) = {k}
      BY <2>1, <2>2 DEF KeyAt
    <2> QED
      BY <2>3 DEF W
  <1> QED
    BY <1>14, <1>15 DEF n

\* The key that ByCount comes to is the one with so many before it.
LEMMA ByCountKeyIs ==
    ASSUME NEW t \in [Slots -> JP], Tallied(t), NEW k \in Keys(t)
    PROVE  ByCountKey(t, Rank(k, Keys(t))) = {k}
  <1>1. PICK p \in Level : Reaches(t, k, p) /\ k \in t[Slot(k, p)].keys
    BY DEF Keys, Get
  <1> DEFINE s == Slot(k, p)
             J == t[s]
             K == J.keys
             n == Rank(k, K)
  <1>2. k \in Key /\ s \in Slots /\ s[1] = p /\ K \in SUBSET Index /\ Searchable(t)
    BY IndexKey, KeySlot DEF Tallied, Keys, JP
  <1>3. ByCountEnd(t, Rank(k, Keys(t))) = [slot |-> s, offset |-> n]
    BY <1>1, ByCountEndIs
  <1> HIDE DEF n
  <1>4. ByCountKey(t, Rank(k, Keys(t))) =
            IF J.type = "LEAF_B1U" THEN KeyAtInB1U(K, n) ELSE KeyAt(K, n)
    BY <1>3 DEF ByCountKey
  <1>5. J.type = "LEAF_B1U" => KeyAtInB1U(K, n) = {k}
    <2> SUFFICES ASSUME J.type = "LEAF_B1U" PROVE KeyAtInB1U(K, n) = {k}
      OBVIOUS
    <2>1. p = 1
      BY <1>2 DEF Searchable, Formed, Fits
    <2>2. \A j \in K : Slot(j, 1) = Slot(k, 1)
      BY <1>2, <2>1 DEF Searchable, OwnKeys
    <2> QED
      BY <1>1, <1>2, <2>2, B1UPlace DEF n
  <1>6. KeyAt(K, n) = {k}
    <2>1. \A j \in K : Rank(j, K) = n => j = k
      BY <1>1, <1>2, RanksApart DEF n
    <2> QED
      BY <1>1, <2>1 DEF KeyAt, n
  <1> QED
    BY <1>4, <1>5, <1>6

(***************************************************************************)
(* ByCount walks to the n-th key of the array, for every n up to the       *)
(* population, and to none beyond it: the populations of the branches tell *)
(* it where to turn and the words of a bitmap which bit to take.  Like     *)
(* Count it rests on the counts being told.                                *)
(***************************************************************************)
THEOREM SelectionsTold ==
    ASSUME FailSites \subseteq HandledSites
    PROVE  Spec => []ByCountSelects
  <1>1. Init => CountInv /\ Inhabited(jp)
    BY CountsKept, EmptyInhabited DEF Init
  <1>2. CountInv /\ Inhabited(jp) /\ [Next]_vars => CountInv' /\ Inhabited(jp)'
    BY CountsKept, NextInhabits DEF CountInv, ShapeInv
  <1>3. CountInv /\ Inhabited(jp) => ByCountSelects
    <2> SUFFICES ASSUME CountInv, Inhabited(jp), Callable, NEW n \in 1..(Cardinality(Index) + 1)
                 PROVE  NthKey(n) = {k \in Content : Rank(k, Content) = n - 1}
      BY DEF ByCountSelects
    <2>1. jp \in [Slots -> JP] /\ Tallied(jp) /\ Content = Keys(jp) /\ Pop1 = Cardinality(Content)
      BY CallerFinds
    <2>2. Content \in SUBSET Index /\ n - 1 \in Nat
      <3>1. Cardinality(Index) \in Nat
        BY KeysFinite
      <3> QED
        BY <3>1 DEF Content
    <2>3. CASE n - 1 < Pop1
      <3>1. PICK k \in Content : /\ Rank(k, Content) = n - 1
                                 /\ {j \in Content : Rank(j, Content) = n - 1} = {k}
        BY <2>1, <2>2, <2>3, PlaceTaken
      <3>2. ByCountKey(jp, Rank(k, Keys(jp))) = {k}
        BY <2>1, ByCountKeyIs
      <3> QED
        BY <2>1, <2>3, <3>1, <3>2 DEF NthKey
    <2>4. CASE ~(n - 1 < Pop1)
      <3>1. \A k \in Content : Rank(k, Content) \in Nat /\ Rank(k, Content) < Cardinality(Content)
        BY <2>2, RanksApart
      <3>2. \A k \in Content : Rank(k, Content) # n - 1
        BY <2>1, <2>2, <2>4, <3>1, KeysFinite
      <3> QED
        BY <2>4, <3>2 DEF NthKey
    <2> QED
      BY <2>3, <2>4
  <1> QED
    BY <1>1, <1>2, <1>3, PTL DEF Spec

-----------------------------------------------------------------------------
(* The keys next to a key, and at the ends of its expanse *)

\* k or a key beyond it.
NotBefore(up, k, j) == j = k \/ Beyond(up, k, j)

LEMMA NotBeforeOrder ==
    ASSUME NEW up \in BOOLEAN, NEW a \in Key, NEW b \in Key
    PROVE  /\ NotBefore(up, a, b) <=> ~Beyond(up, b, a)
           /\ \A c \in Key : NotBefore(up, a, b) /\ NotBefore(up, b, c) => NotBefore(up, a, c)
           /\ \A c \in Key : NotBefore(up, a, b) /\ Beyond(up, b, c) => Beyond(up, a, c)
           /\ \A c \in Key : Beyond(up, a, b) /\ NotBefore(up, b, c) => Beyond(up, a, c)
  BY BeyondOrder DEF NotBefore

\* The keys of a slot have no other key between them.
LEMMA Between ==
    ASSUME NEW up \in BOOLEAN, NEW a \in Key, NEW b \in Key, NEW j \in Key, NEW l \in Level,
           Slot(a, l) = Slot(b, l), NotBefore(up, a, j), NotBefore(up, j, b)
    PROVE  Slot(j, l) = Slot(a, l)
  <1> SUFFICES ASSUME Slot(j, l) # Slot(a, l) PROVE FALSE
    OBVIOUS
  <1>1. Beyond(up, a, j) /\ Beyond(up, j, b)
    BY DEF NotBefore
  <1>2. Beyond(up, b, j)
    BY <1>1, SameSide
  <1> QED
    BY <1>1, <1>2, BeyondOrder

\* SMRESTART goes to the last key of the expanse.
LEMMA EdgeIs ==
    ASSUME NEW up \in BOOLEAN, NEW k \in Key, NEW l \in Level
    PROVE  /\ Edge(up, k, l) \in Key /\ Slot(Edge(up, k, l), l) = Slot(k, l)
           /\ \A j \in Key : Slot(j, l) = Slot(k, l) => NotBefore(up, j, Edge(up, k, l))
           /\ \A j \in Key : Slot(j, l) = Slot(k, l) /\ (\A m \in 1..l : j[m] = Limit(up)[m]) =>
                  j = Edge(up, k, l)
  <1> DEFINE e == Edge(up, k, l)
  <1>1. /\ Limit(up) \in Key /\ k \in [Level -> Digit] /\ l \in Nat
        /\ \A m \in Level : Limit(up)[m] = IF up THEN Base - 1 ELSE 0
    BY LimitLast DEF Key, Level, Limit
  <1>2. e \in Key
    BY <1>1 DEF Edge, Key
  <1>3. \A m \in Level : e[m] = IF m <= l THEN Limit(up)[m] ELSE k[m]
    BY DEF Edge
  <1>4. Slot(e, l) = Slot(k, l)
    <2>1. \A m \in (l + 1)..RootLevel : m \in Level /\ ~(m <= l)
      BY <1>1, SizeAssumption DEF Level
    <2>2. \A m \in (l + 1)..RootLevel : e[m] = k[m]
      BY <1>3, <2>1
    <2> HIDE DEF e
    <2> QED
      BY <2>2 DEF Slot
  <1> HIDE DEF e
  <1>5. ASSUME NEW j \in Key, Slot(j, l) = Slot(k, l), j # e
        PROVE  Beyond(up, j, e) /\ \E m \in 1..l : j[m] # e[m]
    <2>1. PICK m \in Level : Slot(j, m) = Slot(e, m) /\ j[m] # e[m]
      BY <1>2, <1>5, Parting
    <2>2. m <= l
      <3> SUFFICES ASSUME m > l PROVE FALSE
        BY <1>1 DEF Level
      <3>1. m >= l
        BY <1>1 DEF Level
      <3> QED
        BY <1>2, <1>4, <1>5, <2>1, <3>1, SlotsAbove
    <2>3. e[m] = IF up THEN Base - 1 ELSE 0
      BY <1>1, <1>3, <2>2
    <2>4. j[m] \in Digit
      BY KeySlot
    <2>5. Past(up, j[m], e[m])
      BY <2>1, <2>3, <2>4, SizeAssumption DEF Past, Digit
    <2>6. m \in 1..l
      BY <1>1, <2>2 DEF Level
    <2> QED
      BY <1>2, <2>1, <2>5, <2>6, BeyondAt
  <1>6. \A j \in Key : Slot(j, l) = Slot(k, l) => NotBefore(up, j, e)
    BY <1>5 DEF NotBefore
  <1>7. ASSUME NEW j \in Key, Slot(j, l) = Slot(k, l), \A m \in 1..l : j[m] = Limit(up)[m]
        PROVE  j = e
    <2>1. \A m \in 1..l : m \in Level /\ m <= l
      BY <1>1, SizeAssumption DEF Level
    <2>2. \A m \in 1..l : j[m] = e[m]
      BY <1>3, <1>7, <2>1
    <2> QED
      BY <1>5, <1>7, <2>2
  <1> QED
    BY <1>2, <1>4, <1>6, <1>7 DEF e

\* A digit is set and those below it cleared, for the first key with that digit.
LEMMA WithDigitIs ==
    ASSUME NEW up \in BOOLEAN, NEW k \in Key, NEW l \in Level, NEW d \in Digit
    PROVE  LET w == WithDigit(up, k, l, d)
           IN  /\ w \in Key /\ Slot(w, l) = Slot(k, l) /\ w[l] = d
               /\ \A j \in Key : Slot(j, l) = Slot(k, l) /\ j[l] = d => NotBefore(up, w, j)
  <1> DEFINE w == WithDigit(up, k, l, d)
  <1>1. /\ k \in [Level -> Digit] /\ l \in Nat
        /\ \A m \in Level : Limit(~up)[m] = (IF up THEN 0 ELSE Base - 1) /\ Limit(~up)[m] \in Digit
    <2>1. CASE up
      BY <2>1, SizeAssumption DEF Key, Level, Digit, Limit
    <2>2. CASE ~up
      BY <2>2, SizeAssumption DEF Key, Level, Digit, Limit
    <2> QED
      BY <2>1, <2>2
  <1>2. w \in Key
    BY <1>1 DEF WithDigit, Key
  <1>3. \A m \in Level : w[m] = IF m = l THEN d ELSE IF m < l THEN Limit(~up)[m] ELSE k[m]
    BY DEF WithDigit
  <1>4. Slot(w, l) = Slot(k, l)
    <2>1. \A m \in (l + 1)..RootLevel : m \in Level /\ ~(m <= l) /\ m # l /\ ~(m < l)
      BY <1>1, SizeAssumption DEF Level
    <2>2. \A m \in (l + 1)..RootLevel : w[m] = k[m]
      BY <1>3, <2>1
    <2> HIDE DEF w
    <2> QED
      BY <2>2 DEF Slot
  <1> HIDE DEF w
  <1>5. w[l] = d
    BY <1>3
  <1>6. ASSUME NEW j \in Key, Slot(j, l) = Slot(k, l), j[l] = d, j # w
        PROVE  Beyond(up, w, j)
    <2>1. PICK m \in Level : Slot(w, m) = Slot(j, m) /\ w[m] # j[m]
      BY <1>2, <1>6, Parting
    <2>2. m < l
      <3> SUFFICES ASSUME ~(m < l) PROVE FALSE
        OBVIOUS
      <3>1. m >= l /\ (m = l \/ m > l)
        BY <1>1 DEF Level
      <3> QED
        BY <1>2, <1>4, <1>5, <1>6, <2>1, <3>1, SlotsAbove
    <2>3. w[m] = IF up THEN 0 ELSE Base - 1
      BY <1>1, <1>3, <2>2 DEF Level
    <2>4. j[m] \in Digit
      BY KeySlot
    <2>5. Past(up, w[m], j[m])
      BY <2>1, <2>3, <2>4, SizeAssumption DEF Past, Digit
    <2> QED
      BY <1>2, <2>1, <2>5, BeyondAt
  <1>7. \A j \in Key : Slot(j, l) = Slot(k, l) /\ j[l] = d => NotBefore(up, w, j)
    BY <1>6 DEF NotBefore
  <1> QED
    BY <1>2, <1>4, <1>5, <1>7 DEF w

-----------------------------------------------------------------------------
(* The cases of the search for an absent key *)

\* How a case of the search at level l ends for key k: with a key that is not there, in
\* a JP one level down, or past a key.
Leads(up, t, k, l, o) ==
    /\ o.at \in Key /\ NotBefore(up, k, o.at)
    /\ \/ o.to = "found" /\ o.at \notin Keys(t)
       \/ o.to = "into" /\ l > 1 /\ t[Slot(o.at, l - 1)].type \notin {"NULL", "FULLPOPU1"}
       \/ o.to = "restart"

\* The keys it has passed are all there.
Skips(up, t, k, o) ==
    \A j \in Key :
        NotBefore(up, k, j) /\ (Beyond(up, j, o.at) \/ (o.to = "restart" /\ j = o.at)) => j \in Keys(t)

\* The type that says so is taken for full.
Known(t, F) == \A s \in Slots : t[s].type = "FULLPOPU1" => s \in F

\* What is taken for full is.
Truly(t, F) == \A s \in F : \A j \in Key : Slot(j, s[1]) = s => j \in Keys(t)

\* A case that stays with its key has passed none.
LEMMA StaysSkips ==
    ASSUME NEW up \in BOOLEAN, NEW t, NEW k \in Key, NEW o, o.to # "restart", o.at = k
    PROVE  NotBefore(up, k, o.at) /\ Skips(up, t, k, o)
  BY BeyondOrder DEF Skips, NotBefore

\* A digit without a JP has no keys.
LEMMA NoChild ==
    ASSUME NEW t \in [Slots -> JP], Searchable(t), NEW j \in Key, NEW l \in Level,
           t[Slot(j, l)].type \in Branch, j[l] \notin Occupied(t, Slot(j, l))
    PROVE  j \notin Keys(t)
  <1> SUFFICES ASSUME j \in Keys(t) PROVE FALSE
    OBVIOUS
  <1>1. Slot(j, l) \in Slots /\ Slot(j, l)[1] = l
    BY KeySlot
  <1>2. j \in Below(t, Slot(j, l))
    BY <1>1 DEF Keys, Below
  <1> QED
    BY <1>1, <1>2, BelowOccupied

\* The cases of the three branches in one.
EmptyInBranch(up, t, F, k, l) ==
    LET s == Slot(k, l)
        D == Occupied(t, s)
        stops == {d \in Digit : d \in D => Child(s, d) \notin F}
    IN  IF k[l] \notin D THEN Found(k)
        ELSE IF Child(s, k[l]) \notin F THEN Into(k)
        ELSE PastFull(up, k, l, D, FirstStop(up, stops, k[l]))

LEMMA BranchEmpty ==
    ASSUME NEW up \in BOOLEAN, NEW t \in [Slots -> JP], NEW F, NEW k \in Key, NEW l \in Level,
           t[Slot(k, l)].type \in Branch
    PROVE  EmptyAt(up, t, F, k, l) = EmptyInBranch(up, t, F, k, l)
  <1> DEFINE s == Slot(k, l)
             D == Occupied(t, s)
             stops == {d \in Digit : d \in D => Child(s, d) \notin F}
  <1>1. k[l] \in Digit /\ s \in Slots
    BY KeySlot
  <1>2. NearestBit(up, stops, k[l], SUBEXP_B) = FirstStop(up, stops, k[l])
    <2>1. stops \in SUBSET Digit
      OBVIOUS
    <2> HIDE DEF stops
    <2> QED
      BY <1>1, <2>1, NearestBitIs, MaxAssumption DEF FirstStop
  <1>3. CASE t[s].type = "BRANCH_L"
    <2>1. D = t[s].exp
      BY <1>3 DEF Occupied
    <2>2. EmptyAt(up, t, F, k, l) = EmptyInL(up, t, F, k, l)
      BY <1>3 DEF EmptyAt
    <2> HIDE DEF s
    <2> QED
      BY <2>1, <2>2 DEF EmptyInL, EmptyInBranch, s
  <1>4. CASE t[s].type = "BRANCH_B"
    <2>1. D = t[s].exp
      BY <1>4 DEF Occupied
    <2>2. EmptyAt(up, t, F, k, l) = EmptyInB(up, t, F, k, l)
      BY <1>4 DEF EmptyAt
    <2> HIDE DEF s
    <2> QED
      BY <1>2, <2>1, <2>2 DEF EmptyInB, EmptyInBranch, s
  <1>5. CASE t[s].type = "BRANCH_U"
    <2>1. D = {d \in Digit : t[Child(s, d)].type # "NULL"}
      BY <1>5 DEF Occupied
    <2>2. EmptyAt(up, t, F, k, l) = EmptyInU(up, t, F, k, l)
      BY <1>5 DEF EmptyAt
    <2> HIDE DEF s
    <2> QED
      BY <2>1, <2>2 DEF EmptyInU, EmptyInBranch, s
  <1> QED
    BY <1>3, <1>4, <1>5 DEF Branch

\* A branch leads on past what is full.
LEMMA BranchLeads ==
    ASSUME NEW up \in BOOLEAN, NEW t \in [Slots -> JP], Searchable(t), NEW F, Known(t, F),
           NEW k \in Key, NEW l \in Level, t[Slot(k, l)].type \in Branch
    PROVE  LET o == EmptyAt(up, t, F, k, l)
           IN  Leads(up, t, k, l, o) /\ (Truly(t, F) => Skips(up, t, k, o))
  <1> DEFINE s == Slot(k, l)
             D == Occupied(t, s)
             stops == {d \in Digit : d \in D => Child(s, d) \notin F}
             A == Ahead(up, stops, k[l])
             o == EmptyAt(up, t, F, k, l)
  <1>1. s \in Slots /\ s[1] = l /\ k[l] \in Digit
    BY KeySlot
  <1>2. /\ l > 1 /\ D \in SUBSET Digit
        /\ \A d \in D : t[Child(s, d)].type # "NULL"
    BY <1>1, OccupiedIs
  <1>3. o = EmptyInBranch(up, t, F, k, l)
    BY BranchEmpty
  <1>4. \A j \in Key : Slot(j, l) = s => j[l] \in Digit /\ Slot(j, l - 1) = Child(s, j[l])
    BY <1>1, <1>2, KeySlot, ChildOf
  <1>5. CASE k[l] \notin D
    <2>1. o = Found(k)
      BY <1>3, <1>5 DEF EmptyInBranch
    <2>2. k \notin Keys(t)
      BY <1>5, NoChild
    <2> QED
      BY <2>1, <2>2, StaysSkips DEF Leads, Found
  <1>6. CASE k[l] \in D /\ Child(s, k[l]) \notin F
    <2>1. o = Into(k)
      BY <1>3, <1>6 DEF EmptyInBranch
    <2>2. t[Slot(k, l - 1)].type \notin {"NULL", "FULLPOPU1"}
      BY <1>1, <1>2, <1>4, <1>6, OccupiedIs DEF Known
    <2> QED
      BY <1>2, <2>1, <2>2, StaysSkips DEF Leads, Into
  <1>7. CASE k[l] \in D /\ Child(s, k[l]) \in F
    <2>1. o = PastFull(up, k, l, D, FirstStop(up, stops, k[l]))
      BY <1>3, <1>7 DEF EmptyInBranch
    <2>2. \A d : d \in A <=> d \in stops /\ Past(up, k[l], d)
      BY DEF Ahead, Past
    \* The keys from k on with a digit where the search does not stop.
    <2>3. ASSUME Truly(t, F), NEW j \in Key, Slot(j, l) = s, NotBefore(up, k, j), j[l] \notin A
          PROVE  j \in Keys(t)
      <3>1. j[l] = k[l] \/ Past(up, k[l], j[l])
        <4>1. j[l] # k[l] => Beyond(up, k, j)
          BY <2>3 DEF NotBefore
        <4> QED
          BY <2>3, <4>1, BeyondAt
      <3>2. j[l] \in D /\ Child(s, j[l]) \in F
        BY <1>4, <1>7, <2>2, <2>3, <3>1
      <3>3. Child(s, j[l])[1] = l - 1 /\ Slot(j, l - 1) = Child(s, j[l])
        BY <1>1, <1>2, <1>4, <2>3, ChildOf
      <3> QED
        BY <2>3, <3>2, <3>3 DEF Truly
    <2>4. CASE A = {}
      <3> DEFINE e == Edge(up, k, l)
      <3>1. o = Restart(e)
        BY <2>1, <2>4 DEF PastFull, FirstStop
      <3>2. e \in Key /\ Slot(e, l) = s /\ NotBefore(up, k, e)
        BY EdgeIs
      <3> HIDE DEF e
      <3>3. Leads(up, t, k, l, o)
        BY <3>1, <3>2 DEF Leads, Restart
      <3>4. ASSUME Truly(t, F), NEW j \in Key, NotBefore(up, k, j), NotBefore(up, j, e)
            PROVE  j \in Keys(t)
        <4>1. Slot(j, l) = s
          BY <3>2, <3>4, Between
        <4> QED
          BY <2>3, <2>4, <3>4, <4>1
      <3>5. Truly(t, F) => Skips(up, t, k, o)
        BY <3>1, <3>4 DEF Skips, Restart, NotBefore
      <3> QED
        BY <3>3, <3>5
    <2>5. CASE A # {}
      <3> DEFINE d == Nearest(up, A)
                 w == WithDigit(up, k, l, d)
      <3>1. A \in SUBSET Nat /\ IsFiniteSet(A) /\ A \subseteq stops
        <4>1. A \in SUBSET Digit
          BY <2>2
        <4> QED
          BY <2>2, <4>1, DigitsFinite, SizeAssumption DEF Digit
      <3>2. d \in A /\ \A e \in A : e = d \/ Past(up, d, e)
        BY <2>5, <3>1, NearestIs
      <3>3. FirstStop(up, stops, k[l]) = {d}
        BY <2>5 DEF FirstStop
      <3> HIDE DEF d
      <3>4. d \in Nat /\ d \in Digit /\ d \in stops /\ Past(up, k[l], d)
        BY <2>2, <3>1, <3>2
      <3>5. Nearest(up, {d}) = d
        <4>1. {d} \in SUBSET Nat /\ {d} # {} /\ IsFiniteSet({d})
          BY <3>4, FS_Singleton
        <4>2. Nearest(up, {d}) \in {d}
          BY <4>1, NearestIs
        <4> QED
          BY <4>2
      <3>6. w \in Key /\ Slot(w, l) = s /\ w[l] = d
            /\ \A j \in Key : Slot(j, l) = s /\ j[l] = d => NotBefore(up, w, j)
        BY <3>4, WithDigitIs
      <3> HIDE DEF w
      <3>7. o = IF d \in D THEN Into(w) ELSE Found(w)
        <4>1. CASE d \in D
          BY <2>1, <3>3, <3>5, <4>1 DEF PastFull, w
        <4>2. CASE d \notin D
          BY <2>1, <3>3, <3>5, <4>2 DEF PastFull, w
        <4> QED
          BY <4>1, <4>2
      <3>8. Beyond(up, k, w) /\ NotBefore(up, k, w)
        <4>1. k[l] # w[l]
          BY <1>1, <3>4, <3>6 DEF Past, Digit
        <4> QED
          BY <3>4, <3>6, <4>1, BeyondAt DEF NotBefore
      <3>9. Leads(up, t, k, l, o)
        <4>1. CASE d \in D
          <5>1. t[Slot(w, l - 1)].type \notin {"NULL", "FULLPOPU1"}
            BY <1>1, <1>2, <1>4, <3>4, <3>6, <4>1, OccupiedIs DEF Known
          <5> QED
            BY <1>2, <3>6, <3>7, <3>8, <4>1, <5>1 DEF Leads, Into
        <4>2. CASE d \notin D
          <5>1. w \notin Keys(t)
            BY <3>6, <4>2, NoChild
          <5> QED
            BY <3>6, <3>7, <3>8, <4>2, <5>1 DEF Leads, Found
        <4> QED
          BY <4>1, <4>2
      <3>10. ASSUME Truly(t, F), NEW j \in Key, NotBefore(up, k, j), Beyond(up, j, w)
             PROVE  j \in Keys(t)
        <4>1. Slot(j, l) = s
          BY <3>6, <3>10, Between DEF NotBefore
        <4>2. j[l] # d
          BY <3>6, <3>10, <4>1, BeyondOrder DEF NotBefore
        <4>3. ~Past(up, d, j[l])
          <5>1. Past(up, d, j[l]) => Beyond(up, w, j)
            BY <3>6, <4>1, <4>2, BeyondAt
          <5> QED
            BY <3>6, <3>10, <5>1, BeyondOrder
        <4>4. j[l] \notin A
          BY <3>2, <4>2, <4>3
        <4> QED
          BY <2>3, <3>10, <4>1, <4>4
      <3>11. o.at = w /\ o.to # "restart"
        BY <3>7 DEF Into, Found
      <3> QED
        BY <3>9, <3>10, <3>11 DEF Skips
    <2> QED
      BY <2>4, <2>5
  <1> QED
    BY <1>5, <1>6, <1>7

\* There is a last key in either direction.
LEMMA LastKey ==
    ASSUME NEW up \in BOOLEAN, NEW K \in SUBSET Index, K # {}
    PROVE  \E x \in K : \A j \in K : j = x \/ Beyond(up, j, x)
  <1>1. CASE up
    <2>1. IsFirst(FALSE, K, NearestKey(FALSE, K))
      BY FirstKey
    <2> QED
      BY <1>1, <2>1 DEF IsFirst, Beyond
  <1>2. CASE ~up
    <2>1. IsFirst(TRUE, K, NearestKey(TRUE, K))
      BY FirstKey
    <2> QED
      BY <1>2, <2>1 DEF IsFirst, Beyond
  <1> QED
    BY <1>1, <1>2

\* The run of keys from k on ends where the next key is missing, and not before.
LEMMA RunEndIs ==
    ASSUME NEW up \in BOOLEAN, NEW K \in SUBSET Index, NEW k \in K
    PROVE  LET e == RunEnd(up, K, k)
           IN  /\ e \in K /\ e \in Key /\ NotBefore(up, k, e)
               /\ e = Limit(up) \/ Step(up, e) \notin K
               /\ \A j \in Key : NotBefore(up, k, j) /\ NotBefore(up, j, e) => j \in K
  <1> DEFINE R == {e \in K : ~Beyond(up, e, k) /\ (e = Limit(up) \/ Step(up, e) \notin K)}
             e == RunEnd(up, K, k)
  <1>1. K \subseteq Key /\ k \in Key
    BY IndexKey
  <1>2. PICK x \in K : \A j \in K : j = x \/ Beyond(up, j, x)
    BY LastKey
  <1>3. x \in R
    <2>1. ~Beyond(up, x, k)
      BY <1>1, <1>2, BeyondOrder
    <2>2. ASSUME x # Limit(up), Step(up, x) \in K PROVE FALSE
      <3>1. Beyond(up, x, Step(up, x))
        BY <1>1, <2>2, StepNext
      <3>2. Step(up, x) = x \/ Beyond(up, Step(up, x), x)
        BY <1>2, <2>2
      <3> QED
        BY <1>1, <2>2, <3>1, <3>2, BeyondOrder
    <2> QED
      BY <2>1, <2>2
  <1>4. IsFirst(up, R, e)
    <2>1. R \in SUBSET Index /\ R # {}
      BY <1>3
    <2>2. e = NearestKey(up, R)
      BY DEF RunEnd
    <2> HIDE DEF R, e
    <2> QED
      BY <2>1, <2>2, FirstKey
  <1>5. e \in R
    BY <1>4 DEF IsFirst
  <1> HIDE DEF e
  <1>6. NotBefore(up, k, e)
    BY <1>1, <1>5, BeyondOrder DEF NotBefore
  <1>7. ASSUME NEW j \in Key, NotBefore(up, k, j), NotBefore(up, j, e), j \notin K PROVE FALSE
    <2> DEFINE A == {i \in K : Beyond(up, i, j)}
    <2>1. k \in A
      BY <1>7 DEF NotBefore
    <2>2. PICK y \in A : \A i \in A : i = y \/ Beyond(up, i, y)
      <3>1. A \in SUBSET Index /\ A # {}
        BY <2>1
      <3> HIDE DEF A
      <3> QED
        BY <3>1, LastKey
    <2>3. y \in Key /\ y \in K /\ Beyond(up, y, j)
      BY <1>1, <2>2
    <2>4. y # Limit(up)
      BY <1>7, <2>3, LimitLast
    <2>5. Step(up, y) \notin K
      <3> SUFFICES ASSUME Step(up, y) \in K PROVE FALSE
        OBVIOUS
      <3>1. Step(up, y) = j \/ Beyond(up, Step(up, y), j)
        BY <1>7, <2>3, <2>4, StepNext
      <3>2. Step(up, y) \in A
        BY <1>7, <3>1
      <3>3. Beyond(up, y, Step(up, y))
        BY <1>1, <2>3, <2>4, StepNext
      <3>4. Step(up, y) = y \/ Beyond(up, Step(up, y), y)
        BY <2>2, <3>2
      <3> QED
        BY <1>1, <2>3, <3>3, <3>4, BeyondOrder
    <2>6. y \in R
      <3>1. ~Beyond(up, y, k)
        BY <1>1, <2>1, <2>2, <2>3, BeyondOrder
      <3> QED
        BY <2>3, <2>5, <3>1
    <2>7. e = y \/ Beyond(up, e, y)
      BY <1>4, <2>6 DEF IsFirst
    <2>8. Beyond(up, y, e)
      BY <1>1, <1>5, <1>7, <2>3, NotBeforeOrder
    <2> QED
      BY <1>1, <1>5, <2>3, <2>7, <2>8, BeyondOrder
  <1> QED
    BY <1>1, <1>5, <1>6, <1>7 DEF e

\* LEAF_EDGE sees that e, of w stored digits, is the last key of its expanse, or need
\* not see it: the key after it is no caller's.
SeenAt(up, e, l, w) ==
    (\A m \in 1..l : e[m] = Limit(up)[m]) =>
        (\A m \in (l + 1)..w : e[m] = 0) \/ (e # Limit(up) /\ Step(up, e) \notin Index)

\* Then its answer is not there, or it goes on past the expanse.
LEMMA LeafEdgeIs ==
    ASSUME NEW up \in BOOLEAN, NEW e \in Key, NEW l \in Level, NEW w \in Level, w >= l,
           SeenAt(up, e, l, w)
    PROVE  LET o == LeafEdge(up, e, l, w)
           IN  \/ o = Restart(e) /\ e = Edge(up, e, l)
               \/ /\ o = Found(Step(up, e)) /\ e # Limit(up) /\ Step(up, e) \in Key
                  /\ Slot(Step(up, e), l) = Slot(e, l) \/ Step(up, e) \notin Index
  <1> DEFINE C == \A m \in 1..w : e[m] = (IF m <= l THEN Limit(up)[m] ELSE 0)
  <1>1. l \in Nat /\ w \in Nat
    BY DEF Level
  <1>2. C => \A m \in 1..l : e[m] = Limit(up)[m]
    <2> SUFFICES ASSUME C, NEW m \in 1..l PROVE e[m] = Limit(up)[m]
      OBVIOUS
    <2>1. m \in 1..w /\ m <= l
      BY <1>1
    <2> QED
      BY <2>1
  <1>3. CASE C
    <2>1. e = Edge(up, e, l)
      BY <1>2, <1>3, EdgeIs
    <2> QED
      BY <1>3, <2>1 DEF LeafEdge
  <1>4. CASE ~C /\ ~\A m \in 1..l : e[m] = Limit(up)[m]
    <2>1. e # Limit(up)
      BY <1>4
    <2>2. e # Edge(up, e, l)
      <3>1. \A m \in 1..l : m \in Level /\ m <= l
        BY <1>1, SizeAssumption DEF Level
      <3>2. \A m \in 1..l : Edge(up, e, l)[m] = Limit(up)[m]
        BY <3>1 DEF Edge
      <3> QED
        BY <1>4, <3>2
    <2>3. Step(up, e) \in Key /\ Beyond(up, e, Step(up, e))
      BY <2>1, StepIs, StepNext
    <2>4. NotBefore(up, Step(up, e), Edge(up, e, l))
      <3>1. Edge(up, e, l) \in Key /\ NotBefore(up, e, Edge(up, e, l))
        BY EdgeIs
      <3> QED
        BY <2>1, <2>2, <3>1, StepNext DEF NotBefore
    <2>5. Slot(Step(up, e), l) = Slot(e, l)
      <3>1. NotBefore(up, e, Step(up, e))
        BY <2>3 DEF NotBefore
      <3> QED
        BY <2>3, <2>4, <3>1, EdgeIs, Between
    <2>6. LeafEdge(up, e, l, w) = Found(Step(up, e))
      BY <1>4 DEF LeafEdge
    <2> QED
      BY <2>1, <2>3, <2>5, <2>6
  <1>5. CASE ~C /\ \A m \in 1..l : e[m] = Limit(up)[m]
    <2>1. e # Limit(up) /\ Step(up, e) \notin Index
      <3>1. ASSUME \A m \in (l + 1)..w : e[m] = 0 PROVE C
        <4> SUFFICES ASSUME NEW m \in 1..w PROVE e[m] = (IF m <= l THEN Limit(up)[m] ELSE 0)
          OBVIOUS
        <4>1. (m \in 1..l /\ m <= l) \/ (m \in (l + 1)..w /\ ~(m <= l))
          BY <1>1
        <4> QED
          BY <1>5, <3>1, <4>1
      <3> QED
        BY <1>5, <3>1 DEF SeenAt
    <2>2. Step(up, e) \in Key
      BY <2>1, StepIs
    <2>3. LeafEdge(up, e, l, w) = Found(Step(up, e))
      BY <1>5 DEF LeafEdge
    <2> QED
      BY <2>1, <2>2, <2>3
  <1> QED
    BY <1>3, <1>4, <1>5

\* What is below a slot that is no branch.
LEMMA LeafKeys ==
    ASSUME NEW t \in [Slots -> JP], Searchable(t), NEW k \in Key, NEW l \in Level,
           t[Slot(k, l)].type \notin Branch \cup {"NULL"}
    PROVE  LET K == t[Slot(k, l)].keys
           IN  /\ K \in SUBSET Index
               /\ \A j \in K : j \in Key /\ Slot(j, l) = Slot(k, l)
               /\ \A j \in Key : Slot(j, l) = Slot(k, l) => (j \in Keys(t) <=> j \in K)
  <1> DEFINE s == Slot(k, l)
             K == t[s].keys
  <1>1. s \in Slots /\ s[1] = l
    BY KeySlot
  <1>2. K \in SUBSET Index /\ \A j \in K : j \in Key /\ Slot(j, l) = s
    BY <1>1, IndexKey DEF Searchable, OwnKeys, JP
  <1>3. Below(t, s) = K
    <2>1. Reaches(t, k, l)
      BY DEF Searchable, Formed, Rooted
    <2> QED
      BY <2>1, OwnBelow DEF Searchable
  <1>4. \A j \in Key : Slot(j, l) = s => (j \in Keys(t) <=> j \in K)
    BY <1>1, <1>3 DEF Below, Keys
  <1> QED
    BY <1>2, <1>4

\* A leaf leads past its keys that follow one another, or past its expanse.
LEMMA LeafLeads ==
    ASSUME NEW up \in BOOLEAN, NEW t \in [Slots -> JP], Searchable(t), NEW k \in Key,
           NEW l \in Level, t[Slot(k, l)].type \notin Branch \cup {"NULL"},
           NEW w \in Level, w >= l,
           \A j \in t[Slot(k, l)].keys : SeenAt(up, j, l, w)
    PROVE  LET o == JSLE(up, t[Slot(k, l)].keys, k, l, w)
           IN  Leads(up, t, k, l, o) /\ o.to # "into" /\ Skips(up, t, k, o)
  <1> DEFINE s == Slot(k, l)
             K == t[s].keys
             e == RunEnd(up, K, k)
             n == Step(up, e)
             o == JSLE(up, K, k, l, w)
  <1> SUFFICES Leads(up, t, k, l, o) /\ o.to # "into" /\ Skips(up, t, k, o)
    OBVIOUS
  <1>1. /\ K \in SUBSET Index
        /\ \A j \in K : j \in Key /\ Slot(j, l) = s
        /\ \A j \in Key : Slot(j, l) = s => (j \in Keys(t) <=> j \in K)
    BY LeafKeys
  <1>2. CASE k \notin K
    <2>1. o = Found(k)
      BY <1>2 DEF JSLE, LeafHole
    <2> HIDE DEF o
    <2> QED
      BY <1>1, <1>2, <2>1, StaysSkips DEF Leads, Found
  <1>3. CASE k \in K
    <2>1. /\ e \in K /\ e \in Key /\ NotBefore(up, k, e)
          /\ e = Limit(up) \/ n \notin K
          /\ \A j \in Key : NotBefore(up, k, j) /\ NotBefore(up, j, e) => j \in K
      BY <1>1, <1>3, RunEndIs
    <2>2. o = LeafEdge(up, e, l, w) \/ (o = Found(n) /\ \E j \in K : Beyond(up, e, j))
      <3>1. CASE {j \in K : Beyond(up, e, j)} = {}
        BY <1>3, <3>1 DEF JSLE
      <3>2. CASE {j \in K : Beyond(up, e, j)} # {}
        <4>1. o = Found(n)
          BY <1>3, <3>2 DEF JSLE, LeafHole
        <4> HIDE DEF e, o
        <4> QED
          BY <3>2, <4>1
      <3> QED
        BY <3>1, <3>2
    <2>3. LeafEdge(up, e, l, w) = Restart(e) \/
            (LeafEdge(up, e, l, w) = Found(n) /\ e # Limit(up) /\ n \in Key
                /\ (Slot(n, l) = s \/ n \notin Index))
      <3>1. e \in Key /\ Slot(e, l) = s /\ SeenAt(up, e, l, w)
        BY <1>1, <2>1
      <3> HIDE DEF e
      <3> QED
        BY <3>1, LeafEdgeIs
    <2> HIDE DEF e, o
    <2>4. CASE o = Restart(e)
      <3>1. Leads(up, t, k, l, o)
        BY <2>1, <2>4 DEF Leads, Restart
      <3>2. ASSUME NEW j \in Key, NotBefore(up, k, j), NotBefore(up, j, e) PROVE j \in Keys(t)
        BY <1>1, <2>1, <3>2
      <3>3. Skips(up, t, k, o)
        BY <2>4, <3>2 DEF Skips, Restart, NotBefore
      <3> QED
        BY <2>4, <3>1, <3>3 DEF Restart
    <2>5. CASE o = Found(n) /\ e # Limit(up) /\ n \in Key /\ (Slot(n, l) = s \/ n \notin Index)
      <3>1. Beyond(up, e, n) /\ n \notin Keys(t)
        <4>1. n \notin Index => n \notin Keys(t)
          BY DEF Keys
        <4> QED
          BY <1>1, <2>1, <2>5, <4>1, StepNext
      <3>2. NotBefore(up, k, n)
        BY <2>1, <2>5, <3>1, NotBeforeOrder DEF NotBefore
      <3>3. Leads(up, t, k, l, o)
        BY <2>5, <3>1, <3>2 DEF Leads, Found
      <3>4. ASSUME NEW j \in Key, NotBefore(up, k, j), Beyond(up, j, n) PROVE j \in Keys(t)
        <4>1. ~Beyond(up, e, j)
          BY <2>1, <2>5, <3>4, StepNext, BeyondOrder
        <4>2. NotBefore(up, j, e)
          BY <2>1, <4>1, NotBeforeOrder
        <4> QED
          BY <1>1, <2>1, <3>4, <4>2
      <3>5. Skips(up, t, k, o)
        BY <2>5, <3>4 DEF Skips, Found
      <3> QED
        BY <2>5, <3>3, <3>5 DEF Found
    <2>6. CASE o = Found(n) /\ \E j \in K : Beyond(up, e, j)
      <3>1. PICK j \in K : Beyond(up, e, j)
        BY <2>6
      <3>2. j \in Key /\ Slot(j, l) = s /\ Slot(e, l) = s
        BY <1>1, <2>1, <3>1
      <3>3. e # Limit(up)
        BY <3>1, <3>2, LimitLast
      <3>4. n \in Key /\ Beyond(up, e, n) /\ NotBefore(up, n, j)
        BY <2>1, <3>1, <3>2, <3>3, StepIs, StepNext DEF NotBefore
      <3>5. Slot(n, l) = s
        <4>1. NotBefore(up, e, n)
          BY <3>4 DEF NotBefore
        <4> HIDE DEF n, s
        <4> QED
          BY <2>1, <3>2, <3>4, <4>1, Between
      <3> QED
        BY <2>5, <2>6, <3>3, <3>4, <3>5
    <2> QED
      BY <2>2, <2>3, <2>4, <2>5, <2>6
  <1> QED
    BY <1>2, <1>3

\* An immediate of one key is a leaf with one.
LEMMA Immed01Empty ==
    ASSUME NEW up \in BOOLEAN, NEW K \in SUBSET Index, Cardinality(K) = 1, NEW k \in Key,
           NEW l \in Level
    PROVE  EmptyInImmed01(up, K, k, l) = JSLE(up, K, k, l, l)
  <1>1. CASE k \notin K
    BY <1>1 DEF EmptyInImmed01, JSLE, LeafHole
  <1>2. CASE k \in K
    <2>1. \A j \in K : j = k
      <3>1. PICK x : K = {x}
        BY KeysFinite, FS_Singleton
      <3> QED
        BY <1>2, <3>1
    <2>2. RunEnd(up, K, k) = k
      BY <1>2, <2>1, RunEndIs
    <2>3. {j \in K : Beyond(up, k, j)} = {}
      BY <2>1, BeyondOrder
    <2> QED
      BY <1>2, <2>2, <2>3 DEF EmptyInImmed01, JSLE
  <1> QED
    BY <1>1, <1>2

\* A bitmap leaf leads to its first bit that is not set, or past its expanse.
LEMMA BitmapLeads ==
    ASSUME NEW up \in BOOLEAN, NEW t \in [Slots -> JP], Searchable(t), NEW k \in Key,
           t[Slot(k, 1)].type \notin Branch \cup {"NULL"}
    PROVE  LET o == EmptyInB1U(up, t, k)
           IN  Leads(up, t, k, 1, o) /\ Skips(up, t, k, o)
  <1> DEFINE s == Slot(k, 1)
             K == t[s].keys
             D == {j[1] : j \in K}
             H == Digit \ D
             A == Ahead(up, H, k[1])
             E == NearestBit(up, H, k[1], SUBEXP_L)
             o == EmptyInB1U(up, t, k)
  <1> SUFFICES Leads(up, t, k, 1, o) /\ Skips(up, t, k, o)
    OBVIOUS
  <1>0. 1 \in Level
    BY SizeAssumption DEF Level
  <1>1. /\ K \in SUBSET Index
        /\ \A j \in K : j \in Key /\ Slot(j, 1) = s
        /\ \A j \in Key : Slot(j, 1) = s => (j \in Keys(t) <=> j \in K)
    BY <1>0, LeafKeys
  <1>2. k[1] \in Digit /\ \A j \in Key : j[1] \in Digit
    BY <1>0, KeySlot
  <1>3. \A j \in Key : Slot(j, 1) = s => (j \in Keys(t) <=> j[1] \in D)
    <2> SUFFICES ASSUME NEW j \in Key, Slot(j, 1) = s, NEW i \in K, i[1] = j[1] PROVE j \in K
      BY <1>1
    <2>1. i = j
      BY <1>1, SlotsBottom
    <2> QED
      BY <2>1
  <1>4. E = IF A = {} THEN {} ELSE {Nearest(up, A)}
    <2>1. H \in SUBSET Digit
      OBVIOUS
    <2> HIDE DEF H
    <2> QED
      BY <1>2, <2>1, NearestBitIs, SubExpAssumption
  <1>5. \A d : d \in A <=> d \in Digit /\ d \notin D /\ Past(up, k[1], d)
    BY DEF Ahead, Past
  <1>6. /\ k[1] \notin D => o = Found(k)
        /\ k[1] \in D /\ E # {} => o = Found([k EXCEPT ![1] = Nearest(up, E)])
        /\ k[1] \in D /\ E = {} => o = Restart(Edge(up, k, 1))
    <2>1. o = CASE k[1] \notin D -> Found(k)
                [] k[1] \in D /\ E # {} -> Found([k EXCEPT ![1] = Nearest(up, E)])
                [] OTHER -> Restart(Edge(up, k, 1))
      BY DEF EmptyInB1U
    <2> HIDE DEF o, D, E
    <2> QED
      BY <2>1
  \* The keys from k on with a bit that is set.
  <1>7. ASSUME NEW j \in Key, Slot(j, 1) = s, NotBefore(up, k, j), j[1] \notin A, k[1] \in D
        PROVE  j \in Keys(t)
    <2>1. j[1] = k[1] \/ Past(up, k[1], j[1])
      <3>1. j[1] # k[1] => Beyond(up, k, j)
        BY <1>7 DEF NotBefore
      <3> QED
        BY <1>0, <1>7, <3>1, BeyondAt
    <2>2. j[1] \in D
      BY <1>2, <1>5, <1>7, <2>1
    <2> HIDE DEF D
    <2> QED
      BY <1>3, <1>7, <2>2
  <1> HIDE DEF o, D
  <1>8. CASE k[1] \notin D
    BY <1>3, <1>6, <1>8, StaysSkips DEF Leads, Found
  <1>9. CASE k[1] \in D /\ A = {}
    <2> DEFINE e == Edge(up, k, 1)
    <2>1. o = Restart(e)
      BY <1>4, <1>6, <1>9
    <2>2. e \in Key /\ Slot(e, 1) = s /\ NotBefore(up, k, e)
      BY <1>0, EdgeIs
    <2> HIDE DEF e
    <2>3. Leads(up, t, k, 1, o)
      BY <2>1, <2>2 DEF Leads, Restart
    <2>4. ASSUME NEW j \in Key, NotBefore(up, k, j), NotBefore(up, j, e)
          PROVE  j \in Keys(t)
      <3>1. Slot(j, 1) = s
        BY <1>0, <2>2, <2>4, Between
      <3> QED
        BY <1>7, <1>9, <2>4, <3>1
    <2>5. Skips(up, t, k, o)
      BY <2>1, <2>4 DEF Skips, Restart, NotBefore
    <2> QED
      BY <2>3, <2>5
  <1>10. CASE k[1] \in D /\ A # {}
    <2> DEFINE d == Nearest(up, A)
               n == [k EXCEPT ![1] = d]
    <2>1. A \in SUBSET Nat /\ IsFiniteSet(A)
      <3>1. A \in SUBSET Digit
        BY <1>5
      <3> QED
        BY <3>1, DigitsFinite, SizeAssumption DEF Digit
    <2>2. d \in A /\ \A x \in A : x = d \/ Past(up, d, x)
      BY <1>10, <2>1, NearestIs
    <2>3. E = {d} /\ E # {}
      BY <1>4, <1>10
    <2> HIDE DEF d
    <2>4. d \in Nat /\ d \in Digit /\ d \notin D /\ Past(up, k[1], d)
      BY <1>5, <2>1, <2>2
    <2>5. Nearest(up, {d}) = d
      <3>1. {d} \in SUBSET Nat /\ {d} # {} /\ IsFiniteSet({d})
        BY <2>4, FS_Singleton
      <3>2. Nearest(up, {d}) \in {d}
        BY <3>1, NearestIs
      <3> QED
        BY <3>2
    <2>6. o = Found(n)
      BY <1>6, <1>10, <2>3, <2>5
    <2>7. n \in Key /\ n[1] = d /\ Slot(n, 1) = s
      <3>1. n \in Key /\ n[1] = d
        BY <1>0, <2>4 DEF Key
      <3>2. \A m \in (1 + 1)..RootLevel : n[m] = k[m]
        BY SizeAssumption DEF Key, Level
      <3> HIDE DEF n
      <3> QED
        BY <3>1, <3>2 DEF Slot
    <2> HIDE DEF n
    <2>8. Beyond(up, k, n) /\ NotBefore(up, k, n)
      <3>1. k[1] # n[1]
        BY <1>2, <2>4, <2>7 DEF Past, Digit
      <3> QED
        BY <1>0, <2>4, <2>7, <3>1, BeyondAt DEF NotBefore
    <2>9. Leads(up, t, k, 1, o)
      BY <1>3, <2>4, <2>6, <2>7, <2>8 DEF Leads, Found
    <2>10. ASSUME NEW j \in Key, NotBefore(up, k, j), Beyond(up, j, n) PROVE j \in Keys(t)
      <3>1. Slot(j, 1) = s
        BY <1>0, <2>7, <2>10, Between DEF NotBefore
      <3>2. j[1] # d
        <4>1. j[1] = d => j = n
          BY <2>7, <2>10, <3>1, SlotsBottom
        <4> QED
          BY <2>7, <2>10, <4>1, BeyondOrder
      <3>3. ~Past(up, d, j[1])
        <4>1. Past(up, d, j[1]) => Beyond(up, n, j)
          BY <1>0, <2>7, <2>10, <3>1, <3>2, BeyondAt
        <4> QED
          BY <2>7, <2>10, <4>1, BeyondOrder
      <3>4. j[1] \notin A
        BY <2>2, <3>2, <3>3
      <3> QED
        BY <1>7, <1>10, <2>10, <3>1, <3>4
    <2>11. Skips(up, t, k, o)
      BY <2>6, <2>10 DEF Skips, Found
    <2> QED
      BY <2>9, <2>11
  <1> QED
    BY <1>8, <1>9, <1>10

-----------------------------------------------------------------------------
(* The search for an absent key *)

\* The keys there can be are finite in number.
LEMMA AllKeysFinite == IsFiniteSet(Key)
  <1>1. Level = 1..RootLevel /\ RootLevel \in Nat
    BY SizeAssumption DEF Level
  <1>2. IsFiniteSet(Digit)
    BY SizeAssumption, FS_Interval DEF Digit
  <1> QED
    BY <1>1, <1>2, FunctionsFinite DEF Key

\* What is left of the search at level c[2] for the key c[1]: beyond the key, and down.
Remaining(up, c) == {p \in Key \X Level : Beyond(up, c[1], p[1]) \/ (p[1] = c[1] /\ p[2] < c[2])}

\* The search goes on with less.
LEMMA SearchEnds ==
    ASSUME NEW up \in BOOLEAN, NEW c \in Key \X Level
    PROVE  /\ Cardinality(Remaining(up, c)) \in 0..Cardinality(Key \X Level)
           /\ Cardinality(Key \X Level) \in Nat
           /\ \A p \in Remaining(up, c) : Cardinality(Remaining(up, p)) < Cardinality(Remaining(up, c))
  <1> DEFINE S == Key \X Level
  <1>1. IsFiniteSet(S)
    <2>1. IsFiniteSet(Level)
      BY SizeAssumption, FS_Interval DEF Level
    <2> QED
      BY <2>1, AllKeysFinite, FS_Product
  <1>2. \A p \in S : p[1] \in Key /\ p[2] \in Level /\ p[2] \in Nat /\ Remaining(up, p) \in SUBSET S
    BY DEF Remaining, Level
  <1>3. \A p \in S : /\ IsFiniteSet(Remaining(up, p))
                     /\ Cardinality(Remaining(up, p)) <= Cardinality(S)
                     /\ Cardinality(Remaining(up, p)) \in Nat
    BY <1>1, <1>2, FS_Subset, FS_CardinalityType
  <1>4. Cardinality(S) \in Nat
    BY <1>1, FS_CardinalityType
  <1>5. ASSUME NEW p \in Remaining(up, c)
        PROVE  Cardinality(Remaining(up, p)) < Cardinality(Remaining(up, c))
    <2>1. p \in S /\ (Beyond(up, c[1], p[1]) \/ (p[1] = c[1] /\ p[2] < c[2]))
      BY <1>5 DEF Remaining
    <2>2. Remaining(up, p) \in SUBSET Remaining(up, c)
      <3> SUFFICES ASSUME NEW q \in S, Beyond(up, p[1], q[1]) \/ (q[1] = p[1] /\ q[2] < p[2])
                   PROVE  Beyond(up, c[1], q[1]) \/ (q[1] = c[1] /\ q[2] < c[2])
        BY DEF Remaining
      <3>1. p[1] \in Key /\ q[1] \in Key /\ c[1] \in Key /\ p[2] \in Nat /\ q[2] \in Nat /\ c[2] \in Nat
        BY <1>2, <2>1
      <3>2. Beyond(up, c[1], p[1]) /\ Beyond(up, p[1], q[1]) => Beyond(up, c[1], q[1])
        BY <3>1, BeyondOrder
      <3>3. q[2] < p[2] /\ p[2] < c[2] => q[2] < c[2]
        BY <3>1
      <3> QED
        BY <2>1, <3>2, <3>3
    <2>3. p \notin Remaining(up, p)
      <3>1. ~Beyond(up, p[1], p[1]) /\ ~(p[2] < p[2])
        BY <1>2, <2>1, BeyondOrder
      <3> QED
        BY <3>1 DEF Remaining
    <2>4. /\ Cardinality(Remaining(up, p)) <= Cardinality(Remaining(up, c))
          /\ Cardinality(Remaining(up, c)) = Cardinality(Remaining(up, p)) => Remaining(up, c) = Remaining(up, p)
      BY <1>3, <2>2, FS_Subset
    <2>5. Remaining(up, c) # Remaining(up, p)
      BY <1>5, <2>3
    <2>6. Cardinality(Remaining(up, p)) \in Nat /\ Cardinality(Remaining(up, c)) \in Nat
      BY <1>3, <2>1
    <2> QED
      BY <2>4, <2>5, <2>6
  <1> QED
    BY <1>3, <1>4, <1>5

(***************************************************************************)
(* No two callers' keys next to each other lie on the two sides of an end  *)
(* that LEAF_EDGE does not see: in a leaf that stores more digits than     *)
(* those of its level, keys whose digits above them are not 0.             *)
(***************************************************************************)
EndsSeen == \A k \in Index, l \in Level, up \in BOOLEAN : SeenAt(up, k, l, STORED[l])

\* Every case leads on.
LEMMA EmptyAtLeads ==
    ASSUME NEW up \in BOOLEAN, NEW t \in [Slots -> JP], Searchable(t), NEW F, Known(t, F), EndsSeen,
           NEW k \in Key, NEW l \in Level, t[Slot(k, l)].type \notin {"NULL", "FULLPOPU1"}
    PROVE  LET o == EmptyAt(up, t, F, k, l)
           IN  Leads(up, t, k, l, o) /\ (Truly(t, F) => Skips(up, t, k, o))
  <1> DEFINE J == t[Slot(k, l)]
             K == J.keys
             o == EmptyAt(up, t, F, k, l)
  <1> SUFFICES Leads(up, t, k, l, o) /\ (Truly(t, F) => Skips(up, t, k, o))
    OBVIOUS
  <1>1. Slot(k, l) \in Slots /\ Slot(k, l)[1] = l /\ J \in JP
    BY KeySlot
  <1>2. Fits(l, J)
    BY <1>1 DEF Searchable, Formed
  <1>3. STORED[l] \in Level /\ STORED[l] >= l /\ l >= l /\ l \in Nat
    BY CountAssumption DEF Level
  <1>4. K \in SUBSET Index /\ \A j \in K : SeenAt(up, j, l, STORED[l])
    BY <1>1, <1>3 DEF EndsSeen, JP
  <1>5. CASE J.type \in Branch
    BY <1>5, BranchLeads
  <1>6. CASE J.type = "LEAF"
    <2>1. o = JSLE(up, K, k, l, STORED[l])
      BY <1>6 DEF EmptyAt, EmptyInLeaf
    <2> HIDE DEF o
    <2> QED
      BY <1>3, <1>4, <1>6, <2>1, LeafLeads DEF Branch
  <1>7. CASE J.type = "LEAF_B1U"
    <2>1. o = EmptyInB1U(up, t, k) /\ l = 1
      BY <1>2, <1>7 DEF EmptyAt, Fits
    <2> HIDE DEF o
    <2> QED
      BY <1>7, <2>1, BitmapLeads DEF Branch
  <1>8. CASE J.type = "IMMED"
    <2>1. Cardinality(K) \in Nat /\ Cardinality(K) >= 1
      <3>1. Cardinality(K) \in 1..IMMED_MAXPOP1[l]
        BY <1>2, <1>8 DEF Fits
      <3> QED
        BY <1>4, <3>1, KeysFinite
    <2>2. CASE Cardinality(K) = 1
      <3>1. o = JSLE(up, K, k, l, l)
        BY <1>4, <1>8, <2>2, Immed01Empty DEF EmptyAt
      <3>2. \A j \in K : SeenAt(up, j, l, l)
        BY <1>3 DEF SeenAt
      <3> HIDE DEF o
      <3> QED
        BY <1>3, <1>8, <3>1, <3>2, LeafLeads DEF Branch
    <2>3. CASE Cardinality(K) > 1
      <3>1. o = JSLE(up, K, k, l, STORED[l])
        BY <1>8, <2>3 DEF EmptyAt, EmptyInImmed
      <3> HIDE DEF o
      <3> QED
        BY <1>3, <1>4, <1>8, <3>1, LeafLeads DEF Branch
    <2> QED
      BY <2>1, <2>2, <2>3
  <1> HIDE DEF o, K
  <1> QED
    BY <1>1, <1>5, <1>6, <1>7, <1>8 DEF JP, JPType

\* One step of the search, h what the rest of it answers.
EmptyStep(up, t, F, h, c) ==
    LET o == EmptyCase(up, t, F, c)
    IN  IF o.to = "into" THEN h[<<o.at, c[2] - 1>>]
        ELSE IF o.to = "restart" /\ o.at # Limit(up) THEN h[<<Step(up, o.at), RootLevel>>]
             ELSE InTheEnd(o)

\* Where the search can be.
Open(t, c) == t[RootSlot].type = "LEAF" \/ t[Slot(c[1], c[2])].type \notin {"NULL", "FULLPOPU1"}

\* Where it can be it leads on, and where it cannot be it would end.
LEMMA EmptyCaseIs ==
    ASSUME NEW up \in BOOLEAN, NEW t \in [Slots -> JP], Searchable(t), NEW F, Known(t, F), EndsSeen,
           NEW c \in Key \X Level
    PROVE  LET o == EmptyCase(up, t, F, c)
           IN  /\ o.to = "exit" \/ Leads(up, t, c[1], c[2], o)
               /\ Open(t, c) => /\ Leads(up, t, c[1], c[2], o)
                                /\ o.to = "into" => Open(t, <<o.at, c[2] - 1>>)
                                /\ Truly(t, F) => Skips(up, t, c[1], o)
  <1> DEFINE k == c[1]
             l == c[2]
             o == EmptyCase(up, t, F, c)
  <1> SUFFICES /\ o.to = "exit" \/ Leads(up, t, k, l, o)
               /\ Open(t, c) => /\ Leads(up, t, k, l, o)
                                /\ o.to = "into" => Open(t, <<o.at, l - 1>>)
                                /\ Truly(t, F) => Skips(up, t, k, o)
    OBVIOUS
  <1>1. k \in Key /\ l \in Level
    OBVIOUS
  <1>2. CASE t[RootSlot].type = "LEAF"
    <2>1. Slot(k, RootLevel) = RootSlot /\ RootLevel \in Level /\ RootLevel >= RootLevel
      BY RootOf, RootSlotType DEF Level
    <2>2. \A j : SeenAt(up, j, RootLevel, RootLevel)
      <3>1. (RootLevel + 1)..RootLevel = {}
        BY SizeAssumption
      <3> QED
        BY <3>1 DEF SeenAt
    <2>3. o = JSLE(up, t[RootSlot].keys, k, RootLevel, RootLevel)
      BY <1>2 DEF EmptyCase, EmptyInLeaf8
    <2> HIDE DEF o
    <2>4. Leads(up, t, k, RootLevel, o) /\ o.to # "into" /\ Skips(up, t, k, o)
      BY <1>1, <1>2, <2>1, <2>2, <2>3, LeafLeads DEF Branch
    <2>5. Leads(up, t, k, l, o)
      BY <2>4 DEF Leads
    <2> QED
      BY <2>4, <2>5
  <1>3. CASE t[RootSlot].type # "LEAF" /\ t[Slot(k, l)].type \notin {"NULL", "FULLPOPU1"}
    <2>1. o = EmptyAt(up, t, F, k, l)
      BY <1>3 DEF EmptyCase
    <2> HIDE DEF o
    <2>2. Leads(up, t, k, l, o) /\ (Truly(t, F) => Skips(up, t, k, o))
      BY <1>1, <1>3, <2>1, EmptyAtLeads
    <2>3. o.to = "into" => Open(t, <<o.at, l - 1>>)
      BY <2>2 DEF Leads, Open
    <2> QED
      BY <2>2, <2>3
  <1>4. CASE t[RootSlot].type # "LEAF" /\ t[Slot(k, l)].type \in {"NULL", "FULLPOPU1"}
    <2>1. o = EmptyAt(up, t, F, k, l)
      BY <1>4 DEF EmptyCase
    <2>2. EmptyAt(up, t, F, k, l) = Exit(k)
      BY <1>4 DEF EmptyAt, EmptyInFullPop
    <2>3. ~Open(t, c)
      BY <1>4 DEF Open
    <2> HIDE DEF o
    <2> QED
      BY <2>1, <2>2, <2>3 DEF Exit
  <1> QED
    BY <1>2, <1>3, <1>4

\* A step needs the rest of the search only where less remains.
LEMMA EmptyStepIs ==
    ASSUME NEW up \in BOOLEAN, NEW t \in [Slots -> JP], Searchable(t), NEW F, Known(t, F), EndsSeen,
           NEW c \in Key \X Level
    PROVE  /\ \A g \in [Key \X Level -> SUBSET Key] : EmptyStep(up, t, F, g, c) \in SUBSET Key
           /\ \A g, h :
                 (\A p \in Remaining(up, c) : g[p] = h[p]) =>
                     EmptyStep(up, t, F, g, c) = EmptyStep(up, t, F, h, c)
           /\ LET o == EmptyCase(up, t, F, c)
              IN  Leads(up, t, c[1], c[2], o) =>
                    /\ o.to = "into" => <<o.at, c[2] - 1>> \in Remaining(up, c)
                    /\ o.to = "restart" /\ o.at # Limit(up) =>
                          <<Step(up, o.at), RootLevel>> \in Remaining(up, c)
  <1> DEFINE k == c[1]
             l == c[2]
             o == EmptyCase(up, t, F, c)
             S == Key \X Level
  <1>1. k \in Key /\ l \in Level /\ l \in Nat /\ RootLevel \in Level
    BY RootSlotType DEF Level
  <1>2. o.to = "exit" \/ Leads(up, t, k, l, o)
    BY EmptyCaseIs
  <1>3. \A h : EmptyStep(up, t, F, h, c) =
          IF o.to = "into" THEN h[<<o.at, l - 1>>]
          ELSE IF o.to = "restart" /\ o.at # Limit(up) THEN h[<<Step(up, o.at), RootLevel>>]
               ELSE InTheEnd(o)
    BY DEF EmptyStep
  <1> SUFFICES
        /\ \A g \in [S -> SUBSET Key] : EmptyStep(up, t, F, g, c) \in SUBSET Key
        /\ \A g, h :
                 (\A p \in Remaining(up, c) : g[p] = h[p]) =>
                     EmptyStep(up, t, F, g, c) = EmptyStep(up, t, F, h, c)
        /\ Leads(up, t, k, l, o) =>
                    /\ o.to = "into" => <<o.at, l - 1>> \in Remaining(up, c)
                    /\ o.to = "restart" /\ o.at # Limit(up) =>
                          <<Step(up, o.at), RootLevel>> \in Remaining(up, c)
    OBVIOUS
  <1> HIDE DEF o
  <1>4. CASE o.to = "found" /\ Leads(up, t, k, l, o)
    <2>1. \A h : EmptyStep(up, t, F, h, c) = {o.at}
      BY <1>3, <1>4 DEF InTheEnd
    <2> QED
      BY <1>4, <2>1 DEF Leads
  <1>5. CASE o.to = "into" /\ Leads(up, t, k, l, o)
    <2>1. \A h : EmptyStep(up, t, F, h, c) = h[<<o.at, l - 1>>]
      BY <1>3, <1>5
    <2>2. o.at \in Key /\ NotBefore(up, k, o.at) /\ l > 1
      BY <1>5 DEF Leads
    <2>3. l - 1 \in Level /\ l - 1 < l
      BY <1>1, <2>2 DEF Level
    <2>4. <<o.at, l - 1>> \in S /\ <<o.at, l - 1>> \in Remaining(up, c)
      BY <2>2, <2>3 DEF Remaining, NotBefore
    <2> QED
      BY <1>5, <2>1, <2>4
  <1>6. CASE o.to = "restart" /\ o.at # Limit(up) /\ Leads(up, t, k, l, o)
    <2>1. \A h : EmptyStep(up, t, F, h, c) = h[<<Step(up, o.at), RootLevel>>]
      BY <1>3, <1>6
    <2>2. o.at \in Key /\ NotBefore(up, k, o.at)
      BY <1>6 DEF Leads
    <2>3. Step(up, o.at) \in Key /\ Beyond(up, o.at, Step(up, o.at))
      BY <1>6, <2>2, StepIs, StepNext
    <2>4. Beyond(up, k, Step(up, o.at))
      BY <1>1, <2>2, <2>3, NotBeforeOrder
    <2>5. <<Step(up, o.at), RootLevel>> \in S /\ <<Step(up, o.at), RootLevel>> \in Remaining(up, c)
      BY <1>1, <2>3, <2>4 DEF Remaining
    <2> QED
      BY <1>6, <2>1, <2>5
  <1>7. CASE o.to = "restart" /\ o.at = Limit(up)
    <2>1. \A h : EmptyStep(up, t, F, h, c) = {}
      BY <1>3, <1>7 DEF InTheEnd
    <2> QED
      BY <1>7, <2>1
  <1>8. CASE o.to = "exit"
    <2>1. \A h : EmptyStep(up, t, F, h, c) = Key
      BY <1>3, <1>8 DEF InTheEnd
    <2> QED
      BY <1>8, <2>1
  <1> QED
    BY <1>2, <1>4, <1>5, <1>6, <1>7, <1>8 DEF Leads

\* The search, one step at a time.
LEMMA EmptySteps ==
    ASSUME NEW up \in BOOLEAN, NEW t \in [Slots -> JP], Searchable(t), NEW F, Known(t, F), EndsSeen
    PROVE  \E g : \A c \in Key \X Level :
              g[c] = EmptyStep(up, t, F, g, c) /\ SearchEmpty(up, t, F, c) = g[c]
  <1> DEFINE S == Key \X Level
             V == SUBSET Key
             n == Cardinality(S)
             r == [c \in S |-> Cardinality(Remaining(up, c))]
             B == [x \in [S -> V] \X S |-> EmptyStep(up, t, F, x[1], x[2])]
             Body(h, c) == EmptyStep(up, t, F, h, c)
             o(c) == EmptyCase(up, t, F, c)
             Iter(h) == h = [c \in S |->
                IF o(c).to = "into" THEN h[<<o(c).at, c[2] - 1>>]
                ELSE IF o(c).to = "restart" /\ o(c).at # Limit(up)
                     THEN h[<<Step(up, o(c).at), RootLevel>>]
                     ELSE InTheEnd(o(c))]
             SM == CHOOSE h : Iter(h)
  <1>1. \A h : Iter(h) <=> h = [c \in S |-> Body(h, c)]
    BY DEF EmptyStep
  <1>2. \A g \in [S -> V] : \A c \in S : B[<<g, c>>] = Body(g, c)
    OBVIOUS
  <1>3. \A c : SearchEmpty(up, t, F, c) = SM[c]
    <2> HIDE DEF B, Body, r, n, V
    <2> QED
      BY DEF SearchEmpty
  <1> HIDE DEF Iter, Body, B
  <1>4. PICK g \in [S -> V] : \A c \in S : g[c] = B[<<g, c>>]
    <2>1. V # {} /\ n \in Nat /\ r \in [S -> 0..n]
      <3>1. Limit(up) \in Key
        BY SizeAssumption DEF Limit, Key, Digit
      <3>2. \A c \in S : Cardinality(Remaining(up, c)) \in 0..n
        BY SearchEnds
      <3>3. <<Limit(up), RootLevel>> \in S
        BY <3>1, RootSlotType
      <3>4. n \in Nat
        BY <3>3, SearchEnds
      <3> QED
        BY <3>2, <3>4
    <2>2. \A h \in [S -> V] : \A c \in S : Body(h, c) \in V
      BY EmptyStepIs DEF Body
    <2>3. ASSUME NEW f \in [S -> V], NEW h \in [S -> V], NEW c \in S,
                 \A p \in S : r[p] < r[c] => f[p] = h[p]
          PROVE  Body(f, c) = Body(h, c)
      <3>1. \A p \in Remaining(up, c) : p \in S /\ r[p] < r[c]
        BY SearchEnds DEF Remaining
      <3>2. \A p \in Remaining(up, c) : f[p] = h[p]
        BY <2>3, <3>1
      <3>3. EmptyStep(up, t, F, f, c) = EmptyStep(up, t, F, h, c)
        <4> HIDE DEF r, n, SM
        <4> HIDE DEF o
        <4>1. c \in Key \X Level
          OBVIOUS
        <4>2. \A x, y : (\A p \in Remaining(up, c) : x[p] = y[p]) =>
                  EmptyStep(up, t, F, x, c) = EmptyStep(up, t, F, y, c)
          BY <4>1, EmptyStepIs
        <4> HIDE DEF V, S
        <4> QED
          BY <3>2, <4>2
      <3> QED
        BY <3>3 DEF Body
    <2> HIDE DEF V, S, r, n
    <2>4. Descends(S, V, n, r, B)
      BY <1>2, <2>1, <2>2, <2>3 DEF Descends
    <2> QED
      BY <2>4, Recursive
  <1>5. Iter(SM)
    <2>1. g = [c \in S |-> Body(g, c)]
      BY <1>2, <1>4
    <2>2. Iter(g)
      BY <1>1, <2>1
    <2> QED
      BY <2>2
  <1> HIDE DEF SM
  <1>6. SM = [c \in S |-> Body(SM, c)]
    BY <1>1, <1>5
  <1>7. \A c \in S : SM[c] = EmptyStep(up, t, F, SM, c)
    BY <1>6 DEF Body
  <1> QED
    BY <1>3, <1>7

\* The keys from k on that are not there.
Absent(up, t, k) == {j \in Key : j \notin Keys(t) /\ NotBefore(up, k, j)}

\* A is some such key or none, and the first if what was taken for full is.
Answers(up, t, F, k, A) ==
    A \subseteq Absent(up, t, k) /\ (Truly(t, F) => A = FirstOf(up, Absent(up, t, k)))

\* The search from where it can be answers.
LEMMA SearchAnswers ==
    ASSUME NEW up \in BOOLEAN, NEW t \in [Slots -> JP], Searchable(t), NEW F, Known(t, F), EndsSeen,
           t[RootSlot].type \notin {"NULL", "FULLPOPU1"},
           NEW k \in Key
    PROVE  Answers(up, t, F, k, SearchEmpty(up, t, F, <<k, RootLevel>>))
  <1> DEFINE S == Key \X Level
             n == Cardinality(S)
             r(c) == Cardinality(Remaining(up, c))
  <1>1. PICK g : \A c \in S :
            g[c] = EmptyStep(up, t, F, g, c) /\ SearchEmpty(up, t, F, c) = g[c]
    BY EmptySteps
  <1> DEFINE P == {m \in Nat : \A c \in S : r(c) < m /\ Open(t, c) => Answers(up, t, F, c[1], g[c])}
  <1>2. RootLevel \in Level /\ <<k, RootLevel>> \in S /\ \A c \in S : c[1] \in Key /\ c[2] \in Level
    BY RootSlotType
  <1>3. n \in Nat /\ \A c \in S : r(c) \in Nat /\ r(c) < n + 1
    <2>1. n \in Nat /\ \A c \in S : r(c) \in 0..n
      BY <1>2, SearchEnds
    <2> HIDE DEF n, r
    <2> QED
      BY <2>1
  <1>4. \A j : Open(t, <<j, RootLevel>>)
    BY RootOf DEF Open
  \* A case whose rest is answered is answered.
  <1>5. ASSUME NEW c \in S, Open(t, c),
               \A p \in S : r(p) < r(c) /\ Open(t, p) => Answers(up, t, F, p[1], g[p])
        PROVE  Answers(up, t, F, c[1], g[c])
    <2> DEFINE j == c[1]
               l == c[2]
               o == EmptyCase(up, t, F, c)
               A == Absent(up, t, j)
    <2>1. /\ Leads(up, t, j, l, o)
          /\ o.to = "into" => Open(t, <<o.at, l - 1>>)
          /\ Truly(t, F) => Skips(up, t, j, o)
      BY <1>5, EmptyCaseIs
    <2>2. /\ o.to = "into" => <<o.at, l - 1>> \in Remaining(up, c)
          /\ o.to = "restart" /\ o.at # Limit(up) => <<Step(up, o.at), RootLevel>> \in Remaining(up, c)
      BY <2>1, EmptyStepIs
    <2>3. \A p \in Remaining(up, c) : p \in S /\ r(p) < r(c)
      BY SearchEnds DEF Remaining
    <2>4. g[c] = IF o.to = "into" THEN g[<<o.at, l - 1>>]
                 ELSE IF o.to = "restart" /\ o.at # Limit(up) THEN g[<<Step(up, o.at), RootLevel>>]
                      ELSE InTheEnd(o)
      BY <1>1 DEF EmptyStep
    <2>5. j \in Key /\ o.at \in Key /\ NotBefore(up, j, o.at)
      BY <2>1 DEF Leads
    <2> HIDE DEF o, r
    <2>6. CASE o.to = "found"
      <3>1. o.at \in A
        BY <2>1, <2>5, <2>6 DEF Leads, Absent
      <3>2. g[c] = {o.at}
        BY <2>4, <2>6 DEF InTheEnd
      <3>3. ASSUME Truly(t, F) PROVE FirstOf(up, A) = {o.at}
        <4>1. ASSUME NEW i \in A, i # o.at PROVE Beyond(up, o.at, i)
          <5>1. i \in Key /\ NotBefore(up, j, i) /\ i \notin Keys(t)
            BY DEF Absent
          <5>2. ~Beyond(up, i, o.at)
            BY <2>1, <3>3, <5>1 DEF Skips
          <5> QED
            BY <2>5, <4>1, <5>1, <5>2, BeyondOrder
        <4>2. IsFirst(up, A, o.at)
          BY <3>1, <4>1 DEF IsFirst
        <4>3. A \in SUBSET Key
          BY DEF Absent
        <4> QED
          BY <4>2, <4>3, FirstIs
      <3> QED
        BY <3>1, <3>2, <3>3 DEF Answers
    <2>7. CASE o.to = "into"
      <3> DEFINE p == <<o.at, l - 1>>
      <3>1. p \in S /\ r(p) < r(c) /\ Open(t, p) /\ p[1] = o.at
        BY <2>1, <2>2, <2>3, <2>7
      <3>2. Answers(up, t, F, o.at, g[p])
        BY <1>5, <3>1
      <3>3. g[c] = g[p]
        BY <2>4, <2>7
      <3>4. Absent(up, t, o.at) \subseteq A
        BY <2>5, NotBeforeOrder DEF Absent
      <3>5. ASSUME Truly(t, F) PROVE Absent(up, t, o.at) = A
        <4>1. ASSUME NEW i \in A PROVE NotBefore(up, o.at, i)
          <5>1. i \in Key /\ NotBefore(up, j, i) /\ i \notin Keys(t)
            BY DEF Absent
          <5>2. ~Beyond(up, i, o.at)
            BY <2>1, <3>5, <5>1 DEF Skips
          <5> QED
            BY <2>5, <5>1, <5>2, BeyondOrder DEF NotBefore
        <4> QED
          BY <3>4, <4>1 DEF Absent
      <3> QED
        BY <3>2, <3>3, <3>4, <3>5 DEF Answers
    <2>8. CASE o.to = "restart" /\ o.at # Limit(up)
      <3> DEFINE p == <<Step(up, o.at), RootLevel>>
                 x == Step(up, o.at)
      <3>1. p \in S /\ r(p) < r(c) /\ Open(t, p) /\ p[1] = x
        BY <1>4, <2>2, <2>3, <2>8
      <3>2. Answers(up, t, F, x, g[p])
        BY <1>5, <3>1
      <3>3. g[c] = g[p]
        BY <2>4, <2>8
      <3>4. x \in Key /\ \A i \in Key : NotBefore(up, x, i) <=> Beyond(up, o.at, i)
        BY <2>5, <2>8, StepIs, StepNext DEF NotBefore
      <3> HIDE DEF x
      <3>5. Absent(up, t, x) \subseteq A
        BY <2>5, <3>4, NotBeforeOrder DEF Absent, NotBefore
      <3>6. ASSUME Truly(t, F) PROVE Absent(up, t, x) = A
        <4>1. ASSUME NEW i \in A PROVE NotBefore(up, x, i)
          <5>1. i \in Key /\ NotBefore(up, j, i) /\ i \notin Keys(t)
            BY DEF Absent
          <5>2. ~Beyond(up, i, o.at) /\ i # o.at
            BY <2>1, <2>8, <3>6, <5>1 DEF Skips
          <5> QED
            BY <2>5, <3>4, <5>1, <5>2, BeyondOrder
        <4> QED
          BY <3>5, <4>1 DEF Absent
      <3> QED
        BY <3>2, <3>3, <3>5, <3>6 DEF Answers
    <2>9. CASE o.to = "restart" /\ o.at = Limit(up)
      <3>1. g[c] = {}
        BY <2>4, <2>9 DEF InTheEnd
      <3>2. ASSUME Truly(t, F) PROVE A = {}
        <4> SUFFICES ASSUME NEW i \in A PROVE FALSE
          OBVIOUS
        <4>1. i \in Key /\ NotBefore(up, j, i) /\ i \notin Keys(t)
          BY DEF Absent
        <4>2. ~Beyond(up, i, o.at) /\ i # o.at
          BY <2>1, <2>9, <3>2, <4>1 DEF Skips
        <4>3. ~Beyond(up, o.at, i)
          BY <2>9, <4>1, LimitLast
        <4> QED
          BY <2>5, <4>1, <4>2, <4>3, BeyondOrder
      <3> QED
        BY <3>1, <3>2 DEF Answers, FirstOf
    <2> QED
      BY <2>1, <2>6, <2>7, <2>8, <2>9 DEF Leads
  <1> HIDE DEF r, n
  <1>6. 0 \in P
    BY <1>3
  <1>7. ASSUME NEW m \in 0..n, m \in P PROVE m + 1 \in P
    <2>1. m \in Nat /\ m + 1 \in Nat
      BY <1>3
    <2>2. ASSUME NEW c \in S, r(c) < m + 1, Open(t, c) PROVE Answers(up, t, F, c[1], g[c])
      <3>1. \A p \in S : r(p) < r(c) => r(p) < m
        BY <1>3, <2>1, <2>2
      <3> QED
        BY <1>5, <1>7, <2>2, <3>1
    <2> QED
      BY <2>1, <2>2
  <1> HIDE DEF P
  <1>8. n + 1 \in P
    <2> DEFINE e == n + 1
    <2>1. e \in Nat /\ e \in 0..e
      BY <1>3
    <2>2. 0..(e - 1) = 0..n
      BY <1>3
    <2> HIDE DEF e
    <2>3. \A m \in 0..e : m \in P
      BY <1>6, <1>7, <2>1, <2>2, UpTo
    <2>4. e \in P
      BY <2>1, <2>3
    <2> QED
      BY <2>4 DEF e
  <1>9. Answers(up, t, F, k, g[<<k, RootLevel>>])
    BY <1>2, <1>3, <1>4, <1>8 DEF P
  <1> QED
    BY <1>1, <1>2, <1>9

\* NextEmpty and PrevEmpty.
LEMMA NeighbourAnswers ==
    ASSUME NEW up \in BOOLEAN, NEW t \in [Slots -> JP], Searchable(t), NEW F, Known(t, F), EndsSeen,
           NEW k \in Key
    PROVE  LET A == {j \in Key : j \notin Keys(t) /\ Beyond(up, k, j)}
           IN  /\ NeighbourEmpty(up, t, F, k) \subseteq A
               /\ Truly(t, F) => NeighbourEmpty(up, t, F, k) = FirstOf(up, A)
  <1> DEFINE A == {j \in Key : j \notin Keys(t) /\ Beyond(up, k, j)}
             N == NeighbourEmpty(up, t, F, k)
             x == Step(up, k)
  <1>1. CASE k = Limit(up)
    <2>1. N = {}
      BY <1>1 DEF NeighbourEmpty
    <2>2. A = {}
      BY <1>1, LimitLast
    <2> QED
      BY <2>1, <2>2 DEF FirstOf
  <1>2. CASE k # Limit(up)
    <2>1. x \in Key /\ \A j \in Key : Beyond(up, k, j) <=> NotBefore(up, x, j)
      BY <1>2, StepIs, StepNext DEF NotBefore
    <2>2. A = Absent(up, t, x)
      BY <2>1 DEF Absent
    <2>3. Answers(up, t, F, x, N)
      <3>1. CASE t[RootSlot].type = "NULL"
        <4>1. N = {x}
          BY <1>2, <3>1 DEF NeighbourEmpty
        <4>2. Keys(t) = {}
          <5> SUFFICES ASSUME NEW j \in Index, Get(t, j) PROVE FALSE
            BY DEF Keys
          <5>1. j \in Key
            BY IndexKey
          <5>2. PICK m \in Level : Reaches(t, j, m) /\ j \in t[Slot(j, m)].keys
            BY DEF Get
          <5>3. t[Slot(j, m)].type \notin Branch \cup {"NULL"} /\ RootLevel \in Level /\ m <= RootLevel
            BY <5>1, <5>2, KeySlot, RootSlotType DEF Searchable, KeysInLeaves, Level
          <5>4. m < RootLevel
            BY <3>1, <5>2, <5>3, RootOf DEF Level
          <5>5. Enters(t[Slot(j, RootLevel)], j[RootLevel])
            BY <5>1, <5>2, <5>3, <5>4 DEF Reaches, Level
          <5> QED
            BY <3>1, <5>5, RootOf DEF Enters, EntersL, EntersB, EntersU
        <4> HIDE DEF N, x
        <4>3. IsFirst(up, Absent(up, t, x), x) /\ Absent(up, t, x) \in SUBSET Key
          BY <2>1, <4>2 DEF IsFirst, Absent, NotBefore
        <4>4. FirstOf(up, Absent(up, t, x)) = {x}
          BY <4>3, FirstIs
        <4> QED
          BY <4>1, <4>3, <4>4 DEF Answers, IsFirst
      <3>2. CASE t[RootSlot].type # "NULL"
        <4>1. N = SearchEmpty(up, t, F, <<x, RootLevel>>)
          BY <1>2, <3>2 DEF NeighbourEmpty
        <4>2. t[RootSlot].type # "FULLPOPU1"
          <5>1. RootSlot[1] # 1
            BY RootSlotType, SizeAssumption
          <5> QED
            BY <5>1, RootSlotType DEF Searchable, Formed, Fits
        <4> HIDE DEF N, x
        <4> QED
          BY <2>1, <3>2, <4>1, <4>2, SearchAnswers
      <3> QED
        BY <3>1, <3>2
    <2> HIDE DEF N, A, x
    <2> QED
      BY <2>2, <2>3 DEF Answers, N, A
  <1> QED
    BY <1>1, <1>2

\* The slots a search takes for full are those of full expanses that have a type.
LEMMA FullsKnown ==
    ASSUME NEW t \in [Slots -> JP], Searchable(t), NEW F \in Fulls(t)
    PROVE  Known(t, F)
  <1> SUFFICES ASSUME NEW s \in Slots, t[s].type = "FULLPOPU1" PROVE s \in F
    BY DEF Known
  <1>1. s[1] = 1 /\ ~JUDYL
    BY DEF Searchable, Formed, Fits
  <1>2. JPFull(t, s) /\ s[1] < RootLevel
    BY <1>1, SizeAssumption DEF JPFull
  <1>3. {u \in Slots : u[1] < RootLevel /\ JPFull(t, u)} \subseteq F
    BY DEF Fulls
  <1> QED
    BY <1>2, <1>3

(***************************************************************************)
(* NextEmpty and PrevEmpty answer no key that is in the array, and none    *)
(* that is not beyond the one asked about: whatever they take for full,    *)
(* and whatever failed while the array was built.  A key they pass, from   *)
(* one expanse into the next and from one restart to another, may be       *)
(* absent; one they answer is.                                             *)
(***************************************************************************)
THEOREM EmptyTold ==
    ASSUME EndsSeen
    PROVE  Spec => []EmptyAbsent
  <1>1. Init => KeptInv /\ FormInv /\ Inhabited(jp)
    BY EmptyFormed, EmptyInhabited
       DEF Init, KeptInv, FormInv, OwnKeys, KeysInLeaves, EmptyTree, NullJP
  <1>2. TypeOK /\ KeptInv /\ FormInv /\ Inhabited(jp) /\ [Next]_vars =>
            KeptInv' /\ FormInv' /\ Inhabited(jp)'
    BY NextKeeps, NextFormed, NextInhabits
  <1>3. TypeOK /\ KeptInv /\ FormInv /\ Inhabited(jp) => EmptyAbsent
    <2> SUFFICES ASSUME TypeOK, KeptInv, FormInv, Inhabited(jp), NEW k \in Probe,
                        NEW up \in BOOLEAN, NEW F \in Fulls(jp)
                 PROVE  /\ NeighbourEmpty(up, jp, F, k) \cap Content = {}
                        /\ \A j \in NeighbourEmpty(up, jp, F, k) : Beyond(up, k, j)
      BY DEF EmptyAbsent
    <2>1. jp \in [Slots -> JP] /\ Searchable(jp) /\ k \in Key
      BY ProbeAssumption DEF TypeOK, KeptInv, FormInv, Searchable
    <2>2. Known(jp, F)
      BY <2>1, FullsKnown
    <2>3. NeighbourEmpty(up, jp, F, k) \subseteq {j \in Key : j \notin Keys(jp) /\ Beyond(up, k, j)}
      BY <2>1, <2>2, NeighbourAnswers
    <2>4. Content = Keys(jp)
      BY DEF Content, Keys
    <2> QED
      BY <2>3, <2>4
  <1> QED
    BY <1>1, <1>2, <1>3, TypeCorrect, PTL DEF Spec

-----------------------------------------------------------------------------
(* Expanses that are full *)

\* How many keys an expanse has.
LEMMA ExpanseIs ==
    /\ Expanse \in [0..RootLevel -> Nat] /\ Expanse[0] = 1
    /\ \A l \in Level : Expanse[l] = Base * Expanse[l - 1]
  <1> DEFINE S == 0..RootLevel
             Body(h, l) == IF l = 0 THEN 1 ELSE Base * h[l - 1]
             r == [l \in S |-> l]
             B == [x \in [S -> Nat] \X S |-> Body(x[1], x[2])]
             Iter(h) == h = [l \in S |-> IF l = 0 THEN 1 ELSE Base * h[l - 1]]
  <1>1. RootLevel \in Nat /\ Base \in Nat /\ r \in [S -> 0..RootLevel] /\ Nat # {}
    BY SizeAssumption
  <1>2. \A l \in S : l # 0 => l - 1 \in S /\ l - 1 < l
    BY <1>1
  <1>3. \A g \in [S -> Nat] : \A l \in S : B[<<g, l>>] = Body(g, l)
    OBVIOUS
  <1>4. \A g \in [S -> Nat] : \A l \in S : Body(g, l) \in Nat
    BY <1>1, <1>2
  <1>5. \A g, h \in [S -> Nat] : \A l \in S :
            (\A m \in S : r[m] < r[l] => g[m] = h[m]) => Body(g, l) = Body(h, l)
    BY <1>2
  <1>16. \A l \in S : r[l] = l
    OBVIOUS
  <1> DEFINE V == Nat
  <1> HIDE DEF B, r, Body
  <1>6. PICK g \in [S -> Nat] : \A l \in S : g[l] = B[<<g, l>>]
    <2>1. /\ V # {} /\ RootLevel \in Nat /\ r \in [S -> 0..RootLevel]
          /\ \A g \in [S -> V] : \A l \in S : B[<<g, l>>] = Body(g, l)
          /\ \A g \in [S -> V] : \A l \in S : Body(g, l) \in V
          /\ \A g, h \in [S -> V] : \A l \in S :
                (\A m \in S : r[m] < r[l] => g[m] = h[m]) => Body(g, l) = Body(h, l)
      BY <1>1, <1>3, <1>4, <1>5
    <2>2. \E g \in [S -> V] : \A l \in S : g[l] = B[<<g, l>>]
      <3> HIDE DEF S, V
      <3>1. \A g \in [S -> V] : \A l \in S : B[<<g, l>>] \in V
        BY <2>1
      <3>2. ASSUME NEW g \in [S -> V], NEW h \in [S -> V], NEW l \in S,
                   \A m \in S : r[m] < r[l] => g[m] = h[m]
            PROVE  B[<<g, l>>] = B[<<h, l>>]
        BY <2>1, <3>2
      <3>3. Descends(S, V, RootLevel, r, B)
        BY <2>1, <3>1, <3>2 DEF Descends
      <3> QED
        BY <3>3, Recursive
    <2> QED
      BY <2>2
  <1>7. Iter(g)
    <2>1. g = [l \in S |-> Body(g, l)]
      BY <1>3, <1>6
    <2> QED
      BY <2>1 DEF Body
  <1>8. Iter(Expanse)
    <2>1. Expanse = CHOOSE h : Iter(h)
      BY DEF Expanse
    <2> HIDE DEF Iter
    <2> QED
      BY <1>7, <2>1
  <1>9. \A l \in S : Expanse[l] = IF l = 0 THEN 1 ELSE Base * Expanse[l - 1]
    BY <1>8
  <1>10. DOMAIN Expanse = S /\ Expanse = [l \in S |-> Expanse[l]]
    BY <1>8
  <1> DEFINE P == {l \in Nat : Expanse[l] \in Nat}
  <1>11. 0 \in P
    BY <1>1, <1>9
  <1>12. ASSUME NEW l \in 0..(RootLevel - 1), l \in P PROVE l + 1 \in P
    <2>1. l + 1 \in S /\ l + 1 # 0 /\ (l + 1) - 1 = l
      BY <1>1
    <2>2. Expanse[l + 1] = Base * Expanse[l]
      BY <1>9, <2>1
    <2>3. Expanse[l] \in Nat /\ l + 1 \in Nat
      BY <1>12
    <2>4. Base * Expanse[l] \in Nat
      <3>1. \A a, b \in Nat : a * b \in Nat
        OBVIOUS
      <3> QED
        BY <1>1, <2>3, <3>1
    <2> QED
      BY <2>2, <2>3, <2>4
  <1> HIDE DEF P
  <1>13. \A l \in 0..RootLevel : l \in P
    BY <1>1, <1>11, <1>12, UpTo
  <1>14. Expanse \in [S -> Nat]
    BY <1>10, <1>13 DEF P
  <1>15. \A l \in Level : l \in S /\ l # 0
    BY <1>1 DEF Level
  <1>17. Expanse[0] = 1
    BY <1>1, <1>9
  <1>18. Expanse \in [0..RootLevel -> Nat]
    BY <1>14
  <1>19. \A l \in Level : Expanse[l] = Base * Expanse[l - 1]
    BY <1>9, <1>15
  <1> QED
    BY <1>17, <1>18, <1>19

\* As many keys as an expanse has are all its keys.
LEMMA FullBranch ==
    ASSUME NEW l \in Level, NEW s, NEW X, \A k \in X : k \in Key /\ Slot(k, l) = s,
           IsFiniteSet(X), Cardinality(X) = Expanse[l]
    PROVE  \A j \in Key : Slot(j, l) = s => j \in X
  <1> DEFINE Y == {j \in Key : Slot(j, l) = s}
             Z == [1..l -> Digit]
             f == [j \in Y |-> [m \in 1..l |-> j[m]]]
  <1>1. l \in Nat /\ RootLevel \in Nat /\ \A m \in 1..l : m \in Level
    BY SizeAssumption DEF Level
  <1>2. f \in [Y -> Z]
    BY <1>1 DEF Key
  <1>3. ASSUME NEW i \in Y, NEW j \in Y, f[i] = f[j] PROVE i = j
    <2>1. [m \in 1..l |-> i[m]] = [m \in 1..l |-> j[m]]
      BY <1>3
    <2>2. \A m \in 1..l : i[m] = j[m]
      BY <2>1
    <2> SUFFICES ASSUME i # j PROVE FALSE
      OBVIOUS
    <2>3. PICK m \in Level : Slot(i, m) = Slot(j, m) /\ i[m] # j[m]
      BY Parting
    <2>4. m > l
      BY <1>1, <2>2, <2>3 DEF Level
    <2>5. m >= l
      BY <1>1, <2>4 DEF Level
    <2> QED
      BY <2>3, <2>4, <2>5, SlotsAbove
  <1>4. IsFiniteSet(Z) /\ Cardinality(Z) <= Expanse[l]
    <2>1. IsFiniteSet(Digit) /\ Cardinality(Digit) = Base
      <3>1. Base - 1 \in Int /\ Base \in Nat /\ Base >= 2
        BY SizeAssumption
      <3>2. IsFiniteSet(0..(Base - 1)) /\ Cardinality(0..(Base - 1)) = Base
        BY <3>1, FS_Interval
      <3> QED
        BY <3>2 DEF Digit
    <2>2. \A m \in 0..(RootLevel - 1) : m + 1 \in Level /\ (m + 1) - 1 = m
      BY <1>1 DEF Level
    <2>3. \A m \in 0..(RootLevel - 1) : Expanse[m + 1] = Base * Expanse[m]
      BY <2>2, ExpanseIs
    <2>4. l \in 0..RootLevel
      BY <1>1 DEF Level
    <2> QED
      BY <1>1, <2>1, <2>3, <2>4, ExpanseIs, FunctionsCount
  <1> HIDE DEF f, Z
  <1>5. f \in Injection(Y, Z)
    BY <1>2, <1>3 DEF Injection, IsInjective
  <1>6. IsFiniteSet(Y) /\ Cardinality(Y) <= Cardinality(Z)
    BY <1>4, <1>5, FS_Injection
  <1>7. X \in SUBSET Y
    BY DEF Y
  <1>8. /\ Cardinality(X) <= Cardinality(Y) /\ (Cardinality(Y) = Cardinality(X) => Y = X)
        /\ Cardinality(X) \in Nat /\ Cardinality(Y) \in Nat /\ Cardinality(Z) \in Nat
    BY <1>4, <1>6, <1>7, FS_Subset, FS_CardinalityType
  <1>9. Cardinality(Y) = Cardinality(X)
    BY <1>4, <1>6, <1>8
  <1> QED
    BY <1>8, <1>9

\* In Judy1 every expanse that is taken for full is full.
LEMMA FullsTrue ==
    ASSUME NEW t \in [Slots -> JP], Tallied(t), ~JUDYL, NEW F \in Fulls(t)
    PROVE  Truly(t, F)
  <1>1. F = {u \in Slots : u[1] < RootLevel /\ JPFull(t, u)}
    BY DEF Fulls, Unset
  <1> SUFFICES ASSUME NEW s \in Slots, JPFull(t, s), NEW j \in Key, Slot(j, s[1]) = s
               PROVE  j \in Keys(t)
    BY <1>1 DEF Truly
  <1>2. s[1] \in Level /\ Searchable(t)
    BY SlotKey DEF Tallied
  <1>3. CASE s[1] = 1
    <2> DEFINE X == t[s].keys
    <2>1. t[s].type = "FULLPOPU1"
      BY <1>3 DEF JPFull
    <2>2. Cardinality(X) = Base
      BY <1>2, <2>1 DEF Searchable, Formed, Fits
    <2>3. /\ X \in SUBSET Index
          /\ \A k \in X : k \in Key /\ Slot(k, 1) = s
          /\ j \in Keys(t) <=> j \in X
      BY <1>2, <1>3, <2>1, LeafKeys DEF Branch
    <2>4. j[1] \in Digit
      BY <1>2, <1>3, KeySlot
    <2> HIDE DEF X
    <2>5. PICK k \in X : k[1] = j[1]
      BY <2>2, <2>3, <2>4, FullExpanse
    <2>6. k = j
      BY <1>3, <2>3, <2>5, SlotsBottom
    <2> QED
      BY <2>3, <2>5, <2>6
  <1>4. CASE s[1] > 1
    <2> DEFINE X == Below(t, s)
               l == s[1]
    <2>1. t[s].type \in Branch /\ t[s].pop = Expanse[l] - 1
      BY <1>4 DEF JPFull, JPFullBranch
    <2>2. t[s].pop + 1 = Cardinality(X)
      BY <2>1 DEF Tallied, Counts
    <2>3. Expanse[l] \in Nat
      <3>1. l \in 0..RootLevel
        BY <1>2, SizeAssumption DEF Level
      <3> QED
        BY <3>1, ExpanseIs
    <2>4. Cardinality(X) = Expanse[l]
      BY <2>1, <2>2, <2>3
    <2>5. X \in SUBSET Index /\ \A k \in X : k \in Key /\ Slot(k, l) = s /\ k \in Keys(t)
      BY IndexKey DEF Below, Keys
    <2>6. IsFiniteSet(X)
      BY <2>5, KeysFinite
    <2> HIDE DEF X
    <2>7. j \in X
      BY <1>2, <2>4, <2>5, <2>6, FullBranch
    <2> QED
      BY <2>5, <2>7
  <1>5. s[1] = 1 \/ s[1] > 1
    BY <1>2 DEF Level
  <1> QED
    BY <1>3, <1>4, <1>5

\* The nearest absent key, looked for key by key, is the first of them.
LEMMA NearestAbsentIs ==
    ASSUME NEW up \in BOOLEAN, NEW k \in Key
    PROVE  NearestAbsent(up, k) = FirstOf(up, {j \in Key : j \notin Content /\ Beyond(up, k, j)})
  <1> DEFINE A(j) == {i \in Key : i \notin Content /\ Beyond(up, j, i)}
             r(j) == Cardinality(Remaining(up, <<j, RootLevel>>))
             n == Cardinality(Key \X Level)
             Iter(h) == h = [j \in Key |->
                                IF j = Limit(up) THEN {}
                                ELSE IF Step(up, j) \notin Content THEN {Step(up, j)}
                                ELSE h[Step(up, j)]]
             g == [j \in Key |-> FirstOf(up, A(j))]
             beyond == CHOOSE h : Iter(h)
  <1>1. ASSUME NEW j \in Key
        PROVE  FirstOf(up, A(j)) = IF j = Limit(up) THEN {}
                                   ELSE IF Step(up, j) \notin Content THEN {Step(up, j)}
                                   ELSE FirstOf(up, A(Step(up, j)))
    <2>1. CASE j = Limit(up)
      <3>1. A(j) = {}
        BY <2>1, LimitLast
      <3> QED
        BY <2>1, <3>1 DEF FirstOf
    <2>2. CASE j # Limit(up)
      <3> DEFINE x == Step(up, j)
      <3>1. x \in Key /\ \A i \in Key : Beyond(up, j, i) <=> i = x \/ Beyond(up, x, i)
        BY <2>2, StepIs, StepNext
      <3> HIDE DEF x
      <3>2. CASE x \notin Content
        <4>1. IsFirst(up, A(j), x) /\ A(j) \in SUBSET Key
          BY <3>1, <3>2 DEF IsFirst
        <4>2. FirstOf(up, A(j)) = {x}
          BY <4>1, FirstIs
        <4> QED
          BY <2>2, <3>2, <4>2 DEF x
      <3>3. CASE x \in Content
        <4>1. A(j) = A(x)
          BY <3>1, <3>3
        <4> QED
          BY <2>2, <3>3, <4>1 DEF x
      <3> QED
        BY <3>2, <3>3
    <2> QED
      BY <2>1, <2>2
  <1>2. \A j \in Key : j # Limit(up) => Step(up, j) \in Key
    BY StepIs
  <1> HIDE DEF A
  <1>3. Iter(g)
    BY <1>1, <1>2
  <1>4. Iter(beyond)
    BY <1>3
  <1>5. NearestAbsent(up, k) = beyond[k]
    BY DEF NearestAbsent
  <1> HIDE DEF beyond
  <1>6. \A j \in Key : beyond[j] = IF j = Limit(up) THEN {}
                                   ELSE IF Step(up, j) \notin Content THEN {Step(up, j)}
                                   ELSE beyond[Step(up, j)]
    BY <1>4
  <1> HIDE DEF Iter, g
  <1>7. n \in Nat /\ \A j \in Key : r(j) \in Nat /\ r(j) < n + 1
    <2>1. RootLevel \in Level
      BY RootSlotType
    <2>2. ASSUME NEW j \in Key PROVE n \in Nat /\ r(j) \in 0..n
      <3>1. <<j, RootLevel>> \in Key \X Level
        BY <2>1
      <3> QED
        BY <3>1, SearchEnds
    <2> HIDE DEF n, r
    <2> QED
      BY <2>2
  <1>8. ASSUME NEW j \in Key, j # Limit(up) PROVE r(Step(up, j)) < r(j)
    <2>1. RootLevel \in Level /\ Step(up, j) \in Key
      BY <1>2, <1>8, RootSlotType
    <2>2. Beyond(up, j, Step(up, j))
      BY <1>8, <2>1, StepNext
    <2>3. <<Step(up, j), RootLevel>> \in Remaining(up, <<j, RootLevel>>)
      BY <2>1, <2>2 DEF Remaining
    <2> QED
      BY <2>1, <2>3, SearchEnds
  <1> HIDE DEF n, r
  <1> DEFINE P == {m \in Nat : \A j \in Key : r(j) < m => beyond[j] = FirstOf(up, A(j))}
  <1>9. 0 \in P
    BY <1>7
  <1>10. ASSUME NEW m \in 0..n, m \in P PROVE m + 1 \in P
    <2> SUFFICES ASSUME NEW j \in Key, r(j) < m + 1 PROVE beyond[j] = FirstOf(up, A(j))
      OBVIOUS
    <2>1. CASE j = Limit(up)
      BY <1>1, <1>6, <2>1
    <2>2. CASE j # Limit(up)
      <3>1. Step(up, j) \in Key /\ r(Step(up, j)) < r(j)
        BY <1>2, <1>8, <2>2
      <3>2. r(Step(up, j)) < m
        BY <1>7, <3>1
      <3>3. beyond[Step(up, j)] = FirstOf(up, A(Step(up, j)))
        BY <1>10, <3>1, <3>2
      <3> QED
        BY <1>1, <1>6, <2>2, <3>3
    <2> QED
      BY <2>1, <2>2
  <1> HIDE DEF P
  <1>11. n + 1 \in P
    <2>1. \A m \in 0..((n + 1) - 1) : m \in P => m + 1 \in P
      BY <1>7, <1>10
    <2>2. n + 1 \in Nat
      BY <1>7
    <2>3. \A m \in 0..(n + 1) : m \in P
      BY <1>9, <2>1, <2>2, UpTo
    <2> QED
      BY <2>2, <2>3
  <1>12. beyond[k] = FirstOf(up, A(k))
    BY <1>7, <1>11 DEF P
  <1> QED
    BY <1>5, <1>12 DEF A

(***************************************************************************)
(* In Judy1 NextEmpty, PrevEmpty, FirstEmpty and LastEmpty come to the     *)
(* nearest absent key, in every direction and from every key: a branch is  *)
(* taken for full by its population, a leaf by its type, and the counts    *)
(* are those of the keys, if the failures are those that JudyLIns handles. *)
(***************************************************************************)
THEOREM EmptiesTold ==
    ASSUME EndsSeen, ~JUDYL, FailSites \subseteq HandledSites
    PROVE  Spec => []EmptyExact
  <1>1. Init => CountInv /\ Inhabited(jp)
    BY CountsKept, EmptyInhabited DEF Init
  <1>2. CountInv /\ Inhabited(jp) /\ [Next]_vars => CountInv' /\ Inhabited(jp)'
    BY CountsKept, NextInhabits DEF CountInv, ShapeInv
  <1>3. CountInv /\ Inhabited(jp) => EmptyExact
    <2> SUFFICES ASSUME CountInv, Inhabited(jp), Callable, NEW k \in Probe, NEW up \in BOOLEAN,
                        NEW F \in Fulls(jp)
                 PROVE  /\ NeighbourEmpty(up, jp, F, k) = NearestAbsent(up, k)
                        /\ FirstEmpty(up, jp, F, k) =
                              IF k \in Content THEN NearestAbsent(up, k) ELSE {k}
      BY DEF EmptyExact
    <2>1. k \in Key
      BY ProbeAssumption
    <2>2. jp \in [Slots -> JP] /\ Tallied(jp) /\ Content = Keys(jp)
      BY CallerFinds
    <2>3. Searchable(jp)
      BY <2>2 DEF Tallied
    <2>4. Known(jp, F) /\ Truly(jp, F)
      BY <2>2, <2>3, FullsKnown, FullsTrue
    <2>5. NeighbourEmpty(up, jp, F, k) = FirstOf(up, {j \in Key : j \notin Keys(jp) /\ Beyond(up, k, j)})
      BY <2>1, <2>2, <2>3, <2>4, NeighbourAnswers
    <2>6. NeighbourEmpty(up, jp, F, k) = NearestAbsent(up, k)
      BY <2>1, <2>2, <2>5, NearestAbsentIs
    <2>7. JudyLGet(jp, k) <=> k \in Content
      BY <2>1, <2>2, FoundIs
    <2> QED
      BY <2>6, <2>7 DEF FirstEmpty
  <1> QED
    BY <1>1, <1>2, <1>3, PTL DEF Spec

=============================================================================
