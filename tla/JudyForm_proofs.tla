--------------------------- MODULE JudyForm_proofs ----------------------------
(***************************************************************************)
(* The form of the tree of a Judy array and what it carries beside its     *)
(* keys: theorems about JudyArray, for every value of its constants, on    *)
(* what each JP holds, how a walk comes to it, what branches count and the *)
(* words of memory the array counts.                                       *)
(***************************************************************************)
EXTENDS JudyArray_proofs, JudyFacts

-----------------------------------------------------------------------------
(* Slots and paths *)

\* Every slot is on the path of a key.
LEMMA SlotKey ==
    ASSUME NEW s \in Slots
    PROVE  s[1] \in Level /\ \E k \in Key : Slot(k, s[1]) = s
  <1>1. PICK l \in Level : s \in {l} \X [(l + 1)..RootLevel -> Digit]
    BY DEF Slots
  <1>2. s = <<l, s[2]>> /\ s[1] = l /\ s[2] \in [(l + 1)..RootLevel -> Digit]
    BY <1>1
  <1> DEFINE k == [m \in Level |-> IF m > l THEN s[2][m] ELSE 0]
  <1>3. \A m \in (l + 1)..RootLevel : m \in Level /\ m > l
    BY SizeAssumption DEF Level
  <1>4. \A m \in Level : m > l => m \in (l + 1)..RootLevel
    BY SizeAssumption DEF Level
  <1>5. 0 \in Digit
    BY SizeAssumption DEF Digit
  <1>6. k \in Key
    BY <1>2, <1>4, <1>5 DEF Key
  <1>7. [m \in (l + 1)..RootLevel |-> k[m]] = s[2]
    BY <1>2, <1>3
  <1> QED
    BY <1>2, <1>6, <1>7 DEF Slot

\* The slot under a branch is on the path of a key with its digit.
LEMMA ChildKey ==
    ASSUME NEW k \in Key, NEW l \in Level, l > 1, NEW d \in Digit
    PROVE  /\ Child(Slot(k, l), d) \in Slots /\ Child(Slot(k, l), d)[1] = l - 1
           /\ d = k[l] => Child(Slot(k, l), d) = Slot(k, l - 1)
  <1> DEFINE p == [m \in l..RootLevel |-> IF m = l THEN d ELSE k[m]]
  <1>1. l \in Int /\ l - 1 \in Level /\ RootLevel \in Nat /\ k \in [Level -> Digit]
    BY SizeAssumption DEF Key, Level
  <1>2. Slot(k, l)[1] = l /\ \A m \in (l + 1)..RootLevel : Slot(k, l)[2][m] = k[m]
    BY DEF Slot
  <1>3. \A m \in l..RootLevel : m # l => m \in (l + 1)..RootLevel
    BY <1>1
  <1>4. Child(Slot(k, l), d) = <<l - 1, p>>
    BY <1>2, <1>3 DEF Child
  <1>5. p \in [((l - 1) + 1)..RootLevel -> Digit]
    BY <1>1 DEF Level
  <1>6. (l - 1) + 1 = l
    BY <1>1
  <1>7. d = k[l] => p = [m \in l..RootLevel |-> k[m]]
    BY <1>1
  <1> HIDE DEF p
  <1>8. <<l - 1, p>> \in Slots
    BY <1>1, <1>5 DEF Slots
  <1>9. d = k[l] => <<l - 1, p>> = Slot(k, l - 1)
    BY <1>6, <1>7 DEF Slot
  <1> QED
    BY <1>4, <1>8, <1>9

\* A walk that comes to a slot comes to it for every key of its expanse.
LEMMA ReachesSame ==
    ASSUME NEW t, NEW i \in Key, NEW j \in Key, NEW l \in Level, Slot(i, l) = Slot(j, l),
           Reaches(t, i, l)
    PROVE  Reaches(t, j, l)
  <1>1. ASSUME NEW m \in (l + 1)..RootLevel PROVE Slot(i, m) = Slot(j, m) /\ i[m] = j[m]
    <2>1. m \in Level /\ m >= l /\ m > l
      BY SizeAssumption DEF Level
    <2> QED
      BY <2>1, SlotsAbove
  <1> QED
    BY <1>1 DEF Reaches

-----------------------------------------------------------------------------
(* Trees of that form *)

\* Every JP that is not NULL is reached by the walks for the keys of its expanse.
Rooted(t) ==
    \A k \in Key : \A l \in Level : t[Slot(k, l)].type # "NULL" => Reaches(t, k, l)

\* A branch is above level 1 and shows no digit without a JP.
Peopled(t) ==
    \A s \in Slots : \A d \in t[s].exp : s[1] > 1 /\ t[Child(s, d)].type # "NULL"

Formed(t) ==
    /\ \A s \in Slots : Fits(s[1], t[s])
    /\ Rooted(t)
    /\ Peopled(t)

\* A digit of a branch leads to a slot.
LEMMA ChildSlot ==
    ASSUME NEW t \in [Slots -> JP], Peopled(t), NEW s \in Slots, NEW d \in t[s].exp
    PROVE  Child(s, d) \in Slots
  <1>1. PICK k \in Key : Slot(k, s[1]) = s /\ s[1] \in Level
    BY SlotKey
  <1>2. d \in Digit /\ s[1] > 1
    BY DEF Peopled, JP
  <1> QED
    BY <1>1, <1>2, ChildKey

\* A JP that a walk reaches is replaced by one that fits and has its digits.
LEMMA PutFormed ==
    ASSUME NEW t \in [Slots -> JP], Formed(t), NEW j \in Key, NEW n \in Level,
           Reaches(t, j, n), NEW J, Fits(n, J), J.exp \subseteq t[Slot(j, n)].exp,
           J.type = "NULL" => t[Slot(j, n)].type = "NULL",
           \A d \in Digit : Enters(t[Slot(j, n)], d) => Enters(J, d)
    PROVE  Formed([t EXCEPT ![Slot(j, n)] = J])
  <1> DEFINE s == Slot(j, n)
             u == [t EXCEPT ![s] = J]
  <1>1. s \in Slots /\ s[1] = n
    BY KeySlot
  <1>2. \A x \in Slots : u[x] = IF x = s THEN J ELSE t[x]
    BY <1>1
  <1>3. ASSUME NEW k \in Key, NEW l \in Level, Reaches(t, k, l) PROVE Reaches(u, k, l)
    BY <1>1, <1>3, PutReaches
  <1> HIDE DEF u
  <1>4. \A x \in Slots : Fits(x[1], u[x])
    BY <1>1, <1>2 DEF Formed
  <1>5. ASSUME NEW k \in Key, NEW l \in Level, u[Slot(k, l)].type # "NULL"
        PROVE  Reaches(u, k, l)
    <2>1. CASE Slot(k, l) = s
      <3>1. l = n
        BY <2>1, SlotsApart
      <3> QED
        BY <1>3, <2>1, <3>1, ReachesSame
    <2>2. CASE Slot(k, l) # s
      BY <1>2, <1>3, <1>5, <2>2, KeySlot DEF Formed, Rooted
    <2> QED
      BY <2>1, <2>2
  <1>6. ASSUME NEW x \in Slots, NEW d \in u[x].exp
        PROVE  x[1] > 1 /\ u[Child(x, d)].type # "NULL"
    <2>1. d \in t[x].exp
      BY <1>1, <1>2, <1>6
    <2>2. x[1] > 1 /\ t[Child(x, d)].type # "NULL" /\ Child(x, d) \in Slots
      BY <2>1, ChildSlot DEF Formed, Peopled
    <2> QED
      BY <1>1, <1>2, <2>2
  <1>7. Formed(u)
    BY <1>4, <1>5, <1>6 DEF Formed, Rooted, Peopled
  <1> QED
    BY <1>7 DEF u

\* The parts of a full leaf fit at the level below it.
LEMMA SplayFits ==
    ASSUME NEW n \in Level, n > 1, NEW Q \in SUBSET Index, Q # {},
           Cardinality(Q) <= LEAF_MAXPOP1[n]
    PROVE  Fits(n - 1, SplayJP(n - 1, Q)) /\ SplayJP(n - 1, Q).exp = {}
  <1> DEFINE c == Cardinality(Q)
             l == n - 1
  <1>1. l \in Level /\ n \in Int
    BY SizeAssumption DEF Level
  <1>2. c \in Nat /\ c >= 1
    BY KeysFinite, FS_EmptySet
  <1>3. l > 1 => LEAF_MAXPOP1[n] <= LEAF_MAXPOP1[l]
    <2>1. l > 1 => n \in 3..RootLevel
      BY <1>1, SizeAssumption DEF Level
    <2> QED
      BY <2>1, SplayAssumption
  <1>4. /\ LEAF_MAXPOP1[n] \in Nat /\ LEAF_MAXPOP1[l] \in Nat /\ IMMED_MAXPOP1[l] \in Nat
        /\ Base \in Nat /\ (l = 1 => LEAF_MAXPOP1[n] < Base)
    BY <1>1, MaxType, SizeAssumption, SplayAssumption DEF Level
  <1>5. /\ ImmedJP(Q).keys = Q /\ ImmedJP(Q).type = "IMMED" /\ ImmedJP(Q).exp = {}
        /\ LeafJP(l, Q).keys = Q /\ LeafJP(l, Q).type = "LEAF" /\ LeafJP(l, Q).exp = {}
        /\ LeafB1UJP(Q).keys = Q /\ LeafB1UJP(Q).type = "LEAF_B1U" /\ LeafB1UJP(Q).exp = {}
        /\ LeafB1UJP(Q).pop = c % Base
    BY DEF ImmedJP, LeafJP, LeafB1UJP, NullJP
  <1>6. l = 1 => c % Base = c /\ c \in 1..Base
    BY <1>2, <1>4
  <1> HIDE DEF c, l
  <1>7. CASE c <= IMMED_MAXPOP1[l]
    <2>1. SplayJP(l, Q) = ImmedJP(Q)
      <3>1. CASE l = 1
        BY <1>2, <1>4, <1>7, <3>1 DEF SplayJP, SplayJP1, c
      <3>2. CASE l # 1
        BY <1>1, <1>7, <3>2 DEF SplayJP, SplayJP2, SplayJPWide, c
      <3> QED
        BY <3>1, <3>2
    <2>2. c \in 1..IMMED_MAXPOP1[l]
      BY <1>2, <1>4, <1>7
    <2> QED
      BY <1>5, <2>1, <2>2 DEF Fits, c, l
  <1>8. CASE c > IMMED_MAXPOP1[l] /\ l = 1
    <2>1. CASE JUDYL /\ c <= LEAF_MAXPOP1[1]
      <3>1. SplayJP(l, Q) = LeafJP(l, Q)
        BY <1>2, <1>4, <1>8, <2>1 DEF SplayJP, SplayJP1, c
      <3>2. c \in 1..LEAF_MAXPOP1[l]
        BY <1>2, <1>4, <1>8, <2>1
      <3> QED
        BY <1>5, <1>8, <2>1, <3>1, <3>2 DEF Fits, c, l
    <2>2. CASE ~(JUDYL /\ c <= LEAF_MAXPOP1[1])
      <3>1. SplayJP(l, Q) = LeafB1UJP(Q)
        BY <1>2, <1>4, <1>8, <2>2 DEF SplayJP, SplayJP1, c
      <3> QED
        BY <1>5, <1>6, <1>8, <3>1 DEF Fits, c, l
    <2> QED
      BY <2>1, <2>2
  <1>9. CASE c > IMMED_MAXPOP1[l] /\ l > 1
    <2>1. SplayJP(l, Q) = LeafJP(l, Q)
      BY <1>1, <1>2, <1>4, <1>9 DEF SplayJP, SplayJP2, SplayJPWide, c
    <2>2. c \in 1..LEAF_MAXPOP1[l]
      BY <1>2, <1>3, <1>4, <1>9 DEF c
    <2> QED
      BY <1>5, <1>9, <2>1, <2>2 DEF Fits, c, l
  <1> QED
    BY <1>1, <1>2, <1>4, <1>7, <1>8, <1>9 DEF Level

\* The branch over the parts has a digit at least, and is linear if it can be.
LEMMA SplayBranchFits ==
    ASSUME NEW t \in [Slots -> JP], NEW s \in Slots, t[s].keys # {},
           s[1] \in Level
    PROVE  /\ Fits(s[1], Splay(t, s)[s])
           /\ Splay(t, s)[s].exp = {k[s[1]] : k \in t[s].keys}
  <1> DEFINE D == {k[s[1]] : k \in t[s].keys}
             B == BranchJP(D, LEAF_MAXPOP1[s[1]] - 1)
  <1>1. Splay(t, s)[s] = B
    BY DEF Splay
  <1>2. D \in SUBSET Digit /\ D # {}
    BY SlotType DEF JP
  <1>3. Cardinality(D) \in Nat /\ Cardinality(D) >= 1
    BY <1>2, DigitsFinite, FS_EmptySet
  <1>4. B.type \in {"BRANCH_L", "BRANCH_B"} /\ B.exp = D
        /\ (B.type = "BRANCH_L" => Cardinality(D) <= BRANCHLMAXJPS)
    BY DEF BranchJP, NullJP
  <1> HIDE DEF B, D
  <1>5. BRANCHLMAXJPS \in Nat
    BY MaxAssumption
  <1>6. Fits(s[1], B)
    BY <1>3, <1>4, <1>5 DEF Fits
  <1> QED
    BY <1>1, <1>4, <1>6 DEF D

\* A full leaf that a walk reaches is splayed into a tree of that form.
LEMMA SplayFormed ==
    ASSUME NEW t \in [Slots -> JP], Formed(t), OwnKeys(t), NEW j \in Key,
           NEW n \in Level, n > 1, Reaches(t, j, n), t[Slot(j, n)].type = "LEAF"
    PROVE  Formed(Splay(t, Slot(j, n)))
  <1> DEFINE s == Slot(j, n)
             Q == t[s].keys
             u == Splay(t, s)
             Part(x) == x # s /\ x[1] = s[1] - 1 /\ Share(Q, x) # {}
  <1>1. s \in Slots /\ s[1] = n /\ n - 1 \in Level /\ Q \in SUBSET Index
    BY KeySlot, SizeAssumption DEF Level, JP
  <1>2. Cardinality(Q) <= LEAF_MAXPOP1[n] /\ Cardinality(Q) >= 1 /\ Q # {}
    <2>1. Cardinality(Q) \in 1..LEAF_MAXPOP1[n]
      BY <1>1 DEF Formed, Fits
    <2> QED
      BY <2>1, FS_EmptySet
  <1>3. /\ Fits(n, u[s]) /\ u[s].exp = {k[n] : k \in Q}
        /\ u[s].type \in Branch /\ \A d \in {k[n] : k \in Q} : Enters(u[s], d)
    <2>1. Fits(n, u[s]) /\ u[s].exp = {k[n] : k \in Q}
      BY <1>1, <1>2, SplayBranchFits
    <2>2. u[s].type \in Branch /\ \A d \in {k[s[1]] : k \in Q} : Enters(u[s], d)
      BY <1>1, SplayBranch
    <2> HIDE DEF u, Q, s
    <2> QED
      BY <1>1, <2>1, <2>2
  <1>4. ASSUME NEW x \in Slots, Part(x)
        PROVE  /\ Fits(x[1], u[x]) /\ u[x].exp = {} /\ u[x].type # "NULL"
               /\ \E i \in Q : Slot(i, x[1]) = x
    <2>1. u[x] = SplayJP(x[1], Share(Q, x))
      BY <1>1, <1>4, SplayPart
    <2>2. Share(Q, x) \in SUBSET Q /\ x[1] = n - 1 /\ Share(Q, x) # {}
      BY <1>1, <1>4 DEF Share
    <2>3. Cardinality(Share(Q, x)) <= LEAF_MAXPOP1[n]
      <3>1. IsFiniteSet(Q) /\ Cardinality(Q) \in Nat /\ Cardinality(Share(Q, x)) \in Nat
        BY <1>1, <2>2, KeysFinite
      <3>2. Cardinality(Share(Q, x)) <= Cardinality(Q)
        BY <2>2, <3>1, FS_Subset
      <3> QED
        BY <1>1, <1>2, <3>1, <3>2, MaxType
    <2>4. Fits(n - 1, SplayJP(n - 1, Share(Q, x))) /\ SplayJP(n - 1, Share(Q, x)).exp = {}
      BY <1>1, <2>2, <2>3, SplayFits
    <2>5. u[x].type # "NULL"
      BY <2>1, SplayJPKeys
    <2>6. \E i \in Q : Slot(i, x[1]) = x
      BY <2>2 DEF Share
    <2> QED
      BY <2>1, <2>2, <2>4, <2>5, <2>6
  <1>5. ASSUME NEW x \in Slots, x # s, ~Part(x) PROVE u[x] = t[x]
    BY <1>1, <1>5, SplayRest
  <1>6. ASSUME NEW k \in Key, NEW l \in Level, Reaches(t, k, l) PROVE Reaches(u, k, l)
    BY <1>6, SplayKept
  <1> HIDE DEF u, Part
  <1>7. ASSUME NEW x \in Slots PROVE Fits(x[1], u[x])
    BY <1>1, <1>3, <1>4, <1>5 DEF Formed
  <1>8. ASSUME NEW i \in Q PROVE Reaches(u, i, n - 1)
    <2>1. i \in Key /\ Slot(i, n) = s
      BY <1>1, IndexKey DEF OwnKeys
    <2>2. Reaches(u, i, n)
      BY <1>6, <2>1, ReachesSame
    <2>3. Enters(u[Slot(i, n)], i[n])
      BY <1>3, <2>1
    <2> QED
      BY <2>1, <2>2, <2>3, ReachesBelow
  <1>9. ASSUME NEW k \in Key, NEW l \in Level, u[Slot(k, l)].type # "NULL"
        PROVE  Reaches(u, k, l)
    <2>1. Slot(k, l) \in Slots /\ Slot(k, l)[1] = l
      BY KeySlot
    <2>2. CASE Slot(k, l) = s
      <3>1. l = n
        BY <2>2, SlotsApart
      <3> QED
        BY <1>6, <2>2, <3>1, ReachesSame
    <2>3. CASE Part(Slot(k, l))
      <3>1. PICK i \in Q : Slot(i, l) = Slot(k, l)
        BY <1>4, <2>1, <2>3
      <3>2. i \in Key /\ l = n - 1
        BY <1>1, <2>1, <2>3, IndexKey DEF Part
      <3> QED
        BY <1>8, <3>1, <3>2, ReachesSame
    <2>4. CASE Slot(k, l) # s /\ ~Part(Slot(k, l))
      <3>1. t[Slot(k, l)].type # "NULL"
        BY <1>5, <1>9, <2>1, <2>4
      <3> QED
        BY <1>6, <3>1 DEF Formed, Rooted
    <2> QED
      BY <2>2, <2>3, <2>4
  <1>10. ASSUME NEW x \in Slots, t[x].type # "NULL" PROVE u[x].type # "NULL"
    <2>1. "NULL" \notin Branch
      BY DEF Branch
    <2> QED
      BY <1>3, <1>4, <1>5, <1>10, <2>1
  <1>11. ASSUME NEW x \in Slots, NEW d \in u[x].exp
         PROVE  x[1] > 1 /\ u[Child(x, d)].type # "NULL"
    <2>1. CASE x = s
      <3>1. PICK i \in Q : d = i[n]
        BY <1>3, <1>11, <2>1
      <3>2. i \in Key /\ Slot(i, n) = s /\ i[n] \in Digit
        BY <1>1, IndexKey DEF OwnKeys, Key
      <3> DEFINE v == Slot(i, n - 1)
      <3>3. Child(s, d) = v
        BY <3>1, <3>2, ChildKey
      <3>4. v \in Slots /\ v[1] = n - 1 /\ v # s
        BY <1>1, <3>2, KeySlot, SizeAssumption DEF Level
      <3>5. i \in Share(Q, v)
        BY <3>4 DEF Share
      <3>6. Part(v)
        BY <1>1, <3>4, <3>5 DEF Part
      <3> QED
        BY <1>1, <1>4, <2>1, <3>3, <3>4, <3>6
    <2>2. CASE Part(x)
      BY <1>4, <1>11, <2>2
    <2>3. CASE x # s /\ ~Part(x)
      <3>1. d \in t[x].exp
        BY <1>5, <1>11, <2>3
      <3>2. x[1] > 1 /\ t[Child(x, d)].type # "NULL" /\ Child(x, d) \in Slots
        BY <3>1, ChildSlot DEF Formed, Peopled
      <3> QED
        BY <1>10, <3>2
    <2> QED
      BY <2>1, <2>2, <2>3
  <1>12. Formed(u)
    BY <1>7, <1>9, <1>11 DEF Formed, Rooted, Peopled
  <1> QED
    BY <1>12 DEF u

-----------------------------------------------------------------------------
(* The steps of the walk *)

\* A replaced JP fits where the old one did.
LEMMA ReplacedFormed ==
    ASSUME TypeOK, KeptInv, Formed(jp), pc = "walk", Replaced
    PROVE  Formed(jp')
  <1>1. PICK J : jp' = [jp EXCEPT ![Pjp] = J] /\ Grows(J)
    BY DEF Replaced
  <1>2. /\ Pjp \in Slots /\ Pjp[1] = level /\ jp \in [Slots -> JP] /\ Here = jp[Pjp]
        /\ Pjp = Slot(key, level) /\ key \in Key /\ level \in Level
    BY HereType, IndexKey DEF TypeOK, Here, Pjp
  <1>3. Fits(level, J) /\ Reaches(jp, key, level)
    BY <1>1, <1>2 DEF Grows, Formed, KeptInv
  <1> QED
    BY <1>1, <1>2, <1>3, PutFormed DEF Grows

\* A branch with a digit more has a JP more.
LEMMA AddedFormed ==
    ASSUME TypeOK, KeptInv, Formed(jp), pc = "walk", Added
    PROVE  Formed(jp')
  <1> DEFINE c == Slot(key, level - 1)
             J == [Here EXCEPT !.exp = @ \cup {digit}]
  <1>1. /\ level > 1 /\ level - 1 \in Level
        /\ c \in Slots /\ c[1] = level - 1 /\ c # Pjp
        /\ \A s \in Slots :
              jp'[s] = IF s = Pjp THEN J ELSE IF s = c THEN ImmedJP({key}) ELSE jp[s]
        /\ J.keys = Here.keys /\ J.type = Here.type /\ J.exp = Here.exp \cup {digit}
        /\ \A k \in Key : \A l \in Level : Reaches(jp, k, l) => Reaches(jp', k, l)
        /\ Reaches(jp', key, level - 1)
    BY AddedTree
  <1> HIDE DEF J
  <1>2. /\ Pjp \in Slots /\ Pjp[1] = level /\ jp \in [Slots -> JP] /\ Here = jp[Pjp]
        /\ Pjp = Slot(key, level) /\ key \in Key /\ level \in Level /\ Here \in JP
        /\ digit \in Digit /\ digit = key[level]
    BY HereType, IndexKey DEF TypeOK, Here, Pjp, digit
  <1>3. /\ ImmedJP({key}).keys = {key} /\ ImmedJP({key}).type = "IMMED"
        /\ ImmedJP({key}).exp = {}
    BY DEF ImmedJP, NullJP
  <1>4. Fits(level - 1, ImmedJP({key}))
    <2>1. Cardinality({key}) = 1
      BY FS_Singleton
    <2>2. IMMED_MAXPOP1[level - 1] \in Nat /\ IMMED_MAXPOP1[level - 1] >= 1
      BY <1>1, MaxType
    <2>3. Cardinality({key}) \in 1..IMMED_MAXPOP1[level - 1]
      BY <2>1, <2>2
    <2> QED
      BY <1>3, <2>3 DEF Fits
  <1>5. Fits(level, J)
    <2>1. Here.exp \in SUBSET Digit
      BY <1>2 DEF JP
    <2>2. IsFiniteSet(Here.exp) /\ Cardinality(Here.exp) \in Nat
      BY <2>1, DigitsFinite
    <2>3. Cardinality(J.exp) = Cardinality(Here.exp) + 1
      BY <1>1, <2>2, FS_AddElement DEF Added
    <2>4. BRANCHLMAXJPS \in Nat
      BY MaxAssumption
    <2>5. J.type = "BRANCH_L" => Cardinality(J.exp) \in 1..BRANCHLMAXJPS
      BY <1>1, <2>2, <2>3, <2>4 DEF Added
    <2> QED
      BY <1>1, <2>5 DEF Fits, Added
  <1>6. ASSUME NEW x \in Slots PROVE Fits(x[1], jp'[x])
    BY <1>1, <1>2, <1>4, <1>5 DEF Formed
  <1>7. ASSUME NEW k \in Key, NEW l \in Level, jp'[Slot(k, l)].type # "NULL"
        PROVE  Reaches(jp', k, l)
    <2>1. Slot(k, l) \in Slots /\ Slot(k, l)[1] = l
      BY KeySlot
    <2>2. CASE Slot(k, l) = c
      <3>1. l = level - 1
        BY <1>1, <2>1, <2>2
      <3> QED
        BY <1>1, <1>2, <2>2, <3>1, ReachesSame
    <2>3. CASE Slot(k, l) # c
      <3>1. jp[Slot(k, l)].type # "NULL"
        BY <1>1, <1>2, <1>7, <2>1, <2>3
      <3> QED
        BY <1>1, <3>1 DEF Formed, Rooted
    <2> QED
      BY <2>2, <2>3
  <1>8. ASSUME NEW x \in Slots, jp[x].type # "NULL" PROVE jp'[x].type # "NULL"
    BY <1>1, <1>2, <1>3, <1>8
  <1>9. ASSUME NEW x \in Slots, NEW d \in jp'[x].exp
        PROVE  x[1] > 1 /\ jp'[Child(x, d)].type # "NULL"
    <2>1. CASE x = Pjp /\ d = digit
      <3>1. Child(x, d) = c
        BY <1>1, <1>2, <2>1, ChildKey
      <3> QED
        BY <1>1, <1>2, <1>3, <2>1, <3>1
    <2>2. CASE ~(x = Pjp /\ d = digit)
      <3>1. d \in jp[x].exp
        BY <1>1, <1>2, <1>3, <1>9, <2>2
      <3>2. x[1] > 1 /\ jp[Child(x, d)].type # "NULL" /\ Child(x, d) \in Slots
        BY <1>2, <3>1, ChildSlot DEF Formed, Peopled
      <3> QED
        BY <1>8, <3>2
    <2> QED
      BY <2>1, <2>2
  <1> QED
    BY <1>6, <1>7, <1>9 DEF Formed, Rooted, Peopled

\* No two keys are each less than the other.
LEMMA LessOneWay ==
    ASSUME NEW a \in Key, NEW b \in Key, Less(a, b)
    PROVE  ~Less(b, a)
  <1> SUFFICES ASSUME Less(b, a) PROVE FALSE
    OBVIOUS
  <1>1. PICK l \in Level : a[l] < b[l] /\ \A m \in (l + 1)..RootLevel : a[m] = b[m]
    BY DEF Less
  <1>2. PICK n \in Level : b[n] < a[n] /\ \A m \in (n + 1)..RootLevel : b[m] = a[m]
    BY DEF Less
  <1>3. a[l] \in Nat /\ b[l] \in Nat /\ a[n] \in Nat /\ b[n] \in Nat
    BY SizeAssumption DEF Key, Digit
  <1>4. l = n \/ l \in (n + 1)..RootLevel \/ n \in (l + 1)..RootLevel
    BY SizeAssumption DEF Level
  <1> QED
    BY <1>1, <1>2, <1>3, <1>4

\* Of two keys one is less,
LEMMA LessApart ==
    ASSUME NEW a \in Key, NEW b \in Key, a # b
    PROVE  Less(a, b) \/ Less(b, a)
  <1> DEFINE P == {RootLevel - l : l \in {m \in Level : a[m] # b[m]}}
  <1>1. a \in [Level -> Digit] /\ b \in [Level -> Digit]
    BY DEF Key
  <1>2. PICK l \in Level : a[l] # b[l]
    BY <1>1
  <1>3. P \in SUBSET Nat /\ RootLevel - l \in P
    BY <1>2, SizeAssumption DEF Level
  <1>4. PICK x \in P : \A y \in P : x <= y
    BY <1>3, Least
  <1>5. PICK n \in Level : a[n] # b[n] /\ x = RootLevel - n
    BY <1>4
  <1>6. ASSUME NEW m \in (n + 1)..RootLevel, a[m] # b[m] PROVE FALSE
    <2>1. m \in Level /\ ~(RootLevel - n <= RootLevel - m)
      BY SizeAssumption DEF Level
    <2>2. RootLevel - m \in P
      BY <1>6, <2>1
    <2> QED
      BY <1>4, <1>5, <2>1, <2>2
  <1>7. a[n] < b[n] \/ b[n] < a[n]
    BY <1>1, <1>5, SizeAssumption DEF Digit
  <1> QED
    BY <1>6, <1>7 DEF Less

\* and the order is transitive.
LEMMA LessThrough ==
    ASSUME NEW a \in Key, NEW b \in Key, NEW c \in Key, Less(a, b), Less(b, c)
    PROVE  Less(a, c)
  <1>1. PICK l \in Level : a[l] < b[l] /\ \A m \in (l + 1)..RootLevel : a[m] = b[m]
    BY DEF Less
  <1>2. PICK n \in Level : b[n] < c[n] /\ \A m \in (n + 1)..RootLevel : b[m] = c[m]
    BY DEF Less
  <1>3. /\ a[l] \in Int /\ b[l] \in Int /\ c[l] \in Int
        /\ a[n] \in Int /\ b[n] \in Int /\ c[n] \in Int
    BY SizeAssumption DEF Key, Digit
  <1>4. CASE l >= n
    <2>1. a[l] < c[l]
      <3>1. l = n \/ l \in (n + 1)..RootLevel
        BY <1>4, SizeAssumption DEF Level
      <3> QED
        BY <1>1, <1>2, <1>3, <3>1
    <2>2. \A m \in (l + 1)..RootLevel : m \in (n + 1)..RootLevel
      BY <1>4, SizeAssumption DEF Level
    <2> QED
      BY <1>1, <1>2, <2>1, <2>2 DEF Less
  <1>5. CASE l < n
    <2>1. a[n] < c[n]
      <3>1. n \in (l + 1)..RootLevel
        BY <1>5, SizeAssumption DEF Level
      <3> QED
        BY <1>1, <1>2, <1>3, <3>1
    <2>2. \A m \in (n + 1)..RootLevel : m \in (l + 1)..RootLevel
      BY <1>5, SizeAssumption DEF Level
    <2> QED
      BY <1>1, <1>2, <2>1, <2>2 DEF Less
  <1> QED
    BY <1>4, <1>5, SizeAssumption DEF Level

\* Keys of a set have ranks of their own, all below the size of the set.
LEMMA RanksApart ==
    ASSUME NEW W \in SUBSET Index
    PROVE  /\ \A k \in W : Rank(k, W) \in Nat /\ Rank(k, W) < Cardinality(W)
           /\ \A j, k \in W : Less(j, k) => Rank(j, W) < Rank(k, W)
           /\ \A j, k \in W : Rank(j, W) = Rank(k, W) => j = k
  <1> DEFINE B(k) == {j \in W : Less(j, k)}
  <1>1. IsFiniteSet(W) /\ Cardinality(W) \in Nat
    BY KeysFinite
  <1>2. \A k : IsFiniteSet(B(k)) /\ Cardinality(B(k)) \in Nat /\ Rank(k, W) = Cardinality(B(k))
    BY KeysFinite DEF Rank
  <1>3. \A k \in W : k \in Key /\ k \notin B(k)
    BY LessOneWay, IndexKey
  <1>4. ASSUME NEW S, IsFiniteSet(S), NEW k \in S, NEW T \in SUBSET S, k \notin T
        PROVE  Cardinality(T) < Cardinality(S)
    <2>1. /\ Cardinality(T) \in Nat /\ Cardinality(S) \in Nat /\ Cardinality(T) <= Cardinality(S)
          /\ Cardinality(S) = Cardinality(T) => S = T
      BY <1>4, FS_Subset, FS_CardinalityType
    <2> QED
      BY <1>4, <2>1
  <1>5. ASSUME NEW k \in W PROVE Rank(k, W) \in Nat /\ Rank(k, W) < Cardinality(W)
    BY <1>1, <1>2, <1>3, <1>4
  <1>6. ASSUME NEW j \in W, NEW k \in W, Less(j, k) PROVE Rank(j, W) < Rank(k, W)
    <2>1. B(j) \in SUBSET B(k) /\ j \in B(k) /\ j \notin B(j)
      BY <1>3, <1>6, LessThrough
    <2> HIDE DEF B
    <2> QED
      BY <1>2, <1>4, <2>1
  <1>7. ASSUME NEW j \in W, NEW k \in W, Rank(j, W) = Rank(k, W) PROVE j = k
    <2> SUFFICES ASSUME j # k PROVE FALSE
      OBVIOUS
    <2>1. Less(j, k) \/ Less(k, j)
      BY <1>3, LessApart
    <2>2. ~(Rank(j, W) < Rank(j, W))
      BY <1>5
    <2> QED
      BY <1>6, <1>7, <2>1, <2>2
  <1> QED
    BY <1>5, <1>6, <1>7

\* An immediate that its keys have outgrown drops one of them, the last.
LEMMA ShiftedCount ==
    ASSUME NEW W \in SUBSET Index, NEW n \in Nat, Cardinality(W) = n + 1
    PROVE  Cardinality({k \in W : Rank(k, W) < n}) = n
  <1> DEFINE L == {k \in W : Rank(k, W) < n}
             f == [k \in W |-> Rank(k, W)]
  <1>1. /\ \A k \in W : Rank(k, W) \in Nat /\ Rank(k, W) < Cardinality(W)
        /\ \A j, k \in W : Rank(j, W) = Rank(k, W) => j = k
    BY RanksApart
  <1>2. f \in Injection(W, 0..n)
    BY <1>1 DEF Injection, IsInjective
  <1>3. IsFiniteSet(W) /\ IsFiniteSet(0..n) /\ Cardinality(0..n) = n + 1
    BY KeysFinite, FS_Interval
  <1>4. f \in Surjection(W, 0..n)
    BY <1>2, <1>3, FS_Injection
  <1>5. PICK m \in W : Rank(m, W) = n
    <2>1. n \in 0..n
      OBVIOUS
    <2>2. \E m \in W : f[m] = n
      BY <1>4, <2>1 DEF Surjection
    <2> QED
      BY <2>2
  <1>6. L = W \ {m}
    BY <1>1, <1>5
  <1>7. Cardinality(W \ {m}) = Cardinality(W) - 1
    BY <1>3, FS_RemoveElement
  <1> QED
    BY <1>6, <1>7

\* The immediate that could not grow fits still.
LEMMA ShiftedFormed ==
    ASSUME TypeOK, KeptInv, Formed(jp), pc = "walk", Shifted, key \notin Here.keys
    PROVE  Formed(jp')
  <1> DEFINE n == Cardinality(Here.keys)
             W == Here.keys \cup {key}
             L == {k \in W : Rank(k, W) < n}
             J == [Here EXCEPT !.keys = L]
  <1>1. /\ Pjp \in Slots /\ Pjp[1] = level /\ jp \in [Slots -> JP] /\ Here = jp[Pjp]
        /\ Pjp = Slot(key, level) /\ key \in Key /\ level \in Level
        /\ Here \in JP /\ Here.type = "IMMED" /\ Reaches(jp, key, level) /\ W \in SUBSET Index
    BY HereType, IndexKey DEF TypeOK, Here, Pjp, Shifted, ShiftFails, KeptInv, JP
  <1>2. n \in Nat /\ n >= 1 /\ Cardinality(W) = n + 1 /\ n + 1 <= IMMED_MAXPOP1[level]
    BY <1>1, OneMore, MaxType DEF Shifted, ShiftFails
  <1>3. Cardinality(L) = n
    BY <1>1, <1>2, ShiftedCount
  <1>4. jp' = [jp EXCEPT ![Pjp] = J]
    BY DEF Shifted, ImmedShifted, Here
  <1>5. J.keys = L /\ J.type = "IMMED" /\ J.exp = Here.exp
    BY <1>1 DEF JP
  <1> HIDE DEF J, L, n
  <1>6. Fits(level, J)
    <2>1. Cardinality(J.keys) \in 1..IMMED_MAXPOP1[level]
      BY <1>1, <1>2, <1>3, <1>5, MaxType
    <2> QED
      BY <1>5, <2>1 DEF Fits
  <1>7. \A d \in Digit : ~Enters(Here, d)
    BY <1>1 DEF Enters, EntersL, EntersB, EntersU
  <1> QED
    BY <1>1, <1>4, <1>5, <1>6, <1>7, PutFormed

\* So every case of the switch leaves a tree of that form.
LEMMA WalkFormed ==
    ASSUME TypeOK, KeptInv, Formed(jp), Walk
    PROVE  Formed(jp')
  <1>1. pc = "walk" /\ KeysInLeaves(jp) /\ OwnKeys(jp)
    BY DEF Walk, KeptInv
  <1>2. CASE Splayed
    <2>1. /\ jp \in [Slots -> JP] /\ Here = jp[Pjp] /\ Pjp = Slot(key, level)
          /\ key \in Key /\ level \in Level /\ level > 1
      BY <1>1, <1>2, HereType, IndexKey DEF TypeOK, Here, Pjp, Splayed
    <2>2. Reaches(jp, key, level) /\ Here.type = "LEAF" /\ jp' = Splay(jp, Pjp)
      BY <1>1, <1>2 DEF KeptInv, Splayed
    <2> QED
      BY <1>1, <2>1, <2>2, SplayFormed
  <1>3. CASE Shifted
    <2>1. key \notin Here.keys
      BY <1>3 DEF Shifted
    <2> QED
      BY <1>1, <1>3, <2>1, ShiftedFormed
  <1> QED
    BY <1>1, <1>2, <1>3, WalkShape, ReplacedFormed, AddedFormed

-----------------------------------------------------------------------------
(* The other steps *)

\* A population is of no account here, but for that of a bitmap.
LEMMA PopFormed ==
    ASSUME NEW t \in [Slots -> JP], Formed(t), NEW s \in Slots, t[s].type # "LEAF_B1U", NEW n
    PROVE  Formed([t EXCEPT ![s] = [@ EXCEPT !.pop = n]])
  <1> DEFINE J == [t[s] EXCEPT !.pop = n]
             u == [t EXCEPT ![s] = J]
  <1>1. J.keys = t[s].keys /\ J.type = t[s].type /\ J.exp = t[s].exp
    BY DEF JP
  <1> HIDE DEF J
  <1>2. \A r \in Slots : u[r].type = t[r].type /\ u[r].keys = t[r].keys /\ u[r].exp = t[r].exp
    BY <1>1
  <1>3. \A r \in Slots : r # s => u[r] = t[r]
    OBVIOUS
  <1>4. \A d \in Digit : Enters(t[s], d) => Enters(J, d)
    BY <1>1 DEF Enters, EntersL, EntersB, EntersU
  <1>5. \A k \in Key : \A l \in Level : Reaches(t, k, l) => Reaches(u, k, l)
    BY <1>4, PutReaches
  <1> HIDE DEF u
  <1>6. \A r \in Slots : Fits(r[1], u[r])
    <2> TAKE r \in Slots
    <2>1. Fits(r[1], t[r])
      BY DEF Formed
    <2> QED
      BY <1>2, <1>3, <2>1 DEF Fits
  <1>7. Rooted(u)
    BY <1>2, <1>5, KeySlot DEF Formed, Rooted
  <1>8. Peopled(u)
    <2> SUFFICES ASSUME NEW r \in Slots, NEW d \in u[r].exp
                 PROVE  r[1] > 1 /\ u[Child(r, d)].type # "NULL"
      BY DEF Peopled
    <2>1. d \in t[r].exp
      BY <1>2
    <2>2. r[1] > 1 /\ t[Child(r, d)].type # "NULL" /\ Child(r, d) \in Slots
      BY <2>1, ChildSlot DEF Formed, Peopled
    <2> QED
      BY <1>2, <2>2
  <1>9. Formed(u)
    BY <1>6, <1>7, <1>8 DEF Formed
  <1> QED
    BY <1>9 DEF u, J

\* The frames that return count in branches, and the call in the root.
LEMMA UpFormed ==
    ASSUME TypeOK, Formed(jp), WalkUp \/ InsDone
    PROVE  Formed(jp')
  <1>1. /\ pc = "up" /\ jp \in [Slots -> JP] /\ key \in Index /\ level \in Level
        /\ Pjp \in Slots /\ Pjp[1] = level
    BY SlotType DEF TypeOK, WalkUp, InsDone, Pjp
  <1>2. \/ jp' = jp
        \/ /\ jp' = [jp EXCEPT ![Pjp] = [@ EXCEPT !.pop = jp[Pjp].pop + 1]]
           /\ jp[Pjp].type \in Branch \/ level = RootLevel
    <2>1. CASE WalkUp
      BY <2>1 DEF WalkUp, Here
    <2>2. CASE InsDone
      BY <2>2 DEF InsDone, tree
    <2> QED
      BY <2>1, <2>2
  <1>3. level = RootLevel => jp[Pjp].type # "LEAF_B1U"
    BY <1>1, SizeAssumption DEF Formed, Fits
  <1>4. jp[Pjp].type \in Branch => jp[Pjp].type # "LEAF_B1U"
    BY DEF Branch
  <1> QED
    BY <1>1, <1>2, <1>3, <1>4, PopFormed

\* An empty tree has that form.
LEMMA EmptyFormed == Formed(EmptyTree)
  <1>1. \A s \in Slots : EmptyTree[s] = NullJP
    BY DEF EmptyTree
  <1>2. NullJP.type = "NULL" /\ NullJP.exp = {}
    BY DEF NullJP
  <1>3. \A l : Fits(l, NullJP)
    BY <1>2 DEF Fits
  <1> QED
    BY <1>1, <1>2, <1>3, KeySlot DEF Formed, Rooted, Peopled

(***************************************************************************)
(* An array without a root has no tree; with this the form of the tree is  *)
(* an invariant.                                                           *)
(***************************************************************************)
FormInv ==
    /\ Formed(jp)
    /\ root = "NULL" => jp = EmptyTree

\* The insertions that return without a walk, or start one.
LEMMA InsFormed ==
    ASSUME TypeOK, KeptInv, FormInv, NEW k \in Index, Ins(k)
    PROVE  FormInv'
  <1>0. /\ jp \in [Slots -> JP] /\ RootSlot \in Slots /\ Slot(k, RootLevel) = RootSlot
        /\ RootLevel \in Level /\ RootLevel > 1 /\ k \in Key /\ Reaches(jp, k, RootLevel)
    BY RootSlotType, IndexKey, ReachesRoot, SizeAssumption DEF TypeOK, Slot, RootSlot
  <1>1. CASE InsPresent(k)
    BY <1>1 DEF InsPresent, FormInv, tree
  <1>2. CASE InsEmpty(k)
    <2> DEFINE J == LeafJP(RootLevel, {k})
    <2>1. /\ root = "NULL"
          /\ \/ root' = root /\ jp' = jp
             \/ root' = "LEAF8" /\ jp' = [jp EXCEPT ![RootSlot] = J]
      BY <1>2 DEF InsEmpty
    <2>2. J.keys = {k} /\ J.type = "LEAF" /\ J.exp = {}
      BY DEF LeafJP, NullJP
    <2>3. Cardinality({k}) = 1
      BY FS_Singleton
    <2>4. LEAF_MAXPOP1[RootLevel] \in Nat /\ LEAF_MAXPOP1[RootLevel] > 1
      BY <1>0, MaxType, MaxAssumption
    <2>5. Fits(RootLevel, J)
      BY <1>0, <2>2, <2>3, <2>4 DEF Fits
    <2>6. jp[RootSlot].type = "NULL"
      BY <1>0, <2>1 DEF FormInv, EmptyTree, NullJP
    <2> HIDE DEF J
    <2>7. \A d : ~Enters(jp[RootSlot], d)
      BY <2>6 DEF Enters, EntersL, EntersB, EntersU
    <2>8. Formed([jp EXCEPT ![RootSlot] = J])
      BY <1>0, <2>2, <2>5, <2>6, <2>7, PutFormed DEF FormInv
    <2> QED
      BY <2>1, <2>8 DEF FormInv
  <1>3. CASE InsLeaf8(k)
    <2> DEFINE J == [jp[RootSlot] EXCEPT !.keys = @ \cup {k}]
    <2>1. /\ root = "LEAF8" /\ root' = root /\ Pop8 < LEAF8_MAXPOP1
          /\ jp' = jp \/ jp' = [jp EXCEPT ![RootSlot] = J]
      BY <1>3 DEF InsLeaf8
    <2>2. jp[RootSlot].type = "LEAF" /\ jp[RootSlot].keys \in SUBSET Index
      BY <1>0, <2>1 DEF KeptInv, JP
    <2>3. J.keys = jp[RootSlot].keys \cup {k} /\ J.type = "LEAF" /\ J.exp = jp[RootSlot].exp
      BY <1>0, <2>2 DEF JP
    <2>4. /\ Pop8 \in Nat /\ LEAF_MAXPOP1[RootLevel] \in Nat
          /\ Cardinality(J.keys) \in Nat /\ Cardinality(J.keys) <= Pop8 + 1
          /\ Cardinality(J.keys) >= 1
      <3>1. IsFiniteSet(jp[RootSlot].keys) /\ Pop8 \in Nat
        BY <2>2, KeysFinite DEF Pop8
      <3>2. Cardinality(J.keys) = Pop8 \/ Cardinality(J.keys) = Pop8 + 1
        BY <2>3, <3>1, FS_AddElement DEF Pop8
      <3>3. IsFiniteSet(J.keys) /\ J.keys # {}
        BY <2>3, <3>1, FS_AddElement
      <3>4. Cardinality(J.keys) # 0
        BY <3>3, FS_EmptySet
      <3> HIDE DEF J
      <3> QED
        BY <1>0, <3>1, <3>2, <3>4, MaxType
    <2>5. Fits(RootLevel, J)
      <3> HIDE DEF J
      <3>1. Cardinality(J.keys) \in 1..LEAF_MAXPOP1[RootLevel]
        BY <2>1, <2>4 DEF LEAF8_MAXPOP1
      <3> QED
        BY <1>0, <2>3, <3>1 DEF Fits
    <2> HIDE DEF J
    <2>6. \A d : ~Enters(jp[RootSlot], d)
      BY <2>2 DEF Enters, EntersL, EntersB, EntersU
    <2>7. Formed([jp EXCEPT ![RootSlot] = J])
      BY <1>0, <2>3, <2>5, <2>6, PutFormed DEF FormInv
    <2> QED
      BY <2>1, <2>7 DEF FormInv
  <1>4. CASE InsCascade8(k)
    <2>1. /\ root = "LEAF8"
          /\ UNCHANGED tree \/ (root' = "JPM" /\ jp' = Splay(jp, RootSlot))
      BY <1>4 DEF InsCascade8
    <2>2. jp[RootSlot].type = "LEAF" /\ OwnKeys(jp)
      BY <2>1 DEF KeptInv
    <2>3. Formed(Splay(jp, RootSlot))
      BY <1>0, <2>2, SplayFormed DEF FormInv
    <2> QED
      BY <2>1, <2>3 DEF FormInv, tree
  <1>5. CASE InsTree(k)
    BY <1>5 DEF InsTree, FormInv, tree
  <1> QED
    BY <1>1, <1>2, <1>3, <1>4, <1>5 DEF Ins

\* Every step.
LEMMA NextFormed ==
    ASSUME TypeOK, KeptInv, FormInv, [Next]_vars
    PROVE  FormInv'
  <1>1. ASSUME NEW k \in Index, Del(k) PROVE FormInv'
    BY <1>1 DEF Del, FormInv, tree
  <1>2. ASSUME NEW v \in Value, Store(v) PROVE FormInv'
    BY <1>2 DEF Store, FormInv, tree
  <1>3. CASE FreeArray
    BY <1>3, EmptyFormed DEF FreeArray, FormInv
  <1>4. CASE Walk
    <2>1. root = "JPM" /\ root' = root
      BY <1>4 DEF Walk, KeptInv
    <2> QED
      BY <1>4, <2>1, WalkFormed DEF FormInv
  <1>5. CASE WalkUp \/ InsDone
    <2>1. root = "JPM" /\ root' = root
      BY <1>5 DEF WalkUp, InsDone, KeptInv, tree
    <2> QED
      BY <1>5, <2>1, UpFormed DEF FormInv
  <1>6. CASE UNCHANGED vars
    BY <1>6 DEF FormInv, vars, tree
  <1> QED
    BY <1>1, <1>2, <1>3, <1>4, <1>5, <1>6, InsFormed DEF Next

\* A slot that a walk for a key reaches is a slot that the walk of the tree visits.
LEMMA ReachesReachable ==
    ASSUME NEW t, NEW k \in Key, NEW l \in Level, Reaches(t, k, l)
    PROVE  Slot(k, l) \in Reachable(t)
  <1> DEFINE s == Slot(k, l)
  <1>1. s \in Slots /\ s[1] = l
    BY KeySlot
  <1>2. \A m \in (l + 1)..RootLevel : s[2][m] = k[m]
    BY DEF Slot
  <1> HIDE DEF s
  <1>3. ASSUME NEW m \in (l + 1)..RootLevel
        PROVE  Enters(t[<<m, [j \in (m + 1)..RootLevel |-> s[2][j]]>>], s[2][m])
    <2>1. \A j \in (m + 1)..RootLevel : j \in (l + 1)..RootLevel
      BY SizeAssumption DEF Level
    <2>2. [j \in (m + 1)..RootLevel |-> s[2][j]] = [j \in (m + 1)..RootLevel |-> k[j]]
      BY <1>2, <2>1
    <2> QED
      BY <1>2, <2>2 DEF Reaches, Slot
  <1>4. s \in Reachable(t)
    BY <1>1, <1>3 DEF Reachable
  <1> QED
    BY <1>4 DEF s

(***************************************************************************)
(* In every state of every array, an insertion that is half done or has    *)
(* run out of memory included, each JP that is not NULL is reached by a    *)
(* walk from the root, holds keys of its own expanse and no more than its  *)
(* type allows, and no branch shows a digit without a JP: no conversion,   *)
(* splay or failure strands a part of the tree, overfills a JP or leaves   *)
(* one without keys.                                                       *)
(***************************************************************************)
THEOREM TreeFormed == Spec => []WellFormed
  <1>1. Init => KeptInv /\ FormInv
    BY EmptyFormed DEF Init, KeptInv, FormInv, OwnKeys, KeysInLeaves, EmptyTree, NullJP
  <1>2. TypeOK /\ KeptInv /\ FormInv /\ [Next]_vars => KeptInv' /\ FormInv'
    BY NextKeeps, NextFormed
  <1>3. KeptInv /\ FormInv => WellFormed
    <2> SUFFICES ASSUME KeptInv, FormInv, NEW s \in Slots
                 PROVE  /\ jp[s].type # "NULL" => s \in Reachable(jp)
                        /\ \A k \in jp[s].keys : Slot(k, s[1]) = s
                        /\ Fits(s[1], jp[s])
                        /\ \A d \in jp[s].exp : jp[Child(s, d)].type # "NULL"
      BY DEF WellFormed, Fits
    <2>1. PICK k \in Key : Slot(k, s[1]) = s /\ s[1] \in Level
      BY SlotKey
    <2>2. jp[s].type # "NULL" => s \in Reachable(jp)
      BY <2>1, ReachesReachable DEF FormInv, Formed, Rooted
    <2> QED
      BY <2>2 DEF KeptInv, OwnKeys, FormInv, Formed, Peopled
  <1> QED
    BY <1>1, <1>2, <1>3, TypeCorrect, PTL DEF Spec

-----------------------------------------------------------------------------
(* What the tree holds *)

\* In a tree whose every JP is reached, Get finds what some JP holds.
LEMMA Held ==
    ASSUME NEW t \in [Slots -> JP], Formed(t), OwnKeys(t), KeysInLeaves(t), NEW k \in Index
    PROVE  Get(t, k) <=> \E s \in Slots : k \in t[s].keys
  <1>1. ASSUME Get(t, k) PROVE \E s \in Slots : k \in t[s].keys
    BY <1>1, SlotType DEF Get
  <1>2. ASSUME NEW s \in Slots, k \in t[s].keys PROVE Get(t, k)
    <2>1. s[1] \in Level /\ Slot(k, s[1]) = s /\ k \in Key
      BY <1>2, SlotKey, IndexKey DEF OwnKeys
    <2>2. t[s].type # "NULL"
      BY <1>2 DEF KeysInLeaves
    <2>3. Reaches(t, k, s[1])
      BY <2>1, <2>2 DEF Formed, Rooted
    <2> QED
      BY <1>2, <2>1, <2>3 DEF Get
  <1> QED
    BY <1>1, <1>2

\* What Get finds below a JP that a walk reaches and that is no branch is what it holds.
LEMMA OwnBelow ==
    ASSUME NEW t \in [Slots -> JP], OwnKeys(t), KeysInLeaves(t), NEW j \in Key,
           NEW n \in Level, Reaches(t, j, n), t[Slot(j, n)].type \notin Branch
    PROVE  Below(t, Slot(j, n)) = t[Slot(j, n)].keys
  <1> DEFINE s == Slot(j, n)
  <1>1. s \in Slots /\ s[1] = n /\ t[s].keys \in SUBSET Index
    BY KeySlot DEF JP
  <1>2. \A d : ~Enters(t[s], d)
    BY DEF Enters, EntersL, EntersB, EntersU, Branch
  <1>3. ASSUME NEW k \in Index, Slot(k, n) = s, Get(t, k) PROVE k \in t[s].keys
    <2>1. PICK l \in Level : Reaches(t, k, l) /\ k \in t[Slot(k, l)].keys
      BY <1>3 DEF Get
    <2>2. k \in Key /\ Reaches(t, k, n)
      BY <1>3, IndexKey, ReachesSame
    <2>3. ~(l < n)
      BY <1>2, <1>3, <2>1, ReachesAbove
    <2>4. ~(l > n)
      <3> SUFFICES ASSUME l > n PROVE FALSE
        OBVIOUS
      <3>1. Enters(t[Slot(k, l)], k[l])
        BY <2>2, ReachesAbove
      <3>2. t[Slot(k, l)].type \in Branch
        BY <3>1 DEF Enters, EntersL, EntersB, EntersU, Branch
      <3> QED
        BY <2>1, <2>2, <3>2, KeySlot DEF KeysInLeaves
    <2>5. l = n
      BY <2>3, <2>4, SizeAssumption DEF Level
    <2> QED
      BY <1>3, <2>1, <2>5
  <1>4. ASSUME NEW k \in t[s].keys PROVE Slot(k, n) = s /\ Get(t, k) /\ k \in Index
    <2>1. k \in Index /\ k \in Key /\ Slot(k, n) = s
      BY <1>1, IndexKey DEF OwnKeys
    <2> QED
      BY <2>1, ReachesSame DEF Get
  <1> QED
    BY <1>1, <1>3, <1>4 DEF Below

\* So it is of a leaf.
LEMMA LeafBelow ==
    ASSUME NEW t \in [Slots -> JP], OwnKeys(t), KeysInLeaves(t), NEW j \in Key,
           NEW n \in Level, Reaches(t, j, n), t[Slot(j, n)].type = "LEAF"
    PROVE  Below(t, Slot(j, n)) = t[Slot(j, n)].keys
  BY OwnBelow DEF Branch

\* A splay adds no key, and counts those of the leaf in its branch.
LEMMA SplayPop ==
    ASSUME NEW t \in [Slots -> JP], Formed(t), OwnKeys(t), KeysInLeaves(t), NEW j \in Key,
           NEW n \in Level, n > 1, Reaches(t, j, n), t[Slot(j, n)].type = "LEAF",
           Cardinality(t[Slot(j, n)].keys) = LEAF_MAXPOP1[n]
    PROVE  LET s == Slot(j, n)
               u == Splay(t, s)
           IN  /\ \A k \in Index : Get(u, k) <=> Get(t, k)
               /\ u[s].pop + 1 = Cardinality(Below(u, s))
               /\ \A x \in Slots : x # s /\ u[x].type \in Branch => u[x] = t[x]
  <1> DEFINE s == Slot(j, n)
             u == Splay(t, s)
             D == {k[s[1]] : k \in t[s].keys}
             B == BranchJP(D, LEAF_MAXPOP1[s[1]] - 1)
  <1>1. s \in Slots /\ s[1] = n
    BY KeySlot
  <1>2. ASSUME NEW k \in Index, Get(t, k) PROVE Get(u, k)
    BY <1>2, SplayKept, IndexKey
  <1>3. ASSUME NEW k \in Index, Get(u, k) PROVE Get(t, k)
    <2>1. PICK l \in Level : k \in u[Slot(k, l)].keys
      BY <1>3 DEF Get
    <2>2. Slot(k, l) \in Slots
      BY SlotType
    <2>3. k \in t[s].keys \/ k \in t[Slot(k, l)].keys
      BY <1>1, <2>1, <2>2, SplayKeys
    <2> QED
      BY <1>1, <2>2, <2>3, Held
  <1>4. Below(u, s) = t[s].keys
    <2>1. Below(u, s) = Below(t, s)
      BY <1>2, <1>3 DEF Below
    <2> QED
      BY <2>1, LeafBelow
  <1>5. u[s].pop = LEAF_MAXPOP1[n] - 1
    <2>1. u[s] = B
      BY <1>1 DEF Splay
    <2>2. B.pop = LEAF_MAXPOP1[s[1]] - 1
      BY DEF BranchJP, NullJP
    <2> QED
      BY <1>1, <2>1, <2>2
  <1>6. ASSUME NEW x \in Slots, x # s, u[x].type \in Branch PROVE u[x] = t[x]
    <2>1. CASE x[1] = s[1] - 1 /\ Share(t[s].keys, x) # {}
      <3>1. u[x] = SplayJP(x[1], Share(t[s].keys, x))
        BY <1>1, <1>6, <2>1, SplayPart
      <3> QED
        BY <1>6, <3>1, SplayJPKeys
    <2>2. CASE ~(x[1] = s[1] - 1 /\ Share(t[s].keys, x) # {})
      BY <1>1, <1>6, <2>2, SplayRest
    <2> QED
      BY <2>1, <2>2
  <1>7. LEAF_MAXPOP1[n] \in Nat
    BY MaxType
  <1> HIDE DEF u, s
  <1>8. u[s].pop + 1 = Cardinality(Below(u, s))
    BY <1>4, <1>5, <1>7 DEF s
  <1> QED
    BY <1>2, <1>3, <1>6, <1>8 DEF u, s

-----------------------------------------------------------------------------
(* What a step adds *)

\* After the step Get finds the keys K besides those it found before.
Gains(K) == \A k \in Index : Get(jp', k) <=> Get(jp, k) \/ k \in K

\* All that is known of a state, whatever fails in JudyLIns itself.
ShapeInv == TypeOK /\ KeptInv /\ RootInv /\ FormInv

\* A step whose JPs hold nothing but K that was not held before.
LEMMA GainsBy ==
    ASSUME ShapeInv, ShapeInv', Kept, NEW K \in SUBSET Index, \A k \in K : Get(jp', k),
           \A s \in Slots : \A k \in jp'[s].keys : k \in K \/ \E x \in Slots : k \in jp[x].keys
    PROVE  Gains(K)
  <1>1. \A k \in Index : Get(jp, k) <=> \E s \in Slots : k \in jp[s].keys
    BY Held DEF ShapeInv, TypeOK, KeptInv, FormInv
  <1>2. \A k \in Index : Get(jp', k) <=> \E s \in Slots : k \in jp'[s].keys
    BY Held DEF ShapeInv, TypeOK, KeptInv, FormInv
  <1> QED
    BY <1>1, <1>2 DEF Gains, Kept

\* A step that adds no key leaves every count.
LEMMA CountsStay ==
    ASSUME Gains({})
    PROVE  /\ Content' = Content
           /\ \A s \in Slots : Below(jp', s) = Below(jp, s)
  BY DEF Gains, Content, Below

\* A new key counts one more on its path.
LEMMA CountsRise ==
    ASSUME NEW k \in Index, ~Get(jp, k), Gains({k})
    PROVE  /\ Cardinality(Content') = Cardinality(Content) + 1
           /\ \A s \in Slots :
                 Cardinality(Below(jp', s)) =
                     Cardinality(Below(jp, s)) + (IF Slot(k, s[1]) = s THEN 1 ELSE 0)
  <1>1. Content' = Content \cup {k} /\ k \notin Content /\ Content \in SUBSET Index
    BY DEF Gains, Content
  <1>2. Cardinality(Content') = Cardinality(Content) + 1
    BY <1>1, KeysFinite, FS_AddElement
  <1>3. ASSUME NEW s \in Slots
        PROVE  Cardinality(Below(jp', s)) =
                   Cardinality(Below(jp, s)) + (IF Slot(k, s[1]) = s THEN 1 ELSE 0)
    <2>1. Below(jp, s) \in SUBSET Index /\ k \notin Below(jp, s)
      BY DEF Below
    <2>2. CASE Slot(k, s[1]) = s
      <3>1. Below(jp', s) = Below(jp, s) \cup {k}
        BY <2>2 DEF Gains, Below
      <3> QED
        BY <2>1, <2>2, <3>1, KeysFinite, FS_AddElement
    <2>3. CASE Slot(k, s[1]) # s
      <3>1. Below(jp', s) = Below(jp, s)
        BY <2>3 DEF Gains, Below
      <3> QED
        BY <2>1, <2>3, <3>1, KeysFinite
    <2> QED
      BY <2>2, <2>3
  <1> QED
    BY <1>2, <1>3

-----------------------------------------------------------------------------
(* The counts *)

(***************************************************************************)
(* PopExact, for the slots of all branches.  It is inductive with what is  *)
(* known of the shape of the tree: a key is counted where it was placed    *)
(* and nowhere else if it is found in one place only, and by every branch  *)
(* above if the walk came through them.                                    *)
(***************************************************************************)
PopInv ==
    /\ \A s \in Slots : jp[s].type \in Branch =>
           jp[s].pop + 1 + (IF Uncounted(s) THEN 1 ELSE 0) = Cardinality(Below(jp, s))
    /\ root = "JPM" =>
           pop0 + 1 + (IF pc = "up" /\ ret = 1 THEN 1 ELSE 0) = Cardinality(Content)

\* The branches on the path of the key are those the walk came through.
LEMMA OnPath ==
    ASSUME TypeOK, FormInv, pc = "walk", ~Enters(Here, digit),
           NEW s \in Slots, jp[s].type \in Branch, s = Slot(key, s[1])
    PROVE  s[1] >= level
  <1>1. s[1] \in Level /\ level \in Level /\ key \in Key
    BY SlotKey, HereType, IndexKey
  <1>2. jp[s].type # "NULL"
    BY DEF Branch
  <1>3. Reaches(jp, key, s[1])
    BY <1>1, <1>2 DEF FormInv, Formed, Rooted
  <1>4. ~(s[1] < level)
    BY <1>1, <1>3, ReachesAbove DEF Here, Pjp, digit
  <1> QED
    BY <1>1, <1>4, SizeAssumption DEF Level

\* Counts are numbers.
LEMMA CountsType ==
    ASSUME TypeOK
    PROVE  /\ pop0 \in Nat /\ Cardinality(Content) \in Nat
           /\ \A s \in Slots : jp[s].pop \in Nat /\ Cardinality(Below(jp, s)) \in Nat
  <1>1. Content \in SUBSET Index /\ \A s : Below(jp, s) \in SUBSET Index
    BY DEF Content, Below
  <1> QED
    BY <1>1, KeysFinite DEF TypeOK, JP

\* A key that has been placed, and is owed to every branch on its path.
LEMMA PlacedPop ==
    ASSUME TypeOK, FormInv, PopInv, pc = "walk", root = "JPM",
           Placed, UNCHANGED <<root, pop0>>, ~Get(jp, key), Gains({key}), ~Enters(Here, digit),
           \A s \in Slots : jp'[s].type \in Branch =>
               jp[s].type \in Branch /\ jp'[s].pop = jp[s].pop
    PROVE  PopInv'
  <1>1. pc' = "up" /\ ret' = 1 /\ key' = key /\ level' = level
    BY DEF Placed, WalkReturn
  <1>2. key \in Index /\ level \in Level
    BY HereType
  <1>3. /\ Cardinality(Content') = Cardinality(Content) + 1
        /\ \A s \in Slots : Cardinality(Below(jp', s)) =
               Cardinality(Below(jp, s)) + (IF Slot(key, s[1]) = s THEN 1 ELSE 0)
    BY <1>2, CountsRise
  <1>4. ASSUME NEW s \in Slots, jp'[s].type \in Branch
        PROVE  jp'[s].pop + 1 + (IF Uncounted(s)' THEN 1 ELSE 0) = Cardinality(Below(jp', s))
    <2>1. jp[s].pop + 1 = Cardinality(Below(jp, s)) /\ jp'[s].pop = jp[s].pop
      BY <1>4, CountsType DEF PopInv, Uncounted
    <2>2. Uncounted(s)' <=> s = Slot(key, s[1])
      BY <1>1, <1>4, OnPath DEF Uncounted
    <2> QED
      BY <1>3, <1>4, <2>1, <2>2, CountsType
  <1>5. pop0' + 1 + 1 = Cardinality(Content')
    BY <1>3, CountsType DEF PopInv
  <1> QED
    BY <1>1, <1>4, <1>5 DEF PopInv

\* A step of the walk that adds no key and goes on, or returns 0.
LEMMA SamePop ==
    ASSUME TypeOK, PopInv, pc = "walk", root = "JPM", UNCHANGED <<root, pop0>>, Gains({}),
           pc' = "walk" \/ ret' = 0,
           \A s \in Slots : jp'[s].type \in Branch =>
               \/ jp[s].type \in Branch /\ jp'[s].pop = jp[s].pop
               \/ jp'[s].pop + 1 = Cardinality(Below(jp', s))
    PROVE  PopInv'
  <1>1. Content' = Content /\ \A s \in Slots : Below(jp', s) = Below(jp, s)
    BY CountsStay
  <1>2. ASSUME NEW s \in Slots, jp'[s].type \in Branch
        PROVE  jp'[s].pop + 1 + (IF Uncounted(s)' THEN 1 ELSE 0) = Cardinality(Below(jp', s))
    <2>1. ~Uncounted(s) /\ ~Uncounted(s)'
      BY DEF Uncounted
    <2>2. Cardinality(Below(jp, s)) \in Nat
      BY CountsType
    <2>3. jp'[s].pop + 1 = Cardinality(Below(jp', s))
      <3>1. CASE jp[s].type \in Branch /\ jp'[s].pop = jp[s].pop
        <4>1. jp[s].pop + 1 = Cardinality(Below(jp, s))
          BY <2>1, <3>1, CountsType DEF PopInv
        <4> QED
          BY <1>1, <3>1, <4>1
      <3> QED
        BY <1>2, <3>1
    <2>4. Cardinality(Below(jp', s)) \in Nat
      BY <1>1, <2>2
    <2> QED
      BY <2>1, <2>3, <2>4
  <1>3. pop0' + 1 + (IF pc' = "up" /\ ret' = 1 THEN 1 ELSE 0) = Cardinality(Content')
    BY <1>1, CountsType DEF PopInv
  <1> QED
    BY <1>2, <1>3 DEF PopInv

\* The shape is kept by every step.
LEMMA NextShape ==
    ASSUME FailSites \subseteq HandledSites, ShapeInv, [Next]_vars
    PROVE  ShapeInv'
  BY NextType, NextKeeps, NextRoot, NextFormed DEF ShapeInv

\* The walk places its key once, or adds none.
LEMMA WalkGains ==
    ASSUME FailSites \subseteq HandledSites, ShapeInv, Walk
    PROVE  \/ /\ Placed /\ ~Get(jp, key) /\ Gains({key}) /\ ~Enters(Here, digit)
              /\ \A s \in Slots : jp'[s].type \in Branch =>
                    jp[s].type \in Branch /\ jp'[s].pop = jp[s].pop
           \/ /\ Gains({}) /\ (pc' = "walk" \/ ret' = 0)
              /\ \A s \in Slots : jp'[s].type \in Branch =>
                    \/ jp[s].type \in Branch /\ jp'[s].pop = jp[s].pop
                    \/ jp'[s].pop + 1 = Cardinality(Below(jp', s))
  <1>1. ShapeInv' /\ Next
    <2>1. Next
      BY DEF Next
    <2> QED
      BY <2>1, NextShape
  <1>2. /\ pc = "walk" /\ root = "JPM" /\ UNCHANGED <<root, pop0>> /\ ret' # -1
        /\ TypeOK /\ FormInv /\ KeptInv /\ OwnKeys(jp) /\ KeysInLeaves(jp)
    BY <1>1 DEF Walk, ShapeInv, KeptInv, RootInv
  <1>3. /\ Pjp \in Slots /\ Pjp[1] = level /\ jp \in [Slots -> JP] /\ Here = jp[Pjp] /\ Here \in JP
        /\ Pjp = Slot(key, level) /\ key \in Index /\ key \in Key /\ level \in Level
        /\ digit \in Digit /\ digit = key[level] /\ Reaches(jp, key, level)
    BY <1>2, HereType, IndexKey DEF TypeOK, Here, Pjp, digit, KeptInv
  <1>4. ~Shifted
    BY DEF Shifted, Fails, HandledSites
  <1>5. Kept
    BY <1>2, <1>4, WalkKeeps
  <1>6. CASE Replaced
    <2>1. PICK J : /\ jp' = [jp EXCEPT ![Pjp] = J]
                   /\ Grows(J)
                   /\ Holds(J) \/ (J.keys = Here.keys /\ (Returns \/ Goes))
      BY <1>6 DEF Replaced
    <2>2. \A s \in Slots : jp'[s] = IF s = Pjp THEN J ELSE jp[s]
      BY <1>3, <2>1
    <2>3. \A s \in Slots : jp'[s].type \in Branch =>
              jp[s].type \in Branch /\ jp'[s].pop = jp[s].pop
      BY <1>3, <2>1, <2>2 DEF Grows
    <2>4. CASE Holds(J)
      <3>1. Placed /\ ~Enters(Here, digit) /\ ~Get(jp, key)
        BY <1>2, <1>3, <2>4, NotYet DEF Holds
      <3>2. pc' = "up" /\ ret' = 1 /\ key' = key
        BY <3>1 DEF Placed, WalkReturn
      <3>3. Get(jp', key)
        BY <1>2, <3>2, WalkFinds
      <3>4. Gains({key})
        <4>1. \A s \in Slots : \A k \in jp'[s].keys : k \in {key} \/ \E x \in Slots : k \in jp[x].keys
          BY <1>3, <2>1, <2>2 DEF Grows
        <4> QED
          BY <1>1, <1>3, <1>5, <3>3, <4>1, GainsBy
      <3> QED
        BY <2>3, <3>1, <3>4
    <2>5. CASE J.keys = Here.keys /\ (Returns \/ Goes)
      <3>1. pc' = "walk" \/ ret' = 0
        BY <1>2, <2>5 DEF Returns, Goes, WalkReturn, Continue, Descend, frame
      <3>2. \A s \in Slots : \A k \in jp'[s].keys : k \in {} \/ \E x \in Slots : k \in jp[x].keys
        BY <1>3, <2>2, <2>5
      <3>3. Gains({})
        BY <1>1, <1>5, <3>2, GainsBy
      <3> QED
        BY <2>3, <3>1, <3>3
    <2> QED
      BY <2>1, <2>4, <2>5
  <1>7. CASE Added
    <2> DEFINE c == Slot(key, level - 1)
               J == [Here EXCEPT !.exp = @ \cup {digit}]
    <2>1. /\ c \in Slots /\ c # Pjp /\ ~Get(jp, key)
          /\ \A s \in Slots :
                jp'[s] = IF s = Pjp THEN J ELSE IF s = c THEN ImmedJP({key}) ELSE jp[s]
          /\ J.keys = Here.keys /\ J.type = Here.type
      BY <1>2, <1>7, AddedTree
    <2>2. J.pop = Here.pop
      BY <1>3 DEF JP
    <2> HIDE DEF J, c
    <2>3. ImmedJP({key}).keys = {key} /\ ImmedJP({key}).type = "IMMED" /\ "IMMED" \notin Branch
      BY DEF ImmedJP, NullJP, Branch
    <2>4. \A s \in Slots : jp'[s].type \in Branch =>
              jp[s].type \in Branch /\ jp'[s].pop = jp[s].pop
      BY <1>3, <2>1, <2>2, <2>3
    <2>5. Placed /\ ~Enters(Here, digit)
      BY <1>7 DEF Added, Enters, EntersL, EntersB, EntersU
    <2>6. pc' = "up" /\ ret' = 1 /\ key' = key
      BY <2>5 DEF Placed, WalkReturn
    <2>7. Get(jp', key)
      BY <1>2, <2>6, WalkFinds
    <2>8. Gains({key})
      <3>1. \A s \in Slots : \A k \in jp'[s].keys : k \in {key} \/ \E x \in Slots : k \in jp[x].keys
        BY <1>3, <2>1, <2>3
      <3> QED
        BY <1>1, <1>3, <1>5, <2>7, <3>1, GainsBy
    <2> QED
      BY <2>1, <2>4, <2>5, <2>8
  <1>8. CASE Splayed
    <2>1. /\ jp' = Splay(jp, Slot(key, level)) /\ pc' = "walk" /\ level > 1
          /\ jp[Slot(key, level)].type = "LEAF"
          /\ Cardinality(jp[Slot(key, level)].keys) = LEAF_MAXPOP1[level]
      BY <1>2, <1>3, <1>8 DEF Splayed, Continue, frame
    <2>2. Formed(jp)
      BY <1>2 DEF FormInv
    <2>3. /\ \A k \in Index : Get(jp', k) <=> Get(jp, k)
          /\ jp'[Pjp].pop + 1 = Cardinality(Below(jp', Pjp))
          /\ \A x \in Slots : x # Pjp /\ jp'[x].type \in Branch => jp'[x] = jp[x]
      BY <1>2, <1>3, <2>1, <2>2, SplayPop
    <2>4. Gains({})
      BY <2>3 DEF Gains
    <2> QED
      BY <2>1, <2>3, <2>4
  <1> QED
    BY <1>2, <1>4, <1>6, <1>7, <1>8, WalkShape

\* So the branches it goes through count it once, on the way back.
LEMMA WalkPop ==
    ASSUME FailSites \subseteq HandledSites, ShapeInv, PopInv, Walk
    PROVE  PopInv'
  <1>1. pc = "walk" /\ root = "JPM" /\ UNCHANGED <<root, pop0>> /\ TypeOK /\ FormInv
    BY DEF Walk, ShapeInv, RootInv
  <1> QED
    BY <1>1, WalkGains, PlacedPop, SamePop

\* The frames that return change a population and no more.
LEMMA UpGains ==
    ASSUME FailSites \subseteq HandledSites, ShapeInv, WalkUp \/ InsDone
    PROVE  /\ Gains({})
           /\ \A s \in Slots :
                 /\ jp'[s].type = jp[s].type /\ jp'[s].keys = jp[s].keys
                 /\ jp'[s].sums = jp[s].sums
                 /\ jp[s].type \in Branch =>
                       jp'[s].pop = jp[s].pop + (IF s = Pjp /\ ret = 1 THEN 1 ELSE 0)
  <1>1. ShapeInv'
    <2>1. Next
      BY DEF Next
    <2> QED
      BY <2>1, NextShape
  <1>2. /\ pc = "up" /\ root = "JPM" /\ root' = root /\ ret \in {0, 1}
        /\ TypeOK /\ KeptInv /\ OwnKeys(jp) /\ KeysInLeaves(jp)
    BY DEF WalkUp, InsDone, ShapeInv, RootInv, KeptInv, tree
  <1>3. /\ Pjp \in Slots /\ Pjp[1] = level /\ jp \in [Slots -> JP] /\ Here = jp[Pjp]
        /\ Pjp = Slot(key, level) /\ level \in Level /\ key \in Index
    BY <1>2, SlotType DEF TypeOK, Here, Pjp
  <1> DEFINE J == [jp[Pjp] EXCEPT !.pop = jp[Pjp].pop + 1]
  <1>4. J.keys = jp[Pjp].keys /\ J.type = jp[Pjp].type /\ J.sums = jp[Pjp].sums
        /\ J.pop = jp[Pjp].pop + 1
    BY <1>3 DEF JP
  <1>5. /\ jp' = jp \/ jp' = [jp EXCEPT ![Pjp] = J]
        /\ jp[Pjp].type \in Branch => jp' = IF ret = 1 THEN [jp EXCEPT ![Pjp] = J] ELSE jp
    <2>1. CASE WalkUp
      BY <1>2, <1>3, <2>1 DEF WalkUp
    <2>2. CASE InsDone
      BY <1>2, <2>2 DEF InsDone, tree
    <2> QED
      BY <2>1, <2>2
  <1> HIDE DEF J
  <1>6. Kept
    BY <1>2, UpKeeps
  <1>7. Gains({})
    <2>1. \A s \in Slots : jp'[s].keys = jp[s].keys
      BY <1>3, <1>4, <1>5
    <2>2. \A s \in Slots : \A k \in jp'[s].keys : k \in {} \/ \E x \in Slots : k \in jp[x].keys
      BY <2>1
    <2> QED
      BY <1>1, <1>6, <2>2, GainsBy
  <1>8. ASSUME NEW s \in Slots, jp[s].type \in Branch
        PROVE  jp'[s].pop = jp[s].pop + (IF s = Pjp /\ ret = 1 THEN 1 ELSE 0)
    BY <1>2, <1>3, <1>4, <1>5, <1>8, CountsType
  <1> QED
    BY <1>3, <1>4, <1>5, <1>7, <1>8

\* They pay what they owe, and JudyLIns does in the end.
LEMMA UpPop ==
    ASSUME FailSites \subseteq HandledSites, ShapeInv, PopInv, WalkUp \/ InsDone
    PROVE  PopInv'
  <1>1. /\ pc = "up" /\ root = "JPM" /\ root' = root /\ ret \in {0, 1} /\ TypeOK
    BY DEF WalkUp, InsDone, ShapeInv, RootInv, tree
  <1>2. /\ Pjp[1] = level /\ Pjp = Slot(key, level) /\ level \in Level /\ key \in Index
    BY <1>1, HereType DEF Pjp
  <1>3. /\ Gains({})
        /\ \A s \in Slots : jp'[s].type = jp[s].type
        /\ \A s \in Slots : jp[s].type \in Branch =>
              jp'[s].pop = jp[s].pop + (IF s = Pjp /\ ret = 1 THEN 1 ELSE 0)
    BY UpGains
  <1>4. Content' = Content /\ \A s \in Slots : Below(jp', s) = Below(jp, s)
    BY <1>3, CountsStay
  <1>5. ASSUME NEW s \in Slots, jp'[s].type \in Branch
        PROVE  jp'[s].pop + 1 + (IF Uncounted(s)' THEN 1 ELSE 0) = Cardinality(Below(jp', s))
    <2>1. /\ jp[s].type \in Branch
          /\ jp'[s].pop = jp[s].pop + (IF s = Pjp /\ ret = 1 THEN 1 ELSE 0)
      BY <1>3, <1>5
    <2>2. jp[s].pop + 1 + (IF Uncounted(s) THEN 1 ELSE 0) = Cardinality(Below(jp, s))
      BY <1>1, <2>1 DEF PopInv
    <2>3. s[1] \in Level
      BY SlotKey
    <2>4. Uncounted(s) <=> (s = Pjp /\ ret = 1) \/ Uncounted(s)'
      <3>1. s[1] = level /\ s = Slot(key, s[1]) => s = Pjp
        BY <1>2
      <3>2. CASE WalkUp
        <4>1. /\ pc' = "up" /\ level' = level + 1 /\ key' = key
              /\ ret' = 1 <=> ret = 1
          BY <1>1, <3>2 DEF WalkUp
        <4>2. s[1] >= level <=> s[1] >= level + 1 \/ s[1] = level
          BY <1>2, <2>3 DEF Level
        <4> QED
          BY <1>1, <1>2, <3>1, <4>1, <4>2, SizeAssumption DEF Uncounted, Level
      <3>3. CASE InsDone
        <4>1. pc' = "idle" /\ level = RootLevel
          BY <3>3 DEF InsDone
        <4>2. s[1] >= level => s[1] = level
          BY <2>3, <4>1, SizeAssumption DEF Level
        <4> QED
          BY <1>1, <1>2, <3>1, <4>1, <4>2, SizeAssumption DEF Uncounted, Level
      <3> QED
        BY <3>2, <3>3
    <2>5. ~((s = Pjp /\ ret = 1) /\ Uncounted(s)')
      <3>1. CASE WalkUp
        <4>1. level' = level + 1
          BY <3>1 DEF WalkUp
        <4> QED
          BY <1>2, <4>1, SizeAssumption DEF Uncounted, Level
      <3>2. CASE InsDone
        BY <3>2 DEF InsDone, Uncounted
      <3> QED
        BY <3>1, <3>2
    <2>6. jp[s].pop \in Nat
      BY <1>1, CountsType
    <2> QED
      BY <1>4, <2>1, <2>2, <2>4, <2>5, <2>6
  <1>6. pop0' + 1 + (IF pc' = "up" /\ ret' = 1 THEN 1 ELSE 0) = Cardinality(Content')
    <2>1. pop0 \in Nat /\ pop0 + 1 + (IF ret = 1 THEN 1 ELSE 0) = Cardinality(Content)
      BY <1>1, CountsType DEF PopInv
    <2>2. CASE WalkUp
      BY <1>1, <1>4, <2>1, <2>2 DEF WalkUp
    <2>3. CASE InsDone
      BY <1>1, <1>4, <2>1, <2>3 DEF InsDone, tree
    <2> QED
      BY <2>2, <2>3
  <1> QED
    BY <1>5, <1>6 DEF PopInv

\* Nothing is below a LEAF8.
LEMMA Leaf8Alone ==
    ASSUME FormInv, KeptInv, root = "LEAF8", NEW s \in Slots, s # RootSlot
    PROVE  jp[s].type = "NULL"
  <1> SUFFICES ASSUME jp[s].type # "NULL" PROVE FALSE
    OBVIOUS
  <1>1. PICK k \in Key : Slot(k, s[1]) = s /\ s[1] \in Level
    BY SlotKey
  <1>2. Slot(k, RootLevel) = RootSlot /\ RootLevel \in Level
    BY SizeAssumption DEF Slot, RootSlot, Level
  <1>3. Reaches(jp, k, s[1])
    BY <1>1 DEF FormInv, Formed, Rooted
  <1>4. RootLevel > s[1]
    BY <1>1, <1>2, SizeAssumption DEF Level
  <1>5. Enters(jp[RootSlot], k[RootLevel])
    BY <1>1, <1>2, <1>3, <1>4, ReachesAbove
  <1>6. jp[RootSlot].type = "LEAF"
    BY DEF KeptInv
  <1> QED
    BY <1>5, <1>6 DEF Enters, EntersL, EntersB, EntersU

\* A tree without branches under no JPM has nothing to count.
LEMMA NoBranchPop ==
    ASSUME root' # "JPM", \A s \in Slots : jp'[s].type \notin Branch
    PROVE  PopInv'
  BY DEF PopInv

\* Where neither the tree nor what is owed changes, the counts do not.
LEMMA UnchangedPop ==
    ASSUME PopInv, UNCHANGED tree, pc # "up", pc' # "up"
    PROVE  PopInv'
  BY DEF PopInv, Uncounted, Content, tree

\* The insertions that return without a walk, or start one.
LEMMA InsPop ==
    ASSUME FailSites \subseteq HandledSites, ShapeInv, PopInv, NEW k \in Index, Ins(k)
    PROVE  PopInv'
  <1>0. /\ TypeOK /\ FormInv /\ KeptInv /\ OwnKeys(jp) /\ KeysInLeaves(jp) /\ Formed(jp)
        /\ jp \in [Slots -> JP] /\ RootSlot \in Slots /\ Slot(k, RootLevel) = RootSlot
        /\ RootLevel \in Level /\ RootLevel > 1 /\ k \in Key /\ Reaches(jp, k, RootLevel)
    BY RootSlotType, IndexKey, ReachesRoot, SizeAssumption
       DEF ShapeInv, KeptInv, FormInv, TypeOK, Slot, RootSlot
  <1>1. pc = "idle"
    BY DEF Ins, InsPresent, InsEmpty, InsLeaf8, InsCascade8, InsTree, Callable
  <1>2. "NULL" \notin Branch /\ "LEAF" \notin Branch
    BY DEF Branch
  <1>3. CASE UNCHANGED tree
    <2>1. pc' # "up"
      BY <1>1 DEF Ins, InsPresent, InsEmpty, InsLeaf8, InsCascade8, InsTree,
                  NoMem, Inserted, Answer, StartWalk, frame
    <2> QED
      BY <1>1, <1>3, <2>1, UnchangedPop
  <1>4. CASE InsEmpty(k) /\ ~UNCHANGED tree
    <2>1. /\ root = "NULL" /\ root' = "LEAF8"
          /\ jp' = [jp EXCEPT ![RootSlot] = LeafJP(RootLevel, {k})]
      BY <1>4 DEF InsEmpty, tree
    <2>2. LeafJP(RootLevel, {k}).type = "LEAF"
      BY DEF LeafJP, NullJP
    <2>3. \A s \in Slots : jp[s].type = "NULL"
      BY <1>0, <2>1 DEF FormInv, EmptyTree, NullJP
    <2> QED
      BY <1>0, <1>2, <2>1, <2>2, <2>3, NoBranchPop
  <1>5. CASE InsLeaf8(k) /\ ~UNCHANGED tree
    <2>1. /\ root = "LEAF8" /\ root' = "LEAF8"
          /\ jp' = [jp EXCEPT ![RootSlot].keys = @ \cup {k}]
      BY <1>5 DEF InsLeaf8, tree
    <2>2. jp[RootSlot].type = "LEAF" /\ \A s \in Slots : s # RootSlot => jp[s].type = "NULL"
      BY <1>0, <2>1, Leaf8Alone DEF KeptInv
    <2>3. \A s \in Slots : jp'[s].type = jp[s].type
      BY <1>0, <2>1 DEF JP
    <2> QED
      BY <1>0, <1>2, <2>1, <2>2, <2>3, NoBranchPop
  <1>6. CASE InsCascade8(k) /\ ~UNCHANGED tree
    <2>1. /\ root = "LEAF8" /\ root' = "JPM" /\ pop0' = LEAF8_MAXPOP1 - 1
          /\ jp' = Splay(jp, Slot(k, RootLevel)) /\ pc' = "walk"
          /\ Cardinality(jp[Slot(k, RootLevel)].keys) = LEAF_MAXPOP1[RootLevel]
      BY <1>0, <1>6 DEF InsCascade8, tree, StartWalk, Pop8, LEAF8_MAXPOP1
    <2>2. jp[Slot(k, RootLevel)].type = "LEAF"
      BY <1>0, <2>1 DEF KeptInv
    <2>3. /\ \A j \in Index : Get(jp', j) <=> Get(jp, j)
          /\ jp'[RootSlot].pop + 1 = Cardinality(Below(jp', RootSlot))
          /\ \A x \in Slots : x # RootSlot /\ jp'[x].type \in Branch => jp'[x] = jp[x]
      BY <1>0, <2>1, <2>2, SplayPop
    <2>4. \A x \in Slots : jp'[x].type \in Branch => x = RootSlot
      BY <1>0, <1>2, <2>1, <2>3, Leaf8Alone
    <2>5. Content' = jp[RootSlot].keys
      <3>1. Content' = Content
        BY <2>3 DEF Content
      <3>2. \A j \in Index : Slot(j, RootLevel) = RootSlot
        BY SizeAssumption DEF Slot, RootSlot
      <3>3. Below(jp, RootSlot) = jp[RootSlot].keys
        BY <1>0, <2>2, LeafBelow
      <3>4. Below(jp, RootSlot) = Content
        BY <3>2, RootSlotType DEF Below, Content
      <3> QED
        BY <3>1, <3>3, <3>4
    <2>6. LEAF_MAXPOP1[RootLevel] \in Nat
      BY <1>0, MaxType
    <2>7. pop0' + 1 = Cardinality(Content')
      BY <1>0, <2>1, <2>5, <2>6 DEF LEAF8_MAXPOP1
    <2>8. Cardinality(Below(jp', RootSlot)) \in Nat /\ Cardinality(Content') \in Nat
      <3>1. Below(jp', RootSlot) \in SUBSET Index /\ Content' \in SUBSET Index
        BY DEF Below, Content
      <3> QED
        BY <3>1, KeysFinite
    <2> QED
      BY <2>1, <2>3, <2>4, <2>7, <2>8 DEF PopInv, Uncounted
  <1>7. InsPresent(k) \/ InsTree(k) => UNCHANGED tree
    BY DEF InsPresent, InsTree
  <1> QED
    BY <1>3, <1>4, <1>5, <1>6, <1>7 DEF Ins

\* Every step.
LEMMA NextPop ==
    ASSUME FailSites \subseteq HandledSites, ShapeInv, PopInv, [Next]_vars
    PROVE  PopInv'
  <1>1. ASSUME NEW k \in Index, Del(k) PROVE PopInv'
    BY <1>1, UnchangedPop DEF Del, Callable, Answer, frame
  <1>2. ASSUME NEW v \in Value, Store(v) PROVE PopInv'
    BY <1>2, UnchangedPop DEF Store, Callable, frame
  <1>3. CASE FreeArray
    <2>1. root' = "NULL" /\ jp' = EmptyTree
      BY <1>3 DEF FreeArray
    <2>2. \A s \in Slots : jp'[s].type \notin Branch
      BY <2>1 DEF EmptyTree, NullJP, Branch
    <2> QED
      BY <2>1, <2>2, NoBranchPop
  <1>4. CASE UNCHANGED vars
    BY <1>4 DEF PopInv, Uncounted, Content, vars, tree, frame
  <1> QED
    BY <1>1, <1>2, <1>3, <1>4, InsPop, WalkPop, UpPop DEF Next

(***************************************************************************)
(* When malloc fails only where JudyLIns itself allocates, the population  *)
(* in the JP of every branch, in the JPM and in the byte of every bitmap   *)
(* is that of the keys Get finds there, but for the increments still owed  *)
(* by the frames on the stack: the walk leaves them alone on its way down, *)
(* and the returns bump those of its path and no other, once.  A failure   *)
(* within j__udyInsWalk makes this false, since the frames above do not    *)
(* pass it on.                                                             *)
(***************************************************************************)
THEOREM PopsTold ==
    ASSUME FailSites \subseteq HandledSites
    PROVE  Spec => []PopExact
  <1>1. Init => ShapeInv /\ PopInv
    <2> SUFFICES ASSUME Init PROVE ShapeInv /\ PopInv
      OBVIOUS
    <2>1. \A s \in Slots : jp[s].type = "NULL" /\ jp[s].keys = {}
      BY DEF Init, EmptyTree, NullJP
    <2>2. root = "NULL" /\ pc = "idle" /\ ret = 1 /\ reply.op # "Free" /\ jp = EmptyTree
      BY DEF Init
    <2>3. PopInv
      BY <2>1, <2>2 DEF PopInv, Branch
    <2> QED
      BY <2>1, <2>2, <2>3, InitType, EmptyFormed
         DEF ShapeInv, KeptInv, RootInv, FormInv, OwnKeys, KeysInLeaves
  <1>2. ShapeInv /\ PopInv /\ [Next]_vars => ShapeInv' /\ PopInv'
    BY NextShape, NextPop
  <1>3. ShapeInv /\ PopInv => PopExact
    <2> SUFFICES ASSUME ShapeInv, PopInv, NEW s \in Slots, jp[s].type = "LEAF_B1U"
                 PROVE  JPPop1(jp[s]) = Cardinality(jp[s].keys)
      BY DEF PopExact, PopInv, Reachable
    <2>1. Fits(s[1], jp[s])
      BY DEF ShapeInv, FormInv, Formed
    <2>2. Base \in Nat /\ Cardinality(jp[s].keys) \in 1..Base
      BY <2>1, SizeAssumption DEF Fits
    <2>3. \/ jp[s].pop = Cardinality(jp[s].keys)
          \/ JUDYL /\ Cardinality(jp[s].keys) = Base /\ jp[s].pop = 0
      BY <2>1 DEF Fits
    <2>4. JPPop1(jp[s]) = IF JUDYL /\ jp[s].pop = 0 THEN Base ELSE jp[s].pop
      BY DEF JPPop1, Branch
    <2> QED
      BY <2>2, <2>3, <2>4
  <1> QED
    BY <1>1, <1>2, <1>3, PTL DEF Spec

-----------------------------------------------------------------------------
(* Sums over all slots *)

\* The image of a finite set.
LEMMA FiniteImage ==
    ASSUME NEW S, IsFiniteSet(S), NEW f
    PROVE  IsFiniteSet({f[x] : x \in S})
  <1> DEFINE T == {f[x] : x \in S}
             g == [x \in S |-> f[x]]
  <1>1. g \in Surjection(S, T)
    BY DEF Surjection
  <1> QED
    BY <1>1, FS_Surjection

\* There are finitely many ways to write some digits.
LEMMA FiniteDigits ==
    ASSUME NEW n \in 0..RootLevel
    PROVE  IsFiniteSet([(RootLevel - n + 1)..RootLevel -> Digit])
  <1> DEFINE F(m) == [(RootLevel - m + 1)..RootLevel -> Digit]
             P == {m \in 0..RootLevel : IsFiniteSet(F(m))}
  <1>0. RootLevel \in Nat /\ IsFiniteSet(Digit)
    BY SizeAssumption, DigitsFinite
  <1>1. 0 \in P
    <2>1. (RootLevel - 0 + 1)..RootLevel = {}
      BY <1>0
    <2> DEFINE e == [x \in {} |-> 0]
    <2>2. F(0) = {e}
      BY <2>1
    <2> HIDE DEF F
    <2>3. IsFiniteSet(F(0))
      BY <2>2, FS_Singleton
    <2> QED
      BY <1>0, <2>3
  <1>2. ASSUME NEW m \in 0..(RootLevel - 1), m \in P PROVE m + 1 \in P
    <2> DEFINE a == RootLevel - m
               h == [p \in F(m) \X Digit |->
                        [i \in a..RootLevel |-> IF i = a THEN p[2] ELSE p[1][i]]]
    <2>1. a \in Nat /\ RootLevel - (m + 1) + 1 = a /\ RootLevel - m + 1 = a + 1 /\ m + 1 \in 0..RootLevel
      BY <1>0
    <2>2. IsFiniteSet(F(m) \X Digit)
      BY <1>0, <1>2, FS_Product
    <2>3. \A i \in a..RootLevel : i # a => i \in (a + 1)..RootLevel
      BY <1>0, <2>1
    <2>4. h \in [F(m) \X Digit -> F(m + 1)]
      BY <2>1, <2>3
    <2>5. ASSUME NEW g \in F(m + 1) PROVE \E p \in F(m) \X Digit : h[p] = g
      <3> DEFINE q == [i \in (a + 1)..RootLevel |-> g[i]]
      <3>1. g \in [a..RootLevel -> Digit]
        BY <2>1
      <3>2. (\A i \in (a + 1)..RootLevel : i \in a..RootLevel) /\ a \in a..RootLevel
        BY <1>0, <2>1
      <3>3. q \in [(a + 1)..RootLevel -> Digit] /\ g[a] \in Digit
        BY <3>1, <3>2
      <3>4. <<q, g[a]>> \in F(m) \X Digit
        BY <2>1, <3>3
      <3>5. h[<<q, g[a]>>] = g
        BY <2>3, <3>1, <3>4
      <3> QED
        BY <3>4, <3>5
    <2> HIDE DEF F, h
    <2>6. h \in Surjection(F(m) \X Digit, F(m + 1))
      BY <2>4, <2>5 DEF Surjection
    <2>7. IsFiniteSet(F(m + 1))
      BY <2>2, <2>6, FS_Surjection
    <2> QED
      BY <2>1, <2>7
  <1> HIDE DEF P
  <1>3. n \in P
    BY <1>1, <1>2, UpTo, SizeAssumption
  <1> QED
    BY <1>3 DEF P

\* So there are finitely many slots.
LEMMA FiniteSlots == IsFiniteSet(Slots)
  <1> DEFINE f == [l \in Level |-> {l} \X [(l + 1)..RootLevel -> Digit]]
  <1>1. IsFiniteSet(Level)
    BY SizeAssumption, FS_Interval DEF Level
  <1>2. ASSUME NEW l \in Level PROVE IsFiniteSet(f[l])
    <2>1. RootLevel - l \in 0..RootLevel /\ RootLevel - (RootLevel - l) + 1 = l + 1
      BY SizeAssumption DEF Level
    <2>2. IsFiniteSet([(l + 1)..RootLevel -> Digit])
      BY <2>1, FiniteDigits
    <2>3. IsFiniteSet({l})
      BY FS_Singleton
    <2> QED
      BY <2>2, <2>3, FS_Product
  <1>3. Slots = UNION {f[l] : l \in Level}
    BY DEF Slots
  <1> HIDE DEF f
  <1>4. IsFiniteSet({f[l] : l \in Level})
    BY <1>1, FiniteImage
  <1> QED
    BY <1>2, <1>3, <1>4, FS_UNION

-----------------------------------------------------------------------------
(* The words of a branch *)

\* The words of a JP subarray; one without JPs has none.
ArrayWords == [E \in SUBSET Digit |-> IF E = {} THEN 0 ELSE BJPWords[Cardinality(E)]]

LEMMA ArrayWordsType ==
    ASSUME NEW E \in SUBSET Digit
    PROVE  /\ ArrayWords[E] \in Nat
           /\ E # {} => ArrayWords[E] = BJPWords[Cardinality(E)]
  <1>1. IsFiniteSet(Digit) /\ Cardinality(Digit) = Base
    BY SizeAssumption, FS_Interval DEF Digit
  <1>2. Cardinality(E) \in Nat /\ Cardinality(E) <= Base /\ (E # {} => Cardinality(E) # 0)
    BY <1>1, FS_Subset, FS_CardinalityType, FS_EmptySet
  <1>3. E # {} => Cardinality(E) \in 1..Base
    BY <1>2, SizeAssumption
  <1> QED
    BY <1>3, WordsAssumption DEF ArrayWords

\* The subarrays of a bitmap branch.
Arrays(D) == {SubExp(D, d) : d \in D}

LEMMA ArraysFinite ==
    ASSUME NEW D \in SUBSET Digit
    PROVE  /\ Arrays(D) \subseteq SUBSET Digit /\ IsFiniteSet(Arrays(D))
           /\ \A E \in Arrays(D) : E # {} /\ ArrayWords[E] \in Nat
           /\ BJPArrays(D) = SumFunctionOnSet(ArrayWords, Arrays(D))
  <1>1. Arrays(D) \subseteq SUBSET Digit /\ \A E \in Arrays(D) : E # {}
    BY DEF Arrays, SubExp
  <1>2. IsFiniteSet(Arrays(D))
    BY <1>1, DigitsFinite, FS_SUBSET, FS_Subset
  <1>3. \A E \in Arrays(D) : ArrayWords[E] \in Nat /\ ArrayWords[E] = BJPWords[Cardinality(E)]
    BY <1>1, ArrayWordsType
  <1> DEFINE f == [E \in Arrays(D) |-> BJPWords[Cardinality(E)]]
  <1>4. BJPArrays(D) = SumFunctionOnSet(f, Arrays(D))
    BY DEF BJPArrays, Arrays, SumFunction
  <1>5. \A E \in Arrays(D) : f[E] \in Int /\ ArrayWords[E] = f[E]
    BY <1>3
  <1> HIDE DEF f
  <1>6. SumFunctionOnSet(ArrayWords, Arrays(D)) = SumFunctionOnSet(f, Arrays(D))
    BY <1>2, <1>5, SumSame
  <1> QED
    BY <1>1, <1>2, <1>3, <1>4, <1>6

LEMMA BJPArraysType ==
    ASSUME NEW D \in SUBSET Digit
    PROVE  BJPArrays(D) \in Nat
  BY ArraysFinite, SumType

\* A digit more: its subarray takes the words of one JP more.
LEMMA BJPArraysMore ==
    ASSUME NEW D \in SUBSET Digit, NEW d \in Digit, d \notin D
    PROVE  LET n == Cardinality(SubExp(D, d))
               old == IF n = 0 THEN 0 ELSE BJPWords[n]
           IN  /\ n \in Nat /\ BJPWords[n + 1] \in Nat /\ old \in Nat
               /\ BJPArrays(D \cup {d}) = BJPArrays(D) + BJPWords[n + 1] - old
  <1> DEFINE E == SubExp(D, d)
             n == Cardinality(E)
             old == IF n = 0 THEN 0 ELSE BJPWords[n]
             R == Arrays(D) \ {E}
             F == E \cup {d}
             g == [e \in Digit |-> e \div SUBEXP_B]
             W(T) == SumFunctionOnSet(ArrayWords, T)
  <1>1. /\ E \in SUBSET Digit /\ F \in SUBSET Digit /\ F # {} /\ d \notin E
        /\ IsFiniteSet(E) /\ n \in Nat /\ (n = 0 <=> E = {})
    BY DigitsFinite, FS_EmptySet DEF SubExp
  <1>2. Cardinality(F) = n + 1
    BY <1>1, FS_AddElement
  <1>3. ArrayWords[F] = BJPWords[n + 1] /\ ArrayWords[F] \in Nat
    BY <1>1, <1>2, ArrayWordsType
  <1>4. ArrayWords[E] = old /\ ArrayWords[E] \in Nat
    BY <1>1, ArrayWordsType DEF ArrayWords
  <1>5. /\ Arrays(D) \subseteq SUBSET Digit /\ IsFiniteSet(Arrays(D))
        /\ \A X \in Arrays(D) : X # {} /\ ArrayWords[X] \in Nat
        /\ BJPArrays(D) = W(Arrays(D))
        /\ BJPArrays(D \cup {d}) = W(Arrays(D \cup {d}))
    BY ArraysFinite
  <1>6. Arrays(D \cup {d}) = R \cup {F} /\ F \notin R
    <2>1. \A Y \in SUBSET Digit : \A e \in Digit : SubExp(Y, e) = {x \in Y : g[x] = g[e]}
      BY DEF SubExp
    <2> HIDE DEF g
    <2>2. E = {x \in D : g[x] = g[d]}
      BY <2>1
    <2>3. \A e \in Digit : SubExp(D \cup {d}, e) = {x \in D \cup {d} : g[x] = g[e]}
      BY <2>1
    <2>4. \A e \in D \cup {d} : g[e] = g[d] => SubExp(D \cup {d}, e) = F
      BY <2>2, <2>3
    <2>5. ASSUME NEW e \in D, g[e] # g[d] PROVE SubExp(D \cup {d}, e) = SubExp(D, e)
      <3>1. SubExp(D, e) = {x \in D : g[x] = g[e]}
        BY <2>1
      <3>2. SubExp(D \cup {d}, e) = {x \in D \cup {d} : g[x] = g[e]}
        BY <2>3
      <3> QED
        BY <2>5, <3>1, <3>2
    <2>6. ASSUME NEW e \in D PROVE g[e] = g[d] <=> SubExp(D, e) = E
      <3>1. SubExp(D, e) = {x \in D : g[x] = g[e]} /\ e \in SubExp(D, e)
        BY <2>1
      <3> HIDE DEF E
      <3> QED
        BY <2>2, <3>1
    <2> HIDE DEF E
    <2>7. Arrays(D \cup {d}) = {F} \cup {SubExp(D, e) : e \in {x \in D : g[x] # g[d]}}
      BY <2>4, <2>5 DEF Arrays
    <2>8. R = {SubExp(D, e) : e \in {x \in D : g[x] # g[d]}}
      BY <2>6 DEF Arrays
    <2>9. F \notin R
      BY DEF Arrays, SubExp
    <2> QED
      BY <2>7, <2>8, <2>9
  <1>7. IsFiniteSet(R) /\ \A X \in R \cup {F} : ArrayWords[X] \in Int
    <2>1. IsFiniteSet(R)
      BY <1>5, FS_RemoveElement
    <2> QED
      BY <1>3, <1>5, <2>1
  <1> HIDE DEF E, F
  <1>8. W(R) \in Int /\ W(R \cup {F}) = ArrayWords[F] + W(R)
    BY <1>6, <1>7, SumMore
  <1>9. W(Arrays(D)) = old + W(R)
    <2>1. CASE E \in Arrays(D)
      <3>1. \A X \in Arrays(D) : ArrayWords[X] \in Int
        BY <1>5
      <3>2. W(Arrays(D)) = ArrayWords[E] + W(R)
        BY <1>5, <2>1, <3>1, SumLess
      <3> QED
        BY <1>4, <3>2
    <2>2. CASE E \notin Arrays(D)
      <3>1. E = {}
        <4> SUFFICES ASSUME NEW e \in E PROVE FALSE
          OBVIOUS
        <4>1. e \in D /\ SubExp(D, e) = E
          BY DEF E, SubExp
        <4> QED
          BY <2>2, <4>1 DEF Arrays
      <3>2. R = Arrays(D) /\ old = 0
        BY <1>1, <2>2, <3>1
      <3>3. W(R) = W(Arrays(D))
        BY <3>2
      <3> HIDE DEF W, R, old
      <3> QED
        BY <1>8, <3>2, <3>3
    <2> QED
      BY <2>1, <2>2
  <1>10. old \in Nat /\ BJPWords[n + 1] \in Nat
    BY <1>3, <1>4
  <1>11. BJPArrays(D \cup {d}) = BJPArrays(D) + BJPWords[n + 1] - old
    <2>1. BJPArrays(D \cup {d}) = BJPWords[n + 1] + W(R)
      BY <1>3, <1>5, <1>6, <1>8
    <2>2. BJPArrays(D) = old + W(R)
      BY <1>5, <1>9
    <2> HIDE DEF old, W, n, R
    <2> QED
      BY <1>8, <1>10, <2>1, <2>2
  <1> QED
    BY <1>1, <1>10, <1>11 DEF E

-----------------------------------------------------------------------------
(* The words of a tree *)

\* The words each slot accounts for,
WordsAt(t) == [s \in Slots |-> Words(s[1], t[s])]

\* and all of them.
AllWords(t) == SumFunctionOnSet(WordsAt(t), Slots)

\* Words, a type of JP each.
LEMMA WordsIs ==
    ASSUME NEW l, NEW J
    PROVE  /\ J.type \in {"NULL", "FULLPOPU1"} => Words(l, J) = 0
           /\ J.type = "IMMED" => Words(l, J) = ImmedWords(Cardinality(J.keys))
           /\ J.type = "LEAF" => Words(l, J) = LeafWords[l][Cardinality(J.keys)]
           /\ J.type = "LEAF_B1U" => Words(l, J) = JLB1UWords
           /\ J.type = "BRANCH_L" => Words(l, J) = JBLWords
           /\ J.type = "BRANCH_B" => Words(l, J) = JBBWords + BJPArrays(J.exp)
           /\ J.type = "BRANCH_U" => Words(l, J) = JBUWords
           /\ J.type \in Branch => Words(l, J) = BranchWords(J)
  BY DEF Words, BranchWords, Branch

\* A JP that fits takes a number of words.
LEMMA WordsType ==
    ASSUME NEW l \in Level, NEW J \in JP, Fits(l, J)
    PROVE  Words(l, J) \in Nat
  <1>1. J.type \in {"NULL", "FULLPOPU1", "IMMED", "LEAF", "LEAF_B1U", "BRANCH_L", "BRANCH_B", "BRANCH_U"}
    BY DEF JP, JPType, Branch
  <1>2. J.exp \in SUBSET Digit
    BY DEF JP
  <1>3. JBLWords \in Nat /\ JBBWords \in Nat /\ JBUWords \in Nat /\ JLB1UWords \in Nat
    BY WordsAssumption
  <1>4. CASE J.type = "IMMED"
    <2>1. Cardinality(J.keys) \in 1..Base
      BY <1>4, MaxType, SizeAssumption DEF Fits
    <2>2. ImmedWords(Cardinality(J.keys)) \in Nat
      BY <2>1, WordsAssumption DEF ImmedWords
    <2> QED
      BY <1>4, <2>2, WordsIs
  <1>5. CASE J.type = "LEAF"
    <2>1. Cardinality(J.keys) \in 1..Base
      BY <1>5, MaxType, WordsAssumption, SizeAssumption DEF Fits
    <2>2. LeafWords[l][Cardinality(J.keys)] \in Nat
      BY <2>1, WordsAssumption
    <2> QED
      BY <1>5, <2>2, WordsIs
  <1>6. CASE J.type = "BRANCH_B"
    BY <1>2, <1>3, <1>6, BJPArraysType, WordsIs
  <1>7. CASE J.type \in {"NULL", "FULLPOPU1", "LEAF_B1U", "BRANCH_L", "BRANCH_U"}
    BY <1>3, <1>7, WordsIs
  <1> QED
    BY <1>1, <1>4, <1>5, <1>6, <1>7

\* Every JP of the tree takes a number of words.
Sized(t) == \A s \in Slots : Words(s[1], t[s]) \in Nat

LEMMA FormedSized ==
    ASSUME NEW t \in [Slots -> JP], Formed(t)
    PROVE  Sized(t)
  BY SlotKey, WordsType DEF Sized, Formed

LEMMA AllWordsType ==
    ASSUME NEW t, Sized(t)
    PROVE  AllWords(t) \in Nat
  BY FiniteSlots, SumType DEF Sized, AllWords, WordsAt

\* A JP replaced.
LEMMA PutWords ==
    ASSUME NEW t \in [Slots -> JP], Sized(t), NEW s \in Slots, NEW J, Words(s[1], J) \in Nat
    PROVE  LET u == [t EXCEPT ![s] = J]
           IN  Sized(u) /\ AllWords(u) = AllWords(t) + Words(s[1], J) - Words(s[1], t[s])
  <1> DEFINE u == [t EXCEPT ![s] = J]
             f == WordsAt(t)
             g == WordsAt(u)
  <1>1. \A x \in Slots : u[x] = IF x = s THEN J ELSE t[x]
    OBVIOUS
  <1> HIDE DEF u
  <1>2. \A x \in Slots : f[x] = Words(x[1], t[x]) /\ g[x] = Words(x[1], u[x])
    BY DEF WordsAt
  <1>3. Sized(u)
    BY <1>1 DEF Sized
  <1>4. \A x \in Slots : f[x] \in Int /\ g[x] \in Int /\ (x # s => g[x] = f[x])
    BY <1>1, <1>2, <1>3 DEF Sized
  <1> HIDE DEF f, g
  <1>5. SumFunctionOnSet(g, Slots) = SumFunctionOnSet(f, Slots) + g[s] - f[s]
    BY <1>4, FiniteSlots, SumPut
  <1>6. AllWords(u) = AllWords(t) + Words(s[1], J) - Words(s[1], t[s])
    BY <1>1, <1>2, <1>5 DEF AllWords, f, g
  <1> QED
    BY <1>3, <1>6 DEF u

\* A NULL JP takes no words, so all words are those of the JPs a walk comes to.
LEMMA TreeWordsAll ==
    ASSUME NEW t \in [Slots -> JP], Formed(t)
    PROVE  TreeWords(t) = AllWords(t)
  <1> DEFINE R == Reachable(t)
             Z == Slots \ R
             f == [s \in R |-> Words(s[1], t[s])]
             g == WordsAt(t)
  <1>1. R \subseteq Slots /\ Slots = R \cup Z /\ Z \cap R = {}
    BY DEF Reachable
  <1>2. IsFiniteSet(R) /\ IsFiniteSet(Z)
    BY <1>1, FiniteSlots, FS_Subset
  <1>3. \A s \in Slots : g[s] = Words(s[1], t[s]) /\ g[s] \in Nat
    BY FormedSized DEF WordsAt, Sized
  <1>4. ASSUME NEW s \in Z PROVE g[s] = 0
    <2>1. PICK k \in Key : Slot(k, s[1]) = s /\ s[1] \in Level
      BY <1>1, SlotKey
    <2>2. t[s].type = "NULL"
      BY <2>1, ReachesReachable DEF Formed, Rooted
    <2> QED
      BY <1>3, <2>2, WordsIs
  <1>5. TreeWords(t) = SumFunctionOnSet(f, R)
    BY DEF TreeWords, SumFunction
  <1>6. \A s \in R : g[s] \in Int /\ f[s] = g[s]
    BY <1>1, <1>3
  <1> HIDE DEF f, g, R, Z
  <1>7. SumFunctionOnSet(f, R) = SumFunctionOnSet(g, R)
    BY <1>2, <1>6, SumSame
  <1>8. SumFunctionOnSet(g, Z) = 0
    BY <1>2, <1>4, SumZero
  <1>9. SumFunctionOnSet(g, R \cup Z) = SumFunctionOnSet(g, R) + SumFunctionOnSet(g, Z)
    <2>1. \A s \in R \cup Z : g[s] \in Int
      BY <1>1, <1>3
    <2> QED
      BY <1>1, <1>2, <2>1, SumParts
  <1>10. SumFunctionOnSet(g, R) \in Nat
    BY <1>1, <1>2, <1>3, SumType
  <1> QED
    BY <1>1, <1>5, <1>7, <1>8, <1>9, <1>10 DEF AllWords, g

\* The leaf gives way to a branch and its parts, where there was nothing.
LEMMA SplayAllWords ==
    ASSUME NEW t, TreeOK(t), Formed(t), OwnKeys(t), NEW j \in Key,
           NEW n \in Level, n > 1, Reaches(t, j, n), t[Slot(j, n)].type = "LEAF"
    PROVE  LET s == Slot(j, n)
           IN  /\ SplayWords(t, s) \in Nat /\ Words(n, t[s]) \in Nat
               /\ AllWords(Splay(t, s)) = AllWords(t) + SplayWords(t, s) - Words(n, t[s])
  <1> DEFINE s == Slot(j, n)
             u == Splay(t, s)
             Q == t[s].keys
             D == {k[n] : k \in Q}
             P == {x \in Slots : x # s /\ x[1] = n - 1 /\ Share(Q, x) # {}}
             O == Slots \ P
             f == [d \in D |-> Words(n - 1, SplayJP(n - 1, {k \in Q : k[n] = d}))]
             h == [d \in D |-> Child(s, d)]
             g == WordsAt(t)
             w == WordsAt(u)
             T(v, X) == SumFunctionOnSet(v, X)
  <1>1. /\ s \in Slots /\ s[1] = n /\ n - 1 \in Level /\ Q \in SUBSET Index /\ n \in Int
        /\ t \in [Slots -> JP]
    BY KeySlot, SizeAssumption DEF Level, JP, TreeOK
  <1>2. u \in [Slots -> JP] /\ Formed(u) /\ Sized(u) /\ Sized(t)
    <2>1. TreeOK(u)
      <3>1. /\ u \in [Slots -> JP]
            /\ \A x \in Slots : u[x].type \in Branch => x = s \/ t[x].type \in Branch
        BY <1>1, SplayType
      <3> HIDE DEF u, s
      <3> QED
        BY <1>1, <3>1 DEF TreeOK
    <2>2. Formed(u)
      BY <1>1, SplayFormed
    <2> QED
      BY <1>1, <2>1, <2>2, FormedSized DEF TreeOK
  <1>3. ASSUME NEW k \in Q
        PROVE  /\ k \in Key /\ k \in Index /\ Slot(k, n) = s /\ k[n] \in Digit
               /\ Child(s, k[n]) = Slot(k, n - 1) /\ Slot(k, n - 1) \in P
    <2>1. k \in Key /\ k \in Index /\ Slot(k, n) = s /\ k[n] \in Digit
      BY <1>1, IndexKey, KeySlot DEF OwnKeys
    <2>2. Child(s, k[n]) = Slot(k, n - 1)
      BY <2>1, ChildKey
    <2>3. Slot(k, n - 1) \in Slots /\ Slot(k, n - 1)[1] = n - 1
      BY <1>1, <2>1, KeySlot
    <2>4. k \in Share(Q, Slot(k, n - 1)) /\ Slot(k, n - 1) # s
      BY <1>1, <2>3 DEF Share
    <2> QED
      BY <2>1, <2>2, <2>3, <2>4
  <1>4. ASSUME NEW x \in P PROVE \E k \in Q : Slot(k, n - 1) = x /\ x = h[k[n]] /\ t[x].type = "NULL"
    <2>1. PICK k \in Q : Slot(k, n - 1) = x
      BY DEF Share
    <2>2. ~Reaches(t, k, n - 1)
      <3>1. ~Enters(t[Slot(k, n)], k[n])
        BY <1>3 DEF Enters, EntersL, EntersB, EntersU
      <3>2. n > n - 1
        BY <1>1
      <3> QED
        BY <1>1, <3>1, <3>2, ReachesAbove
    <2>3. t[x].type = "NULL"
      BY <1>1, <1>3, <2>1, <2>2 DEF Formed, Rooted
    <2> QED
      BY <1>3, <2>1, <2>3
  <1>5. ASSUME NEW d \in D
        PROVE  h[d] \in P /\ u[h[d]] = SplayJP(n - 1, {k \in Q : k[n] = d})
    <2>1. PICK k \in Q : k[n] = d
      OBVIOUS
    <2>2. h[d] = Slot(k, n - 1) /\ h[d] \in P
      BY <1>3, <2>1
    <2>3. Share(Q, h[d]) = {i \in Q : i[n] = d}
      <3>1. ASSUME NEW i \in Q PROVE Slot(i, n - 1) = Slot(k, n - 1) <=> i[n] = d
        <4>1. i[n] = k[n] => Slot(i, n - 1) = Slot(k, n - 1)
          BY <1>3
        <4>2. ASSUME Slot(i, n - 1) = Slot(k, n - 1) PROVE i[n] = k[n]
          <5>1. n >= n - 1 /\ n > n - 1
            BY <1>1
          <5> QED
            BY <1>1, <1>3, <4>2, <5>1, SlotsAbove
        <4> QED
          BY <2>1, <4>1, <4>2
      <3>2. h[d][1] = n - 1
        BY <2>2
      <3> QED
        BY <2>2, <3>1, <3>2 DEF Share
    <2>4. u[h[d]] = SplayJP(h[d][1], Share(Q, h[d]))
      <3>1. h[d] \in Slots /\ h[d] # s /\ h[d][1] = s[1] - 1 /\ Share(t[s].keys, h[d]) # {}
        BY <1>1, <2>2
      <3> HIDE DEF h, s
      <3> QED
        BY <1>1, <3>1, SplayPart
    <2> QED
      BY <2>2, <2>3, <2>4
  <1>6. \A c, d \in D : h[c] = h[d] => c = d
    <2> SUFFICES ASSUME NEW i \in Q, NEW k \in Q, Child(s, i[n]) = Child(s, k[n]) PROVE i[n] = k[n]
      OBVIOUS
    <2>1. Slot(i, n - 1) = Slot(k, n - 1) /\ n >= n - 1 /\ n > n - 1
      BY <1>1, <1>3
    <2> QED
      BY <1>1, <1>3, <2>1, SlotsAbove
  <1>7. P = {h[d] : d \in D}
    <2>1. \A k \in Q : k[n] \in D
      OBVIOUS
    <2> HIDE DEF D, P, h
    <2>2. \A x \in P : \E d \in D : x = h[d]
      BY <1>4, <2>1
    <2> QED
      BY <1>5, <2>2
  <1>8. \A x \in Slots : g[x] = Words(x[1], t[x]) /\ w[x] = Words(x[1], u[x]) /\ g[x] \in Nat /\ w[x] \in Nat
    BY <1>2 DEF WordsAt, Sized
  <1>9. D \in SUBSET Digit /\ IsFiniteSet(D) /\ IsFiniteSet(P) /\ IsFiniteSet(O)
    BY <1>3, DigitsFinite, FiniteSlots, FS_Subset
  <1>10. \A d \in D : w[h[d]] = f[d] /\ f[d] \in Nat
    BY <1>5, <1>8
  <1>11. PartWords(t, s, D) = T(f, D)
    BY <1>1 DEF PartWords, SumFunction
  <1>12. Words(n, u[s]) = BranchWords(BranchJP(D, 0)) /\ BranchWords(BranchJP(D, 0)) \in Nat
    <2> DEFINE B == BranchJP(D, LEAF_MAXPOP1[n] - 1)
    <2>1. u[s] = B
      BY <1>1 DEF Splay
    <2>2. /\ B.type \in {"BRANCH_L", "BRANCH_B"} /\ B.type \in Branch
          /\ B.type = BranchJP(D, 0).type /\ B.exp = BranchJP(D, 0).exp
      BY DEF BranchJP, NullJP, Branch
    <2> HIDE DEF B
    <2>3. Words(n, B) = BranchWords(B) /\ BranchWords(B) = BranchWords(BranchJP(D, 0))
      BY <2>2, WordsIs DEF BranchWords
    <2> QED
      BY <1>1, <1>8, <2>1, <2>3
  <1>13. ASSUME NEW x \in O, x # s PROVE w[x] = g[x]
    <2>1. u[x] = t[x]
      BY <1>1, <1>13, SplayRest
    <2> QED
      BY <1>8, <2>1
  <1>14. s \in O /\ O \subseteq Slots /\ P \subseteq Slots /\ Slots = O \cup P /\ O \cap P = {}
    BY <1>1
  <1>15. w[s] = Words(n, u[s]) /\ g[s] = Words(n, t[s])
    BY <1>1, <1>8
  <1>16. SplayWords(t, s) = PartWords(t, s, D) + BranchWords(BranchJP(D, 0))
    BY <1>1 DEF SplayWords
  <1>17. ASSUME NEW x \in P PROVE g[x] = 0
    <2>1. t[x].type = "NULL"
      BY <1>4
    <2>2. Words(x[1], t[x]) = 0
      BY <2>1, WordsIs
    <2> QED
      BY <1>8, <1>14, <2>2
  <1> HIDE DEF f, g, h, w, O, P, D, u, s
  <1>18. T(w, P) = T(f, D)
    BY <1>6, <1>7, <1>9, <1>10, SumImage
  <1>19. T(g, P) = 0
    BY <1>9, <1>17, SumZero
  <1>20. T(w, O) = T(g, O) + w[s] - g[s]
    BY <1>8, <1>9, <1>13, <1>14, SumPut
  <1>21. T(w, Slots) = T(w, O) + T(w, P) /\ T(g, Slots) = T(g, O) + T(g, P)
    BY <1>8, <1>9, <1>14, SumParts
  <1>22. T(f, D) \in Nat /\ T(g, O) \in Nat /\ g[s] \in Nat /\ w[s] \in Nat
    BY <1>8, <1>9, <1>10, <1>14, SumType
  <1>23. AllWords(u) = AllWords(t) + SplayWords(t, s) - Words(n, t[s])
    BY <1>11, <1>12, <1>15, <1>16, <1>18, <1>19, <1>20, <1>21, <1>22 DEF AllWords, g, w
  <1>24. SplayWords(t, s) \in Nat /\ Words(n, t[s]) \in Nat
    BY <1>11, <1>12, <1>15, <1>16, <1>22
  <1> QED
    BY <1>23, <1>24 DEF u, s

-----------------------------------------------------------------------------
(* The words of a step *)

\* What a step allocates and frees is what the tree gains and loses.
Pays ==
    \E a, b \in Int :
        /\ AllWords(jp') = AllWords(jp) + a - b
        /\ Charge(a, b) \/ (a = b /\ UNCHANGED memory)

\* The tree takes the words it took.
LEMMA EvenPays ==
    ASSUME Sized(jp), AllWords(jp') = AllWords(jp), UNCHANGED memory \/ Charge(0, 0)
    PROVE  Pays
  <1>1. AllWords(jp') = AllWords(jp) + 0 - 0
    BY AllWordsType
  <1> QED
    BY <1>1 DEF Pays

\* The JP of the frame is replaced.
LEMMA HereWords ==
    ASSUME TypeOK, pc = "walk", Sized(jp), Sized(jp'), NEW J, jp' = [jp EXCEPT ![Pjp] = J]
    PROVE  /\ AllWords(jp) \in Nat /\ Words(level, J) \in Nat /\ Words(level, Here) \in Nat
           /\ AllWords(jp') = AllWords(jp) + Words(level, J) - Words(level, Here)
  <1>1. /\ Pjp \in Slots /\ Pjp[1] = level /\ jp \in [Slots -> JP] /\ Here = jp[Pjp]
        /\ jp'[Pjp] = J
    BY HereType DEF TypeOK, Here
  <1>2. Words(level, J) \in Nat /\ Words(level, Here) \in Nat
    BY <1>1 DEF Sized
  <1> QED
    BY <1>1, <1>2, PutWords, AllWordsType

\* Another JP pays for itself with what was allocated and freed,
LEMMA PutPays ==
    ASSUME TypeOK, pc = "walk", Sized(jp), Sized(jp'), NEW J, jp' = [jp EXCEPT ![Pjp] = J],
           NEW a \in Int, NEW b \in Int, Words(level, J) = Words(level, Here) + a - b,
           Charge(a, b)
    PROVE  Pays
  <1>0. /\ AllWords(jp) \in Nat /\ Words(level, J) \in Nat /\ Words(level, Here) \in Nat
        /\ AllWords(jp') = AllWords(jp) + Words(level, J) - Words(level, Here)
    BY HereWords
  <1>1. AllWords(jp') = AllWords(jp) + a - b
    BY <1>0
  <1> QED
    BY <1>1 DEF Pays

\* and one of as many words with nothing.
LEMMA PutEvenPays ==
    ASSUME TypeOK, pc = "walk", Sized(jp), Sized(jp'), NEW J, jp' = [jp EXCEPT ![Pjp] = J],
           Words(level, J) = Words(level, Here), UNCHANGED memory \/ Charge(0, 0)
    PROVE  Pays
  <1>0. /\ AllWords(jp) \in Nat /\ Words(level, J) \in Nat /\ Words(level, Here) \in Nat
        /\ AllWords(jp') = AllWords(jp) + Words(level, J) - Words(level, Here)
    BY HereWords
  <1>1. AllWords(jp') = AllWords(jp)
    BY <1>0
  <1> QED
    BY <1>1, EvenPays

\* A branch with a digit more: where its JP comes, there was none.
LEMMA AddedWords ==
    ASSUME TypeOK, KeptInv, FormInv, pc = "walk", Added, Sized(jp')
    PROVE  /\ AllWords(jp) \in Nat
           /\ Here.type = "BRANCH_L" => AllWords(jp') = AllWords(jp)
           /\ Here.type = "BRANCH_B" =>
                 AllWords(jp') = AllWords(jp)
                     + BJPArrays(Here.exp \cup {digit}) - BJPArrays(Here.exp)
  <1> DEFINE c == Slot(key, level - 1)
             J == [Here EXCEPT !.exp = @ \cup {digit}]
             I == ImmedJP({key})
             t == [jp EXCEPT ![Pjp] = J]
             u == [t EXCEPT ![c] = I]
  <1>1. /\ level > 1 /\ level - 1 \in Level
        /\ c \in Slots /\ c[1] = level - 1 /\ c # Pjp
        /\ \A s \in Slots : jp'[s] = IF s = Pjp THEN J ELSE IF s = c THEN I ELSE jp[s]
        /\ J.type = Here.type /\ J.exp = Here.exp \cup {digit}
    BY AddedTree
  <1>2. /\ Pjp \in Slots /\ Pjp[1] = level /\ jp \in [Slots -> JP] /\ Here = jp[Pjp]
        /\ Pjp = Slot(key, level) /\ key \in Key /\ level \in Level /\ digit = key[level]
    BY HereType, IndexKey DEF TypeOK, Here, Pjp, digit
  <1>3. I.type = "IMMED" /\ I.keys = {key}
    BY DEF ImmedJP, NullJP
  <1>4. jp' = u
    BY <1>1, <1>2 DEF Added, AddToBranch, Here
  <1>5. Sized(jp) /\ AllWords(jp) \in Nat
    BY <1>2, FormedSized, AllWordsType DEF FormInv
  <1> HIDE DEF J, I, c
  <1>6. jp[c].type = "NULL"
    <2>1. ~Enters(Here, digit)
      BY DEF Added, Enters, EntersL, EntersB, EntersU
    <2>2. level > level - 1
      BY <1>2, SizeAssumption DEF Level
    <2>3. ~Reaches(jp, key, level - 1)
      BY <1>1, <1>2, <2>1, <2>2, ReachesAbove
    <2> QED
      BY <1>1, <1>2, <2>3 DEF FormInv, Formed, Rooted, c
  <1>7. Words(level - 1, jp[c]) = 0 /\ Words(level - 1, I) = 0
    <2>1. Cardinality({key}) = 1
      BY FS_Singleton
    <2>2. ImmedWords(1) = 0
      BY DEF ImmedWords
    <2> QED
      BY <1>3, <1>6, <2>1, <2>2, WordsIs
  <1>8. Words(level, J) \in Nat /\ J \in JP /\ Words(level, Here) \in Nat
    <2>1. jp'[Pjp] = J
      BY <1>1, <1>2
    <2>2. Words(level, J) \in Nat /\ Words(level, Here) \in Nat
      BY <1>2, <1>5, <2>1 DEF Sized
    <2>3. J \in JP
      BY HereType, FieldType DEF J, JP
    <2> QED
      BY <2>2, <2>3
  <1>9. Sized(t) /\ AllWords(t) = AllWords(jp) + Words(level, J) - Words(level, Here)
    BY <1>2, <1>5, <1>8, PutWords
  <1>10. t \in [Slots -> JP] /\ t[c] = jp[c]
    BY <1>1, <1>2, <1>8
  <1> HIDE DEF t
  <1>11. AllWords(t) \in Nat
    BY <1>9, AllWordsType
  <1>12. AllWords(u) = AllWords(t) + Words(c[1], I) - Words(c[1], t[c])
    <2>1. Words(c[1], I) \in Nat
      BY <1>1, <1>7
    <2> QED
      BY <1>1, <1>9, <1>10, <2>1, PutWords
  <1>13. AllWords(jp') = AllWords(jp) + Words(level, J) - Words(level, Here)
    BY <1>1, <1>4, <1>7, <1>9, <1>10, <1>11, <1>12
  <1>14. Here.type = "BRANCH_L" => Words(level, J) = Words(level, Here)
    BY <1>1, WordsIs
  <1>15. Here.type = "BRANCH_B" =>
             Words(level, J) - Words(level, Here)
                 = BJPArrays(Here.exp \cup {digit}) - BJPArrays(Here.exp)
    <2>1. BJPArrays(Here.exp \cup {digit}) \in Nat /\ BJPArrays(Here.exp) \in Nat /\ JBBWords \in Nat
      <3>1. Here.exp \in SUBSET Digit /\ Here.exp \cup {digit} \in SUBSET Digit
        BY HereType DEF JP
      <3> QED
        BY <3>1, BJPArraysType, WordsAssumption
    <2>2. Here.type = "BRANCH_B" => /\ Words(level, J) = JBBWords + BJPArrays(Here.exp \cup {digit})
                                    /\ Words(level, Here) = JBBWords + BJPArrays(Here.exp)
      BY <1>1, WordsIs
    <2> QED
      BY <2>1, <2>2
  <1>16. BJPArrays(Here.exp \cup {digit}) \in Nat /\ BJPArrays(Here.exp) \in Nat
    <2>1. Here.exp \in SUBSET Digit /\ Here.exp \cup {digit} \in SUBSET Digit
      BY HereType DEF JP
    <2> QED
      BY <2>1, BJPArraysType
  <1> QED
    BY <1>5, <1>8, <1>13, <1>14, <1>15, <1>16

\* The cases of the switch on a branch,
LEMMA BranchPays ==
    ASSUME TypeOK, KeptInv, FormInv, pc = "walk", Sized(jp), Sized(jp'),
           \/ BranchLToU \/ BranchLDescend \/ BranchLInsert \/ BranchLToB
           \/ BranchBToU \/ BranchBDescend \/ BranchBInsert
           \/ BranchUDescend
    PROVE  Pays
  <1>0. /\ Here \in JP /\ digit \in Digit /\ Here.exp \in SUBSET Digit
        /\ JBLWords \in Nat /\ JBBWords \in Nat /\ JBUWords \in Nat
        /\ BJPArrays(Here.exp) \in Nat
    BY HereType, WordsAssumption, BJPArraysType DEF JP
  <1>1. ASSUME NEW site, WalkFails(site) PROVE Pays
    BY <1>1, EvenPays DEF WalkFails
  <1>2. CASE BranchLToU \/ BranchBToU
    <2> DEFINE J == [Here EXCEPT !.type = "BRANCH_U", !.exp = {},
                                 !.sums = Sums8(jp, Pjp, Here.exp)]
               b == IF Here.type = "BRANCH_L" THEN JBLWords ELSE JBBWords + BJPArrays(Here.exp)
    <2>1. Here.type \in {"BRANCH_L", "BRANCH_B"}
      BY <1>2 DEF BranchLToU, BranchBToU
    <2>2. WalkFails("JBU") \/ (jp' = [jp EXCEPT ![Pjp] = J] /\ Charge(JBUWords, b))
      BY <1>2 DEF BranchLToU, BranchBToU
    <2>3. J.type = "BRANCH_U"
      BY <1>0 DEF JP
    <2> HIDE DEF J
    <2>4. Words(level, J) = JBUWords /\ Words(level, Here) = b /\ b \in Int
      BY <1>0, <2>1, <2>3, WordsIs
    <2> HIDE DEF b
    <2>5. Words(level, J) = Words(level, Here) + JBUWords - b
      BY <1>0, <2>4
    <2> QED
      BY <1>0, <1>1, <2>2, <2>4, <2>5, PutPays
  <1>3. CASE BranchLToB
    <2> DEFINE J == [Here EXCEPT !.type = "BRANCH_B"]
               a == JBBWords + BJPArrays(Here.exp)
    <2>1. Here.type = "BRANCH_L"
      BY <1>3 DEF BranchLToB
    <2>2. WalkFails("JBB") \/ (jp' = [jp EXCEPT ![Pjp] = J] /\ Charge(a, JBLWords))
      BY <1>3 DEF BranchLToB, Here
    <2>3. J.type = "BRANCH_B" /\ J.exp = Here.exp
      BY <1>0 DEF JP
    <2> HIDE DEF J
    <2>4. Words(level, J) = a /\ Words(level, Here) = JBLWords /\ a \in Int
      BY <1>0, <2>1, <2>3, WordsIs
    <2> HIDE DEF a
    <2>5. Words(level, J) = Words(level, Here) + a - JBLWords
      BY <1>0, <2>4
    <2> QED
      BY <1>0, <1>1, <2>2, <2>4, <2>5, PutPays
  <1>4. CASE BranchLDescend \/ BranchBDescend
    BY <1>4, EvenPays DEF BranchLDescend, BranchBDescend
  <1>5. CASE BranchUDescend
    <2> DEFINE J == [Here EXCEPT !.sums = Bump(@, digit \div GROUP8)]
    <2>1. Here.type = "BRANCH_U" /\ jp' = [jp EXCEPT ![Pjp] = J] /\ UNCHANGED memory
      BY <1>5 DEF BranchUDescend, Here
    <2>2. J.type = "BRANCH_U"
      BY <1>0, <2>1 DEF JP
    <2> HIDE DEF J
    <2>3. Words(level, J) = JBUWords /\ Words(level, Here) = JBUWords
      BY <2>1, <2>2, WordsIs
    <2> QED
      BY <2>1, <2>3, PutEvenPays
  <1>6. CASE BranchLInsert
    <2>1. Added /\ Here.type = "BRANCH_L" /\ Charge(0, 0)
      BY <1>6 DEF BranchLInsert, Added
    <2>2. AllWords(jp') = AllWords(jp)
      BY <2>1, AddedWords
    <2> QED
      BY <2>1, <2>2, EvenPays
  <1>7. CASE BranchBInsert
    <2> DEFINE n == Cardinality(SubExp(Here.exp, digit))
               old == IF n = 0 THEN 0 ELSE BJPWords[n]
    <2>1. /\ Here.type = "BRANCH_B" /\ digit \notin Here.exp
          /\ \/ BJPGrowInPlace(n) /\ Added /\ Charge(0, 0)
             \/ ~BJPGrowInPlace(n) /\ Added /\ Charge(BJPWords[n + 1], old)
             \/ WalkFails("JBBJP")
      BY <1>7 DEF BranchBInsert, Added
    <2>2. /\ n \in Nat /\ BJPWords[n + 1] \in Nat /\ old \in Nat
          /\ BJPArrays(Here.exp \cup {digit}) = BJPArrays(Here.exp) + BJPWords[n + 1] - old
      BY <1>0, <2>1, BJPArraysMore
    <2>3. BJPGrowInPlace(n) => BJPWords[n + 1] = old
      BY <2>2 DEF BJPGrowInPlace
    <2> HIDE DEF n, old
    <2>4. ASSUME Added
          PROVE  AllWords(jp) \in Nat /\ AllWords(jp') = AllWords(jp) + BJPWords[n + 1] - old
      <3>1. /\ AllWords(jp) \in Nat
            /\ AllWords(jp') = AllWords(jp)
                   + BJPArrays(Here.exp \cup {digit}) - BJPArrays(Here.exp)
        BY <2>1, <2>4, AddedWords
      <3> QED
        BY <1>0, <2>2, <3>1
    <2>5. CASE BJPGrowInPlace(n) /\ Added /\ Charge(0, 0)
      <3>1. AllWords(jp') = AllWords(jp)
        BY <2>2, <2>3, <2>4, <2>5
      <3> QED
        BY <2>5, <3>1, EvenPays
    <2>6. CASE Added /\ Charge(BJPWords[n + 1], old)
      BY <2>2, <2>4, <2>6 DEF Pays
    <2> QED
      BY <1>1, <2>1, <2>5, <2>6
  <1> QED
    BY <1>2, <1>3, <1>4, <1>5, <1>6, <1>7

\* on a leaf,
LEMMA LeafPays ==
    ASSUME TypeOK, KeptInv, FormInv, pc = "walk", Sized(jp), Sized(jp'), key \notin Here.keys,
           LeafInsert \/ LeafCascade \/ Leaf1ToB1U \/ LeafB1UInsert
    PROVE  Pays
  <1> DEFINE n == Cardinality(Here.keys)
  <1>0. /\ Here \in JP /\ level \in Level /\ JLB1UWords \in Nat
        /\ n \in Nat /\ Cardinality(Here.keys \cup {key}) = n + 1
    BY HereType, OneMore, WordsAssumption
  <1>1. ASSUME NEW site, LeafFails(site), Here.type = "LEAF" PROVE Pays
    <2> DEFINE J == [Here EXCEPT !.sums = IF level = 2 THEN Counted ELSE Here.sums]
    <2>1. jp' = [jp EXCEPT ![Pjp] = J] /\ UNCHANGED memory
      BY <1>1 DEF LeafFails, Here
    <2>2. J.type = "LEAF" /\ J.keys = Here.keys
      BY <1>0, <1>1 DEF JP
    <2> HIDE DEF J
    <2>3. Words(level, J) = Words(level, Here)
      BY <1>1, <2>2, WordsIs
    <2> QED
      BY <2>1, <2>3, PutEvenPays
  <1>2. ASSUME NEW J, J.type = "LEAF", J.keys = Here.keys \cup {key}, Here.type = "LEAF",
               LeafBecomes(J, n)
        PROVE  Pays
    <2>1. \/ LeafGrowInPlace(level, n) /\ jp' = [jp EXCEPT ![Pjp] = J] /\ Charge(0, 0)
          \/ /\ jp' = [jp EXCEPT ![Pjp] = J]
             /\ Charge(LeafWords[level][n + 1], LeafWords[level][n])
          \/ LeafFails("Leaf")
      BY <1>2 DEF LeafBecomes
    <2>2. Words(level, J) = LeafWords[level][n + 1] /\ Words(level, Here) = LeafWords[level][n]
      BY <1>0, <1>2, WordsIs
    <2>3. LeafGrowInPlace(level, n) => Words(level, J) = Words(level, Here)
      BY <2>2 DEF LeafGrowInPlace
    <2>4. CASE LeafGrowInPlace(level, n) /\ jp' = [jp EXCEPT ![Pjp] = J] /\ Charge(0, 0)
      BY <2>3, <2>4, PutEvenPays
    <2>5. CASE /\ jp' = [jp EXCEPT ![Pjp] = J]
               /\ Charge(LeafWords[level][n + 1], LeafWords[level][n])
      <3>1. /\ AllWords(jp) \in Nat /\ Words(level, J) \in Nat /\ Words(level, Here) \in Nat
            /\ AllWords(jp') = AllWords(jp) + Words(level, J) - Words(level, Here)
        BY <2>5, HereWords
      <3> QED
        BY <2>2, <2>5, <3>1 DEF Pays
    <2> QED
      BY <1>1, <1>2, <2>1, <2>4, <2>5
  <1>3. CASE LeafInsert
    <2> DEFINE J == GrownLeaf
               K == [GrownLeaf EXCEPT !.sums = Counted]
    <2>1. Here.type = "LEAF" /\ (LeafBecomes(J, n) \/ LeafBecomes(K, n))
      BY <1>3 DEF LeafInsert, Leaf1Insert, Leaf2Insert, LeafWideInsert
    <2>2. /\ J.type = "LEAF" /\ J.keys = Here.keys \cup {key}
          /\ K.type = "LEAF" /\ K.keys = Here.keys \cup {key}
      BY <1>0, <2>1 DEF GrownLeaf, JP
    <2> HIDE DEF J, K
    <2> QED
      BY <1>2, <2>1, <2>2
  <1>4. CASE LeafCascade
    <2>1. /\ Here.type = "LEAF" /\ level > 1
          /\ \/ LeafFails("Cascade")
             \/ jp' = Splay(jp, Pjp) /\ Charge(SplayWords(jp, Pjp), Words(level, Here))
      BY <1>4 DEF LeafCascade
    <2>2. CASE jp' = Splay(jp, Pjp) /\ Charge(SplayWords(jp, Pjp), Words(level, Here))
      <3>1. /\ TreeOK(jp) /\ Formed(jp) /\ OwnKeys(jp) /\ key \in Key /\ Pjp = Slot(key, level)
            /\ Reaches(jp, key, level) /\ jp[Slot(key, level)] = Here
        BY HereType, IndexKey DEF KeptInv, FormInv, Pjp, Here
      <3>2. /\ SplayWords(jp, Pjp) \in Nat /\ Words(level, Here) \in Nat
            /\ AllWords(jp') = AllWords(jp) + SplayWords(jp, Pjp) - Words(level, Here)
        BY <1>0, <2>1, <2>2, <3>1, SplayAllWords
      <3> QED
        BY <2>2, <3>2 DEF Pays
    <2> QED
      BY <1>1, <2>1, <2>2
  <1>5. CASE Leaf1ToB1U
    <2> DEFINE J == LeafB1UJP(Here.keys)
    <2>1. /\ Here.type = "LEAF" /\ level = 1
          /\ \/ LeafFails("JLB1U")
             \/ jp' = [jp EXCEPT ![Pjp] = J] /\ Charge(JLB1UWords, Words(1, Here))
      BY <1>5 DEF Leaf1ToB1U
    <2>2. J.type = "LEAF_B1U"
      BY DEF LeafB1UJP, NullJP
    <2> HIDE DEF J
    <2>3. CASE jp' = [jp EXCEPT ![Pjp] = J] /\ Charge(JLB1UWords, Words(1, Here))
      <3>1. /\ AllWords(jp) \in Nat /\ Words(level, J) \in Nat /\ Words(level, Here) \in Nat
            /\ AllWords(jp') = AllWords(jp) + Words(level, J) - Words(level, Here)
        BY <2>3, HereWords
      <3>2. Words(level, J) = JLB1UWords
        BY <2>2, WordsIs
      <3> QED
        BY <2>1, <2>3, <3>1, <3>2 DEF Pays
    <2> QED
      BY <1>1, <2>1, <2>3
  <1>6. CASE LeafB1UInsert
    <2> DEFINE K == Here.keys \cup {key}
               J == [Here EXCEPT !.keys = K, !.pop = (@ + 1) % Base]
               F == FullPopJP(K)
    <2>1. /\ Here.type = "LEAF_B1U"
          /\ \/ jp' = [jp EXCEPT ![Pjp] = J] /\ Charge(0, 0)
             \/ jp' = [jp EXCEPT ![Pjp] = F] /\ Charge(0, JLB1UWords)
      BY <1>6 DEF LeafB1UInsert
    <2>2. J.type = "LEAF_B1U" /\ F.type = "FULLPOPU1"
      BY <1>0, <2>1 DEF FullPopJP, NullJP, JP
    <2> HIDE DEF J, F
    <2>3. /\ Words(level, Here) = JLB1UWords /\ Words(level, J) = JLB1UWords
          /\ Words(level, F) = 0
      BY <2>1, <2>2, WordsIs
    <2>4. CASE jp' = [jp EXCEPT ![Pjp] = J] /\ Charge(0, 0)
      <3>1. Words(level, J) = Words(level, Here)
        BY <2>3
      <3> QED
        BY <2>4, <3>1, PutEvenPays
    <2>5. CASE jp' = [jp EXCEPT ![Pjp] = F] /\ Charge(0, JLB1UWords)
      <3>1. /\ AllWords(jp) \in Nat
            /\ AllWords(jp') = AllWords(jp) + Words(level, F) - Words(level, Here)
        BY <2>5, HereWords
      <3>2. AllWords(jp') = AllWords(jp) + 0 - JLB1UWords
        BY <2>3, <3>1
      <3> QED
        BY <1>0, <2>5, <3>2 DEF Pays
    <2> QED
      BY <2>1, <2>4, <2>5
  <1> QED
    BY <1>3, <1>4, <1>5, <1>6

\* and on an immediate.
LEMMA ImmedPays ==
    ASSUME TypeOK, KeptInv, FormInv, pc = "walk", Sized(jp), Sized(jp'), key \notin Here.keys,
           \/ WalkNull \/ Immed01Grow \/ ImmedGrow \/ Immed01ToLeaf \/ ImmedToLeaf
           \/ Immed1ToLeaf
    PROVE  Pays
  <1> DEFINE n == Cardinality(Here.keys)
             K == Here.keys \cup {key}
             G == [Here EXCEPT !.keys = K]
             L == LeafJP(level, K)
  <1>0. /\ Here \in JP /\ level \in Level /\ JLB1UWords \in Nat
        /\ n \in Nat /\ Cardinality(K) = n + 1
    BY HereType, OneMore, WordsAssumption
  <1>1. /\ G.type = Here.type /\ G.keys = K
        /\ L.type = "LEAF" /\ L.keys = K
    BY <1>0 DEF JP, LeafJP, NullJP
  <1> HIDE DEF n, K, G, L
  <1>2. ASSUME NEW J, jp' = [jp EXCEPT ![Pjp] = J]
        PROVE  /\ AllWords(jp) \in Nat /\ Words(level, J) \in Nat /\ Words(level, Here) \in Nat
               /\ AllWords(jp') = AllWords(jp) + Words(level, J) - Words(level, Here)
    BY <1>2, HereWords
  <1>3. ASSUME NEW site, WalkFails(site) PROVE Pays
    BY <1>3, EvenPays DEF WalkFails
  <1>4. Here.type = "IMMED" => /\ Words(level, Here) = ImmedWords(n)
                               /\ Words(level, G) = ImmedWords(n + 1)
    BY <1>0, <1>1, WordsIs DEF n
  <1>5. Words(level, L) = LeafWords[level][n + 1]
    BY <1>0, <1>1, WordsIs
  <1>6. ImmedWords(1) = 0 /\ (~JUDYL => \A m : ImmedWords(m) = 0)
    BY DEF ImmedWords
  <1>7. CASE WalkNull
    <2> DEFINE J == ImmedJP({key})
    <2>1. Here.type = "NULL" /\ jp' = [jp EXCEPT ![Pjp] = J] /\ Charge(0, 0)
      BY <1>7 DEF WalkNull
    <2>2. J.type = "IMMED" /\ Cardinality(J.keys) = 1
      BY FS_Singleton DEF ImmedJP, NullJP
    <2> HIDE DEF J
    <2>3. Words(level, J) = Words(level, Here)
      BY <1>6, <2>1, <2>2, WordsIs
    <2> QED
      BY <2>1, <2>3, PutEvenPays
  <1>8. CASE Immed01Grow
    <2>1. /\ Here.type = "IMMED" /\ n = 1
          /\ \/ jp' = [jp EXCEPT ![Pjp] = G] /\ Charge(ImmedWords(2), 0)
             \/ WalkFails("JV")
      BY <1>8 DEF Immed01Grow, n, G, K, Here
    <2>2. CASE jp' = [jp EXCEPT ![Pjp] = G] /\ Charge(ImmedWords(2), 0)
      <3>1. Words(level, G) = ImmedWords(2) /\ Words(level, Here) = 0
        BY <1>4, <1>6, <2>1
      <3>2. AllWords(jp') = AllWords(jp) + ImmedWords(2) - 0 /\ ImmedWords(2) \in Nat
        BY <1>2, <2>2, <3>1
      <3> QED
        BY <2>2, <3>2 DEF Pays
    <2> QED
      BY <1>3, <2>1, <2>2
  <1>9. CASE ImmedGrow
    <2> DEFINE moves == JUDYL /\ ~JVGrowInPlace(n)
    <2>1. /\ Here.type = "IMMED" /\ n > 1
          /\ \/ /\ jp' = [jp EXCEPT ![Pjp] = G]
                /\ IF moves THEN Charge(ImmedWords(n + 1), ImmedWords(n)) ELSE Charge(0, 0)
             \/ ImmedShifted /\ UNCHANGED memory
      BY <1>9 DEF ImmedGrow, n, G, K, Here
    <2>2. CASE jp' = [jp EXCEPT ![Pjp] = G] /\ moves /\ Charge(ImmedWords(n + 1), ImmedWords(n))
      <3>1. /\ AllWords(jp') = AllWords(jp) + Words(level, G) - Words(level, Here)
            /\ Words(level, G) \in Nat /\ Words(level, Here) \in Nat
        BY <1>2, <2>2
      <3> QED
        BY <1>4, <2>1, <2>2, <3>1 DEF Pays
    <2>3. CASE jp' = [jp EXCEPT ![Pjp] = G] /\ ~moves /\ Charge(0, 0)
      <3>1. ImmedWords(n + 1) = ImmedWords(n)
        BY <1>0, <2>1, <2>3 DEF JVGrowInPlace, ImmedWords
      <3>2. Words(level, G) = Words(level, Here)
        BY <1>4, <2>1, <3>1
      <3> QED
        BY <2>3, <3>2, PutEvenPays
    <2>4. CASE ImmedShifted /\ UNCHANGED memory
      <3> DEFINE Left == {k \in K : Rank(k, K) < n}
                 J == [Here EXCEPT !.keys = Left]
      <3>1. jp' = [jp EXCEPT ![Pjp] = J]
        BY <2>4 DEF ImmedShifted, K, n, Here
      <3>2. J.type = "IMMED" /\ J.keys = Left
        BY <1>0, <2>1 DEF JP
      <3>3. K \in SUBSET Index
        BY <1>0, HereType DEF K, JP
      <3>4. Cardinality(Left) = n
        BY <1>0, <3>3, ShiftedCount
      <3> HIDE DEF J, Left
      <3>5. Words(level, J) = Words(level, Here)
        BY <1>4, <2>1, <3>2, <3>4, WordsIs
      <3> QED
        BY <2>4, <3>1, <3>5, PutEvenPays
    <2> QED
      BY <2>1, <2>2, <2>3, <2>4
  <1>10. CASE Immed01ToLeaf
    <2>1. /\ Here.type = "IMMED" /\ n = 1
          /\ \/ jp' = [jp EXCEPT ![Pjp] = L] /\ Charge(LeafWords[level][2], 0)
             \/ WalkFails("Leaf")
      BY <1>10 DEF Immed01ToLeaf, n, L, K
    <2>2. CASE jp' = [jp EXCEPT ![Pjp] = L] /\ Charge(LeafWords[level][2], 0)
      <3>1. Words(level, L) = LeafWords[level][2] /\ Words(level, Here) = 0
        BY <1>4, <1>5, <1>6, <2>1
      <3>2. AllWords(jp') = AllWords(jp) + LeafWords[level][2] - 0 /\ LeafWords[level][2] \in Nat
        BY <1>2, <2>2, <3>1
      <3> QED
        BY <2>2, <3>2 DEF Pays
    <2> QED
      BY <1>3, <2>1, <2>2
  <1>11. CASE ImmedToLeaf
    <2>1. /\ Here.type = "IMMED"
          /\ \/ jp' = [jp EXCEPT ![Pjp] = L] /\ Charge(LeafWords[level][n + 1], ImmedWords(n))
             \/ WalkFails("Leaf")
      BY <1>11 DEF ImmedToLeaf, n, L, K
    <2>2. CASE jp' = [jp EXCEPT ![Pjp] = L] /\ Charge(LeafWords[level][n + 1], ImmedWords(n))
      <3>1. /\ AllWords(jp') = AllWords(jp) + Words(level, L) - Words(level, Here)
            /\ Words(level, L) \in Nat /\ Words(level, Here) \in Nat
        BY <1>2, <2>2
      <3> QED
        BY <1>4, <1>5, <2>1, <2>2, <3>1 DEF Pays
    <2> QED
      BY <1>3, <2>1, <2>2
  <1>12. CASE Immed1ToLeaf
    <2> DEFINE J == IF JUDYL THEN LeafJP(1, Here.keys) ELSE LeafB1UJP(Here.keys)
               a == IF JUDYL THEN LeafWords[1][n] ELSE JLB1UWords
    <2>1. /\ Here.type = "IMMED" /\ level = 1
          /\ \/ jp' = [jp EXCEPT ![Pjp] = J] /\ Charge(a, ImmedWords(n))
             \/ jp' = jp /\ UNCHANGED memory
      BY <1>12 DEF Immed1ToLeaf, n
    <2>2. CASE jp' = [jp EXCEPT ![Pjp] = J] /\ Charge(a, ImmedWords(n))
      <3>1. IF JUDYL THEN J.type = "LEAF" /\ J.keys = Here.keys ELSE J.type = "LEAF_B1U"
        BY DEF LeafJP, LeafB1UJP, NullJP
      <3> HIDE DEF J
      <3>2. Words(level, J) = a
        BY <2>1, <3>1, WordsIs DEF n
      <3> HIDE DEF a
      <3>3. /\ AllWords(jp') = AllWords(jp) + Words(level, J) - Words(level, Here)
            /\ Words(level, J) \in Nat /\ Words(level, Here) \in Nat
        BY <1>2, <2>2
      <3> QED
        BY <1>4, <2>1, <2>2, <3>2, <3>3 DEF Pays
    <2> QED
      BY <2>1, <2>2, EvenPays
  <1> QED
    BY <1>7, <1>8, <1>9, <1>10, <1>11, <1>12

\* So every case of the switch pays for what it does.
LEMMA WalkPays ==
    ASSUME TypeOK, TypeOK', KeptInv, FormInv, FormInv', Walk
    PROVE  Pays
  <1>1. Sized(jp) /\ Sized(jp')
    BY FormedSized DEF TypeOK, FormInv
  <1>2. CASE WalkPresent
    BY <1>1, <1>2, EvenPays DEF WalkPresent
  <1>3. CASE WalkAbsent
    BY <1>1, <1>3, BranchPays, LeafPays, ImmedPays DEF Walk, WalkAbsent
  <1> QED
    BY <1>2, <1>3 DEF Walk

-----------------------------------------------------------------------------
(* Memory told *)

\* jpm_TotalMemWords, over all slots.
MemInv == memWords = IF root = "JPM" THEN JPMWords + AllWords(jp) ELSE 0

\* A frame that returns counts a key, and words are those of before.
LEMMA UpWords ==
    ASSUME TypeOK, FormInv, WalkUp \/ InsDone
    PROVE  AllWords(jp') = AllWords(jp) /\ UNCHANGED memory /\ UNCHANGED root
  <1>1. /\ pc = "up" /\ jp \in [Slots -> JP] /\ key \in Index /\ level \in Level
        /\ Pjp \in Slots /\ Pjp[1] = level /\ UNCHANGED memory /\ UNCHANGED root
    BY SlotType DEF TypeOK, WalkUp, InsDone, Pjp, tree
  <1> DEFINE J == [jp[Pjp] EXCEPT !.pop = jp[Pjp].pop + 1]
  <1>2. jp' = jp \/ jp' = [jp EXCEPT ![Pjp] = J]
    BY DEF WalkUp, InsDone, tree
  <1>3. jp[Pjp] \in JP
    BY <1>1
  <1>4. J.type = jp[Pjp].type /\ J.keys = jp[Pjp].keys /\ J.exp = jp[Pjp].exp
    BY <1>3 DEF JP
  <1> HIDE DEF J
  <1>5. Words(level, J) = Words(level, jp[Pjp])
    BY <1>4 DEF Words, BranchWords
  <1>6. Sized(jp) /\ Words(level, jp[Pjp]) \in Nat /\ AllWords(jp) \in Nat
    BY <1>1, FormedSized, AllWordsType DEF FormInv, Sized
  <1>7. jp' = [jp EXCEPT ![Pjp] = J] => AllWords(jp') = AllWords(jp)
    <2> SUFFICES ASSUME jp' = [jp EXCEPT ![Pjp] = J] PROVE AllWords(jp') = AllWords(jp)
      OBVIOUS
    <2>1. AllWords(jp') = AllWords(jp) + Words(level, J) - Words(level, jp[Pjp])
      BY <1>1, <1>5, <1>6, PutWords
    <2> QED
      BY <1>5, <1>6, <2>1
  <1> QED
    BY <1>1, <1>2, <1>7

\* A root-level leaf is all there is.
LEMMA Leaf8Words ==
    ASSUME TypeOK, KeptInv, FormInv, root = "LEAF8"
    PROVE  /\ Words(RootLevel, jp[RootSlot]) = LeafWords[RootLevel][Pop8]
           /\ Words(RootLevel, jp[RootSlot]) \in Nat
           /\ AllWords(jp) = Words(RootLevel, jp[RootSlot])
  <1> DEFINE f == WordsAt(jp)
             R == {RootSlot}
             Z == Slots \ R
  <1>1. RootSlot \in Slots /\ RootSlot[1] = RootLevel /\ jp[RootSlot].type = "LEAF" /\ Sized(jp)
    BY RootSlotType, FormedSized DEF KeptInv, FormInv, TypeOK
  <1>2. Words(RootLevel, jp[RootSlot]) = LeafWords[RootLevel][Pop8]
    BY <1>1, WordsIs DEF Pop8
  <1>3. Words(RootLevel, jp[RootSlot]) \in Nat
    BY <1>1 DEF Sized
  <1>4. ASSUME NEW s \in Z PROVE f[s] = 0
    <2>1. jp[s].type = "NULL"
      BY Leaf8Alone
    <2> QED
      BY <2>1, WordsIs DEF WordsAt
  <1>5. \A s \in Slots : f[s] \in Int
    BY <1>1 DEF WordsAt, Sized
  <1>6. f[RootSlot] = Words(RootLevel, jp[RootSlot])
    BY <1>1 DEF WordsAt
  <1>7. IsFiniteSet(Z) /\ Slots = Z \cup R /\ RootSlot \notin Z
    BY <1>1, FiniteSlots, FS_Subset
  <1> HIDE DEF f, Z
  <1>8. SumFunctionOnSet(f, Z) = 0
    BY <1>4, <1>7, SumZero
  <1>9. SumFunctionOnSet(f, Z \cup {RootSlot}) = f[RootSlot] + SumFunctionOnSet(f, Z)
    BY <1>5, <1>7, SumMore
  <1>10. AllWords(jp) = Words(RootLevel, jp[RootSlot])
    BY <1>3, <1>6, <1>7, <1>8, <1>9 DEF AllWords, f
  <1> QED
    BY <1>2, <1>3, <1>10

\* The splay of a full root-level leaf makes the words of the tree.
LEMMA Cascade8Words ==
    ASSUME TypeOK, KeptInv, FormInv, root = "LEAF8", NEW k \in Index
    PROVE  SplayWords(jp, RootSlot) \in Nat /\ AllWords(Splay(jp, RootSlot)) = SplayWords(jp, RootSlot)
  <1>1. /\ k \in Key /\ Slot(k, RootLevel) = RootSlot /\ RootLevel \in Level /\ RootLevel > 1
        /\ Reaches(jp, k, RootLevel)
    BY IndexKey, RootSlotType, ReachesRoot, SizeAssumption DEF Slot, RootSlot
  <1>2. TreeOK(jp) /\ Formed(jp) /\ OwnKeys(jp) /\ jp[RootSlot].type = "LEAF"
    BY DEF TypeOK, TreeOK, KeptInv, FormInv
  <1>3. /\ SplayWords(jp, RootSlot) \in Nat /\ Words(RootLevel, jp[RootSlot]) \in Nat
        /\ AllWords(Splay(jp, RootSlot))
               = AllWords(jp) + SplayWords(jp, RootSlot) - Words(RootLevel, jp[RootSlot])
    BY <1>1, <1>2, SplayAllWords
  <1> QED
    BY <1>3, Leaf8Words

\* The calls that start an insertion.
LEMMA InsMem ==
    ASSUME TypeOK, KeptInv, FormInv, MemInv, NEW k \in Index, Ins(k)
    PROVE  MemInv'
  <1>0. JPMWords \in Nat
    BY WordsAssumption
  <1>1. CASE InsPresent(k) \/ InsTree(k)
    BY <1>1 DEF InsPresent, InsTree, MemInv, tree, memory
  <1>2. CASE InsEmpty(k) \/ InsLeaf8(k)
    <2>1. root # "JPM" /\ root' # "JPM" /\ memWords' = memWords
      BY <1>2 DEF InsEmpty, InsLeaf8
    <2> QED
      BY <2>1 DEF MemInv
  <1>3. CASE InsCascade8(k)
    <2>1. /\ root = "LEAF8"
          /\ \/ UNCHANGED <<tree, memWords>>
             \/ /\ root' = "JPM" /\ jp' = Splay(jp, RootSlot)
                /\ memWords' = JPMWords + SplayWords(jp, RootSlot)
      BY <1>3 DEF InsCascade8, memory
    <2> QED
      BY <2>1, Cascade8Words DEF MemInv, tree
  <1> QED
    BY <1>1, <1>2, <1>3 DEF Ins

\* Every step.
LEMMA NextMem ==
    ASSUME TypeOK, TypeOK', KeptInv, FormInv, FormInv', MemInv, [Next]_vars
    PROVE  MemInv'
  <1>1. ASSUME NEW k \in Index, Del(k) PROVE MemInv'
    BY <1>1 DEF Del, MemInv, tree, memory
  <1>2. ASSUME NEW v \in Value, Store(v) PROVE MemInv'
    BY <1>2 DEF Store, MemInv, tree, memory
  <1>3. CASE FreeArray
    BY <1>3 DEF FreeArray, MemInv
  <1>4. CASE Walk
    <2>1. root = "JPM" /\ root' = root
      BY <1>4 DEF Walk, KeptInv
    <2>2. AllWords(jp) \in Nat /\ JPMWords \in Nat
      BY FormedSized, AllWordsType, WordsAssumption DEF TypeOK, FormInv
    <2>3. PICK a \in Int, b \in Int :
              /\ AllWords(jp') = AllWords(jp) + a - b
              /\ Charge(a, b) \/ (a = b /\ UNCHANGED memory)
      BY <1>4, WalkPays DEF Pays
    <2>4. memWords' = memWords + a - b
      BY <2>1, <2>2, <2>3 DEF Charge, memory, MemInv
    <2> QED
      BY <2>1, <2>2, <2>3, <2>4 DEF MemInv
  <1>5. CASE WalkUp \/ InsDone
    BY <1>5, UpWords DEF MemInv, memory
  <1>6. CASE UNCHANGED vars
    BY <1>6 DEF MemInv, vars, tree, memory
  <1> QED
    BY <1>1, <1>2, <1>3, <1>4, <1>5, <1>6, InsMem DEF Next

(***************************************************************************)
(* jpm_TotalMemWords is at every moment the size of the JPM and of every   *)
(* branch, leaf, bitmap and value area that a walk comes to: no conversion *)
(* adds what it has not allocated or forgets what it has freed, and no     *)
(* allocation that fails, wherever it fails, leaves the count wrong.  So   *)
(* FreeArray, which compares the words it freed with the count, never      *)
(* finds the array corrupt.                                                *)
(***************************************************************************)
THEOREM MemTold == Spec => []MemExact
  <1>1. Init => KeptInv /\ FormInv /\ MemInv
    BY EmptyFormed DEF Init, KeptInv, FormInv, MemInv, OwnKeys, KeysInLeaves, EmptyTree, NullJP
  <1>2. TypeOK /\ TypeOK' /\ KeptInv /\ FormInv /\ MemInv /\ [Next]_vars
            => KeptInv' /\ FormInv' /\ MemInv'
    BY NextKeeps, NextFormed, NextMem
  <1>3. TypeOK /\ FormInv /\ MemInv => MemExact
    BY TreeWordsAll DEF TypeOK, FormInv, MemInv, MemExact
  <1> QED
    BY <1>1, <1>2, <1>3, TypeCorrect, PTL DEF Spec

-----------------------------------------------------------------------------
(* Nothing leaked *)

\* What JudyLMemUsed tells, by kind of root.
LEMMA UsedIs ==
    /\ root = "NULL" => MemUsed = 0
    /\ root = "LEAF8" => MemUsed = LeafWords[RootLevel][Pop8]
    /\ root = "JPM" => MemUsed = memWords
  BY DEF MemUsed

\* The same after a step.
LEMMA UsedBecomes ==
    /\ root' = "NULL" => MemUsed' = 0
    /\ root' = "LEAF8" => MemUsed' = LeafWords[RootLevel][Pop8']
    /\ root' = "JPM" => MemUsed' = memWords'
  BY DEF MemUsed

\* A step that leaves root, leaf and words alone leaves what is told alone.
LEMMA UsedStays ==
    ASSUME TypeOK, HeapExact, UNCHANGED <<tree, memory>>
    PROVE  HeapExact'
  BY DEF HeapExact, MemUsed, Pop8, tree, memory

\* The calls that start an insertion.
LEMMA InsHeap ==
    ASSUME "Cascade8" \notin FailSites, TypeOK, KeptInv, FormInv, HeapExact,
           NEW k \in Index, Ins(k)
    PROVE  HeapExact'
  <1>0. RootSlot \in Slots /\ jp \in [Slots -> JP] /\ JPMWords \in Nat
    BY RootSlotType, WordsAssumption DEF TypeOK
  <1>1. CASE InsPresent(k) \/ InsTree(k)
    BY <1>1, UsedStays DEF InsPresent, InsTree
  <1>2. CASE InsEmpty(k)
    <2>1. /\ root = "NULL" /\ memWords' = memWords
          /\ \/ UNCHANGED <<root, jp, heapWords>>
             \/ /\ root' = "LEAF8" /\ jp' = [jp EXCEPT ![RootSlot] = LeafJP(RootLevel, {k})]
                /\ heapWords' = heapWords + LeafWords[RootLevel][1]
      BY <1>2 DEF InsEmpty
    <2>2. CASE UNCHANGED <<root, jp, heapWords>>
      BY <2>1, <2>2 DEF HeapExact, MemUsed
    <2>3. CASE /\ root' = "LEAF8" /\ jp' = [jp EXCEPT ![RootSlot] = LeafJP(RootLevel, {k})]
               /\ heapWords' = heapWords + LeafWords[RootLevel][1]
      <3>1. LeafJP(RootLevel, {k}).keys = {k}
        BY DEF LeafJP, NullJP
      <3>2. jp'[RootSlot].keys = {k}
        BY <1>0, <2>3, <3>1
      <3>3. Pop8' = 1
        BY <3>2, FS_Singleton DEF Pop8
      <3>4. heapWords = 0
        BY <2>1, UsedIs DEF HeapExact
      <3>5. LeafWords[RootLevel][1] \in Nat
        BY RootSlotType, SizeAssumption, WordsAssumption
      <3> QED
        BY <2>3, <3>3, <3>4, <3>5, UsedBecomes DEF HeapExact
    <2> QED
      BY <2>1, <2>2, <2>3
  <1>3. CASE InsLeaf8(k)
    <2> DEFINE K == jp[RootSlot].keys
    <2>1. /\ root = "LEAF8" /\ root' = root /\ memWords' = memWords /\ ~JudyLGet(jp, k)
          /\ \/ UNCHANGED <<jp, heapWords>>
             \/ /\ jp' = [jp EXCEPT ![RootSlot].keys = @ \cup {k}]
                /\ heapWords' = IF LeafGrowInPlace(RootLevel, Pop8) THEN heapWords
                                ELSE heapWords + LeafWords[RootLevel][Pop8 + 1]
                                               - LeafWords[RootLevel][Pop8]
      BY <1>3 DEF InsLeaf8
    <2>2. CASE UNCHANGED <<jp, heapWords>>
      BY <2>1, <2>2 DEF HeapExact, MemUsed, Pop8
    <2>3. CASE /\ jp' = [jp EXCEPT ![RootSlot].keys = @ \cup {k}]
               /\ heapWords' = IF LeafGrowInPlace(RootLevel, Pop8) THEN heapWords
                               ELSE heapWords + LeafWords[RootLevel][Pop8 + 1]
                                              - LeafWords[RootLevel][Pop8]
      <3>1. k \notin K
        BY <2>1, Leaf8Got DEF KeptInv
      <3>2. K \in SUBSET Index /\ IsFiniteSet(K)
        BY <1>0, KeysFinite DEF JP
      <3>3. jp'[RootSlot].keys = K \cup {k}
        BY <1>0, <2>3 DEF JP
      <3>4. Pop8' = Pop8 + 1 /\ Pop8 \in Nat
        BY <3>1, <3>2, <3>3, FS_AddElement, FS_CardinalityType DEF Pop8
      <3>5. heapWords = LeafWords[RootLevel][Pop8] /\ heapWords \in Nat
        BY <2>1, UsedIs, Leaf8Words DEF HeapExact
      <3>6. root' = "LEAF8"
        BY <2>1
      <3>7. MemUsed' = LeafWords[RootLevel][Pop8 + 1]
        BY <3>4, <3>6, UsedBecomes
      <3>8. LeafWords[RootLevel][Pop8 + 1] \in Nat
        <4>1. Pop8 + 1 \in 1..Base
          BY <1>3, <3>4, RootSlotType, WordsAssumption, MaxType, SizeAssumption DEF InsLeaf8, LEAF8_MAXPOP1
        <4> QED
          BY <4>1, RootSlotType, WordsAssumption
      <3>9. LeafGrowInPlace(RootLevel, Pop8) =>
                LeafWords[RootLevel][Pop8] = LeafWords[RootLevel][Pop8 + 1]
        BY DEF LeafGrowInPlace
      <3> QED
        BY <2>3, <3>5, <3>7, <3>8, <3>9 DEF HeapExact
    <2> QED
      BY <2>1, <2>2, <2>3
  <1>4. CASE InsCascade8(k)
    <2>1. /\ root = "LEAF8"
          /\ \/ UNCHANGED <<tree, memory>>
             \/ /\ root' = "JPM" /\ memWords' = JPMWords + SplayWords(jp, RootSlot)
                /\ heapWords' = heapWords + JPMWords + SplayWords(jp, RootSlot)
                                          - LeafWords[RootLevel][Pop8]
      BY <1>4 DEF InsCascade8, Fails
    <2>2. CASE UNCHANGED <<tree, memory>>
      BY <2>2, UsedStays
    <2>3. CASE /\ root' = "JPM" /\ memWords' = JPMWords + SplayWords(jp, RootSlot)
               /\ heapWords' = heapWords + JPMWords + SplayWords(jp, RootSlot)
                                         - LeafWords[RootLevel][Pop8]
      <3>1. heapWords = LeafWords[RootLevel][Pop8] /\ heapWords \in Nat
        BY <2>1, UsedIs, Leaf8Words DEF HeapExact
      <3>2. SplayWords(jp, RootSlot) \in Nat
        BY <2>1, Cascade8Words
      <3> QED
        BY <1>0, <2>3, <3>1, <3>2, UsedBecomes DEF HeapExact
    <2> QED
      BY <2>1, <2>2, <2>3
  <1> QED
    BY <1>1, <1>2, <1>3, <1>4 DEF Ins

\* Every step.
LEMMA NextHeap ==
    ASSUME "Cascade8" \notin FailSites, TypeOK, TypeOK', KeptInv, FormInv, FormInv',
           MemInv, HeapExact, [Next]_vars
    PROVE  HeapExact'
  <1>0. AllWords(jp) \in Nat /\ JPMWords \in Nat
    BY FormedSized, AllWordsType, WordsAssumption DEF TypeOK, FormInv
  <1>1. ASSUME NEW k \in Index, Del(k) PROVE HeapExact'
    BY <1>1, UsedStays DEF Del
  <1>2. ASSUME NEW v \in Value, Store(v) PROVE HeapExact'
    BY <1>2, UsedStays DEF Store
  <1>3. CASE FreeArray
    <2>1. root' = "NULL" /\ root \in {"NULL", "LEAF8", "JPM"}
      BY <1>3 DEF FreeArray, TypeOK
    <2>2. CASE root = "NULL"
      BY <1>3, <2>1, <2>2, UsedIs, UsedBecomes DEF FreeArray, HeapExact
    <2>3. CASE root = "LEAF8"
      <3>1. heapWords = LeafWords[RootLevel][Pop8]
        BY <2>3, UsedIs DEF HeapExact
      <3>2. heapWords' = heapWords - Words(RootLevel, jp[RootSlot])
        BY <1>3, <2>3 DEF FreeArray
      <3>3. heapWords' = 0
        BY <2>3, <3>1, <3>2, Leaf8Words
      <3> QED
        BY <2>1, <3>3, UsedBecomes DEF HeapExact
    <2>4. CASE root = "JPM"
      <3>1. heapWords = JPMWords + AllWords(jp)
        BY <2>4, UsedIs DEF HeapExact, MemInv
      <3>2. heapWords' = heapWords - (JPMWords + TreeWords(jp))
        BY <1>3, <2>4 DEF FreeArray, Freed
      <3>3. TreeWords(jp) = AllWords(jp)
        BY TreeWordsAll DEF TypeOK, FormInv
      <3>4. heapWords' = 0
        BY <1>0, <3>1, <3>2, <3>3
      <3> QED
        BY <2>1, <3>4, UsedBecomes DEF HeapExact
    <2> QED
      BY <2>1, <2>2, <2>3, <2>4
  <1>4. CASE Walk
    <2>1. root = "JPM" /\ root' = "JPM"
      BY <1>4 DEF Walk, KeptInv
    <2>2. PICK a \in Int, b \in Int : Charge(a, b) \/ (a = b /\ UNCHANGED memory)
      BY <1>4, WalkPays DEF Pays
    <2>3. heapWords = memWords
      BY <2>1, UsedIs DEF HeapExact
    <2>4. heapWords' = memWords'
      BY <2>2, <2>3 DEF Charge, memory
    <2> QED
      BY <2>1, <2>4, UsedBecomes DEF HeapExact
  <1>5. CASE WalkUp \/ InsDone
    <2>1. root = "JPM" /\ root' = "JPM" /\ UNCHANGED memory
      BY <1>5, UpWords DEF KeptInv, WalkUp, InsDone
    <2> QED
      BY <2>1, UsedIs, UsedBecomes DEF HeapExact, memory
  <1>6. CASE UNCHANGED vars
    BY <1>6, UsedStays DEF vars
  <1> QED
    BY <1>1, <1>2, <1>3, <1>4, <1>5, <1>6, InsHeap DEF Next

(***************************************************************************)
(* Nothing is leaked: what malloc has handed out and not had back is what  *)
(* JudyLMemUsed tells, in the middle of an insertion too and whichever     *)
(* allocations fail, but for those of the cascade of a root-level leaf:    *)
(* when that fails nobody frees the JPM.                                   *)
(***************************************************************************)
THEOREM HeapTold ==
    ASSUME "Cascade8" \notin FailSites
    PROVE  Spec => []HeapExact
  <1>1. Init => KeptInv /\ FormInv /\ MemInv /\ HeapExact
    BY EmptyFormed DEF Init, KeptInv, FormInv, MemInv, OwnKeys, KeysInLeaves,
                       EmptyTree, NullJP, HeapExact, MemUsed
  <1>2. TypeOK /\ TypeOK' /\ KeptInv /\ FormInv /\ MemInv /\ HeapExact /\ [Next]_vars
            => KeptInv' /\ FormInv' /\ MemInv' /\ HeapExact'
    <2> SUFFICES ASSUME TypeOK, TypeOK', KeptInv, FormInv, MemInv, HeapExact, [Next]_vars
                 PROVE  KeptInv' /\ FormInv' /\ MemInv' /\ HeapExact'
      OBVIOUS
    <2>1. KeptInv' /\ FormInv'
      BY NextKeeps, NextFormed
    <2>2. MemInv'
      BY <2>1, NextMem
    <2>3. HeapExact'
      BY <2>1, NextHeap
    <2> QED
      BY <2>1, <2>2, <2>3
  <1> QED
    BY <1>1, <1>2, TypeCorrect, PTL DEF Spec

=============================================================================
