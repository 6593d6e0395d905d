--------------------------- MODULE JudyArray_proofs ---------------------------
(***************************************************************************)
(* Theorems about JudyArray, for every value of its constants: the types   *)
(* of its state, the first word of the object the root addresses, and the  *)
(* keys that Get finds from step to step, of which none is lost.           *)
(***************************************************************************)
EXTENDS JudyArray, FiniteSetTheorems, TLAPS

-----------------------------------------------------------------------------
(* The operators the actions are made of return JPs *)

\* Every key has a digit at each level, and a slot there.
LEMMA SlotType ==
    ASSUME NEW k \in Index, NEW l \in Level
    PROVE  Slot(k, l) \in Slots /\ k[l] \in Digit /\ Slot(k, l)[1] = l
  <1>1. k \in [Level -> Digit]
    BY SizeAssumption DEF Key
  <1>2. [m \in (l + 1)..RootLevel |-> k[m]] \in [(l + 1)..RootLevel -> Digit]
    BY <1>1, SizeAssumption DEF Level
  <1>3. Slot(k, l) \in {l} \X [(l + 1)..RootLevel -> Digit]
    BY <1>2 DEF Slot
  <1> QED
    BY <1>1, <1>3 DEF Slots, Slot

\* The root slot is a slot.
LEMMA RootSlotType == RootSlot \in Slots /\ RootSlot[1] = RootLevel /\ RootLevel \in Level
  <1>1. RootLevel \in Level
    BY SizeAssumption DEF Level
  <1>2. [m \in (RootLevel + 1)..RootLevel |-> 0] \in [(RootLevel + 1)..RootLevel -> Digit]
    BY SizeAssumption
  <1> QED
    BY <1>1, <1>2 DEF Slots, RootSlot

\* The keys of a JP are finite in number.
LEMMA KeysFinite ==
    ASSUME NEW X \in SUBSET Index
    PROVE  IsFiniteSet(X) /\ Cardinality(X) \in Nat
  BY SizeAssumption, FS_Subset, FS_CardinalityType

\* So are the digits of a branch.
LEMMA DigitsFinite ==
    ASSUME NEW X \in SUBSET Digit
    PROVE  IsFiniteSet(X) /\ Cardinality(X) \in Nat
  <1>1. IsFiniteSet(Digit)
    BY SizeAssumption, FS_Interval DEF Digit
  <1> QED
    BY <1>1, FS_Subset, FS_CardinalityType

\* Each constructor makes a JP: the JPNULL,
LEMMA NullJPType == NullJP \in JP
  BY DEF NullJP, NoSums, JP, JPType

\* the immediate,
LEMMA ImmedJPType ==
    ASSUME NEW X \in SUBSET Index
    PROVE  ImmedJP(X) \in JP /\ ImmedJP(X).type \notin Branch
  BY DEF ImmedJP, NullJP, NoSums, JP, JPType, Branch

\* the octants of a Leaf1 or Leaf2 are counts,
LEMMA OctantsType ==
    ASSUME NEW X \in SUBSET Index, NEW l
    PROVE  Octants(l, X) \in [Digit -> Nat]
  <1>1. \A o \in Digit : Cardinality({k \in X : k[l] \div OCTANT = o}) \in Nat
    BY KeysFinite
  <1> QED
    BY <1>1 DEF Octants

\* the linear leaf,
LEMMA LeafJPType ==
    ASSUME NEW X \in SUBSET Index, NEW l
    PROVE  LeafJP(l, X) \in JP /\ LeafJP(l, X).type \notin Branch
  BY OctantsType DEF LeafJP, NullJP, NoSums, JP, JPType, Branch

\* a population kept in a byte is a number,
LEMMA ByteType ==
    ASSUME NEW n \in Nat
    PROVE  n % Base \in Nat
  BY SizeAssumption

\* the bitmap,
LEMMA LeafB1UJPType ==
    ASSUME NEW X \in SUBSET Index
    PROVE  LeafB1UJP(X) \in JP /\ LeafB1UJP(X).type \notin Branch
  <1>1. Cardinality(X) % Base \in Nat
    BY KeysFinite, ByteType
  <1> QED
    BY <1>1 DEF LeafB1UJP, NullJP, NoSums, JP, JPType, Branch

\* the full expanse,
LEMMA FullPopJPType ==
    ASSUME NEW X \in SUBSET Index
    PROVE  FullPopJP(X) \in JP /\ FullPopJP(X).type \notin Branch
  BY DEF FullPopJP, NullJP, NoSums, JP, JPType, Branch

\* and the branch.
LEMMA BranchJPType ==
    ASSUME NEW X \in SUBSET Digit, NEW p \in Nat
    PROVE  BranchJP(X, p) \in JP
  BY DEF BranchJP, NullJP, NoSums, JP, JPType, Branch

\* Counting one key more in a group keeps the counts.
LEMMA BumpType ==
    ASSUME NEW f \in [Digit -> Nat], NEW g
    PROVE  Bump(f, g) \in [Digit -> Nat]
  <1>1. \A x \in Digit : f[x] \in Nat /\ f[x] + 1 \in Nat
    OBVIOUS
  <1>2. \A x \in Digit : Bump(f, g)[x] \in Nat
    <2>1. CASE g \in Digit
      BY <1>1, <2>1 DEF Bump
    <2>2. CASE g \notin Digit
      BY <1>1, <2>2 DEF Bump
    <2> QED
      BY <2>1, <2>2
  <1>3. Bump(f, g) = [x \in Digit |-> Bump(f, g)[x]]
    BY DEF Bump
  <1> QED
    BY <1>2, <1>3

\* A part of a splayed leaf is a JP and no branch.
LEMMA SplayJPType ==
    ASSUME NEW X \in SUBSET Index, NEW l \in Level
    PROVE  SplayJP(l, X) \in JP /\ SplayJP(l, X).type \notin Branch
  <1>1. Cardinality(X) \in Nat /\ IMMED_MAXPOP1[l] \in Nat
    BY KeysFinite, MaxAssumption
  <1>2. SplayJP(l, X) \in {ImmedJP(X), LeafB1UJP(X), LeafJP(l, X)}
    BY <1>1 DEF SplayJP, SplayJP1, SplayJP2, SplayJPWide
  <1> QED
    BY <1>2, ImmedJPType, LeafB1UJPType, LeafJPType

\* The population of a JP is a number.
LEMMA JPPop1Type ==
    ASSUME NEW X \in JP
    PROVE  JPPop1(X) \in Nat
  <1>1. X.pop \in Nat /\ Cardinality(X.keys) \in Nat /\ Base \in Nat
    BY KeysFinite, SizeAssumption DEF JP
  <1> QED
    BY <1>1 DEF JPPop1

(***************************************************************************)
(* jbu_sums8 of a new BranchU are numbers: each is the size of a finite    *)
(* union of finite sets.                                                   *)
(***************************************************************************)
LEMMA Sums8Type ==
    ASSUME NEW t \in [Slots -> JP], NEW s, NEW X \in SUBSET Digit,
           \A d \in X : Child(s, d) \in Slots
    PROVE  Sums8(t, s, X) \in [Digit -> Nat]
  <1> DEFINE Part(d) == {d} \X (1..JPPop1(t[Child(s, d)]))
             Group(g) == {e \in X : e \div GROUP8 = g}
  <1>1. ASSUME NEW g \in Digit
        PROVE  Cardinality(UNION {Part(d) : d \in Group(g)}) \in Nat
    <2>1. IsFiniteSet(Group(g))
      BY DigitsFinite
    <2>2. \A d \in Group(g) : IsFiniteSet(Part(d))
      <3> SUFFICES ASSUME NEW d \in Group(g) PROVE IsFiniteSet(Part(d))
        OBVIOUS
      <3>1. JPPop1(t[Child(s, d)]) \in Nat
        BY JPPop1Type
      <3>2. IsFiniteSet(1..JPPop1(t[Child(s, d)]))
        BY <3>1, FS_Interval
      <3>3. IsFiniteSet({d})
        BY FS_Singleton
      <3> QED
        BY <3>2, <3>3, FS_Product
    <2> DEFINE Parts == {Part(d) : d \in Group(g)}
               f == [d \in Group(g) |-> Part(d)]
    <2>3. f \in Surjection(Group(g), Parts)
      BY DEF Surjection
    <2>4. IsFiniteSet(Parts)
      BY <2>1, <2>3, FS_Surjection
    <2>5. IsFiniteSet(UNION Parts)
      BY <2>2, <2>4, FS_UNION
    <2> QED
      BY <2>5, FS_CardinalityType
  <1> QED
    BY <1>1 DEF Sums8

\* The slot under a branch, for a digit of it, is a slot.
LEMMA ChildType ==
    ASSUME NEW k \in Index, NEW l \in Level, l > 1, NEW d \in Digit
    PROVE  Child(Slot(k, l), d) \in Slots
  <1> DEFINE p == [m \in l..RootLevel |-> IF m = l THEN d ELSE k[m]]
  <1>1. k \in [Level -> Digit] /\ l \in Int /\ l - 1 \in Level /\ RootLevel \in Nat
    BY SizeAssumption DEF Key, Level
  <1>2. Slot(k, l)[1] = l /\ \A m \in (l + 1)..RootLevel : Slot(k, l)[2][m] = k[m]
    BY DEF Slot
  <1>3. \A m \in l..RootLevel : m # l => m \in (l + 1)..RootLevel
    BY <1>1
  <1>4. Child(Slot(k, l), d) = <<l - 1, p>>
    BY <1>2, <1>3 DEF Child
  <1>5. p \in [((l - 1) + 1)..RootLevel -> Digit]
    BY <1>1 DEF Level
  <1> QED
    BY <1>1, <1>4, <1>5 DEF Slots

\* A splay makes a branch of one slot and no branch of any other.
LEMMA SplayType ==
    ASSUME NEW t \in [Slots -> JP], NEW s \in Slots, s[1] \in Level, s[1] > 1
    PROVE  /\ Splay(t, s) \in [Slots -> JP]
           /\ \A u \in Slots : Splay(t, s)[u].type \in Branch => u = s \/ t[u].type \in Branch
  <1> DEFINE X == t[s].keys
             E == {k[s[1]] : k \in X}
  <1>1. X \in SUBSET Index
    BY DEF JP
  <1>2. E \in SUBSET Digit
    BY <1>1, SlotType
  <1>3. LEAF_MAXPOP1[s[1]] - 1 \in Nat
    BY MaxAssumption
  <1>4. BranchJP(E, LEAF_MAXPOP1[s[1]] - 1) \in JP
    BY <1>2, <1>3, BranchJPType
  <1>5. ASSUME NEW u \in Slots, u[1] = s[1] - 1
        PROVE  SplayJP(u[1], Share(X, u)) \in JP /\ SplayJP(u[1], Share(X, u)).type \notin Branch
    <2>1. u[1] \in Level
      BY <1>5, SizeAssumption DEF Level
    <2>2. Share(X, u) \in SUBSET Index
      BY <1>1 DEF Share
    <2> QED
      BY <2>1, <2>2, SplayJPType
  <1> DEFINE part(u) == IF u = s THEN BranchJP(E, LEAF_MAXPOP1[s[1]] - 1)
                        ELSE IF u[1] = s[1] - 1 /\ Share(X, u) # {}
                             THEN SplayJP(u[1], Share(X, u))
                        ELSE t[u]
  <1>6. Splay(t, s) = [u \in Slots |-> part(u)]
    BY DEF Splay
  <1>7. ASSUME NEW u \in Slots
        PROVE  part(u) \in JP /\ (part(u).type \in Branch => u = s \/ t[u].type \in Branch)
    <2>1. CASE u = s
      BY <1>4, <2>1
    <2>2. CASE u # s /\ u[1] = s[1] - 1 /\ Share(X, u) # {}
      BY <1>5, <2>2
    <2>3. CASE u # s /\ ~(u[1] = s[1] - 1 /\ Share(X, u) # {})
      BY <2>3
    <2> QED
      BY <2>1, <2>2, <2>3
  <1> HIDE DEF part
  <1> QED
    BY <1>6, <1>7

-----------------------------------------------------------------------------
(* Type correctness *)

\* The tree's share of TypeOK.
TreeOK(t) ==
    /\ t \in [Slots -> JP]
    /\ \A s \in Slots : t[s].type \in Branch => s[1] > 1

\* The share of the other variables that the walk changes.
WalkOK ==
    /\ value \in [Index -> Value]
    /\ pvalue \in Index \cup {NoKey}
    /\ pc \in {"walk", "up"}
    /\ key \in Index
    /\ level \in Level
    /\ ret \in {-1, 0, 1}
    /\ nfail \in Nat

\* A JP replaced by a JP leaves a tree.
LEMMA PutType ==
    ASSUME NEW t, TreeOK(t), NEW s \in Slots, NEW X \in JP, X.type \in Branch => s[1] > 1
    PROVE  TreeOK([t EXCEPT ![s] = X])
  BY DEF TreeOK

\* A JP with one field replaced is a JP.
LEMMA FieldType ==
    ASSUME NEW X \in JP, NEW T \in JPType, NEW Q \in SUBSET Index,
           NEW E \in SUBSET Digit, NEW n \in Nat, NEW f \in [Digit -> Nat]
    PROVE  /\ [X EXCEPT !.type = T] \in JP
           /\ [X EXCEPT !.keys = Q] \in JP
           /\ [X EXCEPT !.exp = E] \in JP
           /\ [X EXCEPT !.pop = n] \in JP
           /\ [X EXCEPT !.sums = f] \in JP
           /\ [X EXCEPT !.keys = Q, !.pop = n] \in JP
           /\ [X EXCEPT !.keys = Q, !.sums = f] \in JP
           /\ [X EXCEPT !.type = T, !.exp = E, !.sums = f] \in JP
  BY DEF JP

\* The JP of the frame on top of the stack.
LEMMA HereType ==
    ASSUME TypeOK, pc \in {"walk", "up"}
    PROVE  /\ key \in Index /\ level \in Level
           /\ Pjp \in Slots /\ Pjp[1] = level
           /\ Here \in JP /\ (Here.type \in Branch => level > 1)
           /\ digit \in Digit /\ TreeOK(jp)
  BY SlotType DEF TypeOK, TreeOK, Pjp, Here, digit

\* The steps an action of the walk ends in keep the types.
LEMMA PlacedType ==
    ASSUME TypeOK, pc = "walk", Placed
    PROVE  WalkOK'
  <1>1. value' \in [Index -> Value]
    BY CallAssumption DEF TypeOK, Placed
  <1>2. pvalue' \in Index \cup {NoKey}
    BY DEF TypeOK, Placed
  <1> QED
    BY <1>1, <1>2 DEF TypeOK, Placed, WalkReturn, WalkOK

\* So does a step that ends in a failed allocation,
LEMMA WalkFailsType ==
    ASSUME TypeOK, pc = "walk", NEW site, WalkFails(site)
    PROVE  WalkOK' /\ TreeOK(jp')
  BY DEF TypeOK, TreeOK, WalkFails, WalkReturn, Fails, WalkOK, data

\* one that goes back to the switch,
LEMMA ContinueType ==
    ASSUME TypeOK, pc = "walk", Continue, UNCHANGED <<data, nfail>>
    PROVE  WalkOK'
  BY DEF TypeOK, Continue, WalkOK, frame, data

\* and one that goes down from a branch, which is above level 1.
LEMMA DescendType ==
    ASSUME TypeOK, pc = "walk", level > 1, Descend, UNCHANGED <<data, nfail>>
    PROVE  WalkOK'
  <1>1. level - 1 \in Level
    BY SizeAssumption DEF TypeOK, Level
  <1> QED
    BY <1>1 DEF TypeOK, Descend, WalkOK, data

\* A JP and the new immediate beneath it enter the tree together.
LEMMA AddToBranchType ==
    ASSUME TypeOK, pc = "walk", Here.type \in Branch, AddToBranch
    PROVE  TreeOK(jp')
  <1>1. level > 1 /\ level - 1 \in Level /\ key \in Index
    BY HereType, SizeAssumption DEF Level
  <1>2. Slot(key, level - 1) \in Slots /\ ImmedJP({key}) \in JP
        /\ ImmedJP({key}).type \notin Branch
    BY <1>1, SlotType, ImmedJPType
  <1> DEFINE X == [Here EXCEPT !.exp = @ \cup {digit}]
             t == [jp EXCEPT ![Pjp] = X]
  <1>3. Here.exp \cup {digit} \in SUBSET Digit
    BY HereType DEF JP
  <1>4. X \in JP /\ X.type = Here.type
    BY <1>3, HereType DEF JP
  <1>5. TreeOK(t)
    BY <1>1, <1>4, HereType, PutType
  <1>6. jp' = [t EXCEPT ![Slot(key, level - 1)] = ImmedJP({key})]
    BY DEF AddToBranch, Here
  <1> HIDE DEF t
  <1> QED
    BY <1>2, <1>5, <1>6, PutType

\* A branch that becomes a BranchU keeps its population and gets its sums.
LEMMA ToBranchUType ==
    ASSUME TypeOK, pc = "walk", Here.type \in Branch,
           jp' = [jp EXCEPT ![Pjp] = [Here EXCEPT
                     !.type = "BRANCH_U", !.exp = {},
                     !.sums = Sums8(jp, Pjp, Here.exp)]]
    PROVE  TreeOK(jp')
  <1>1. Here.exp \in SUBSET Digit /\ level > 1
    BY HereType DEF JP
  <1>2. \A d \in Here.exp : Child(Pjp, d) \in Slots
    BY <1>1, HereType, ChildType DEF Pjp
  <1>3. Sums8(jp, Pjp, Here.exp) \in [Digit -> Nat]
    BY <1>1, <1>2, HereType, Sums8Type DEF TreeOK
  <1> DEFINE X == [Here EXCEPT !.type = "BRANCH_U", !.exp = {},
                               !.sums = Sums8(jp, Pjp, Here.exp)]
  <1>4. X \in JP
    BY <1>3, HereType, FieldType DEF JPType, Branch
  <1> HIDE DEF X
  <1>5. TreeOK([jp EXCEPT ![Pjp] = X])
    BY <1>1, <1>4, HereType, PutType
  <1> QED
    BY <1>5 DEF X

\* Counting a key in its octant leaves counters.
LEMMA CountedType ==
    ASSUME TypeOK, pc = "walk"
    PROVE  Counted \in [Digit -> Nat]
  BY HereType, BumpType DEF JP, Counted

\* A leaf whose allocation failed is a leaf still.
LEMMA LeafFailsType ==
    ASSUME TypeOK, pc = "walk", NEW site, LeafFails(site), Here.type = "LEAF"
    PROVE  WalkOK' /\ TreeOK(jp')
  <1>1. WalkOK'
    BY DEF TypeOK, LeafFails, WalkReturn, Fails, WalkOK, data
  <1> DEFINE f == IF level = 2 THEN Counted ELSE Here.sums
             X == [Here EXCEPT !.sums = f]
  <1>2. f \in [Digit -> Nat]
    BY HereType, CountedType DEF JP
  <1>3. X \in JP /\ X.type = Here.type
    BY <1>2, HereType DEF JP
  <1>4. X.type \notin Branch
    BY <1>3 DEF Branch
  <1>5. jp' = [jp EXCEPT ![Pjp] = X]
    BY DEF LeafFails, Here
  <1> HIDE DEF X
  <1> QED
    BY <1>1, <1>3, <1>4, <1>5, HereType, PutType

\* The cases of the switch on a branch.
LEMMA WalkBranchType ==
    ASSUME TypeOK, pc = "walk",
           \/ BranchLToU \/ BranchLDescend \/ BranchLInsert \/ BranchLToB
           \/ BranchBToU \/ BranchBDescend \/ BranchBInsert
           \/ BranchUDescend
    PROVE  WalkOK' /\ TreeOK(jp')
  <1>1. CASE BranchLToU
    <2>1. Here.type \in Branch
      BY <1>1 DEF BranchLToU, Branch
    <2>2. CASE WalkFails("JBU")
      BY <2>2, WalkFailsType
    <2>3. CASE ~WalkFails("JBU")
      BY <1>1, <2>1, <2>3, ToBranchUType, ContinueType DEF BranchLToU
    <2> QED
      BY <2>2, <2>3
  <1>2. CASE BranchBToU
    <2>1. Here.type \in Branch
      BY <1>2 DEF BranchBToU, Branch
    <2>2. CASE WalkFails("JBU")
      BY <2>2, WalkFailsType
    <2>3. CASE ~WalkFails("JBU")
      BY <1>2, <2>1, <2>3, ToBranchUType, ContinueType DEF BranchBToU
    <2> QED
      BY <2>2, <2>3
  <1>3. CASE BranchLDescend \/ BranchBDescend
    <2>1. Here.type \in Branch /\ Descend /\ UNCHANGED <<jp, data, memory, nfail>>
      BY <1>3 DEF BranchLDescend, BranchBDescend, Branch
    <2> QED
      BY <2>1, HereType, DescendType
  <1>4. CASE BranchUDescend
    <2>1. Here.type \in Branch /\ Descend /\ UNCHANGED <<data, memory, nfail>>
      BY <1>4 DEF BranchUDescend, Branch
    <2> DEFINE X == [Here EXCEPT !.sums = Bump(@, digit \div GROUP8)]
    <2>2. Bump(Here.sums, digit \div GROUP8) \in [Digit -> Nat]
      BY HereType, BumpType DEF JP
    <2>3. X \in JP /\ X.type = Here.type
      BY <2>2, HereType DEF JP
    <2>4. jp' = [jp EXCEPT ![Pjp] = X]
      BY <1>4 DEF BranchUDescend, Here
    <2> HIDE DEF X
    <2>5. TreeOK(jp')
      BY <2>1, <2>3, <2>4, HereType, PutType
    <2> QED
      BY <2>1, <2>5, HereType, DescendType
  <1>5. CASE BranchLInsert
    <2>1. Here.type \in Branch /\ AddToBranch /\ Placed
      BY <1>5 DEF BranchLInsert, Branch
    <2> QED
      BY <2>1, AddToBranchType, PlacedType
  <1>6. CASE BranchBInsert
    <2>1. Here.type \in Branch
      BY <1>6 DEF BranchBInsert, Branch
    <2>2. (AddToBranch /\ Placed) \/ WalkFails("JBBJP")
      BY <1>6 DEF BranchBInsert
    <2> QED
      BY <2>1, <2>2, AddToBranchType, PlacedType, WalkFailsType
  <1>7. CASE BranchLToB
    <2>1. CASE WalkFails("JBB")
      BY <2>1, WalkFailsType
    <2>2. CASE ~WalkFails("JBB")
      <3> DEFINE X == [Here EXCEPT !.type = "BRANCH_B"]
      <3>1. jp' = [jp EXCEPT ![Pjp] = X] /\ Continue /\ UNCHANGED <<data, nfail>>
        BY <1>7, <2>2 DEF BranchLToB, Here
      <3>2. X \in JP /\ level > 1
        BY <1>7, HereType DEF BranchLToB, Branch, JP, JPType
      <3> HIDE DEF X
      <3> QED
        BY <3>1, <3>2, HereType, PutType, ContinueType
    <2> QED
      BY <2>1, <2>2
  <1> QED
    BY <1>1, <1>2, <1>3, <1>4, <1>5, <1>6, <1>7

\* A leaf, a bitmap or an immediate put in this frame's place leaves a tree.
LEMMA PutHereType ==
    ASSUME TypeOK, pc = "walk", NEW X \in JP, X.type \notin Branch,
           jp' = [jp EXCEPT ![Pjp] = X]
    PROVE  TreeOK(jp')
  BY HereType, PutType

\* The cases of the switch on a leaf.
LEMMA WalkLeafType ==
    ASSUME TypeOK, pc = "walk",
           LeafInsert \/ LeafCascade \/ Leaf1ToB1U \/ LeafB1UInsert
    PROVE  WalkOK' /\ TreeOK(jp')
  <1> DEFINE Q == Here.keys \cup {key}
  <1>0. Here.keys \in SUBSET Index /\ Q \in SUBSET Index
    BY HereType DEF JP
  <1>1. CASE LeafInsert
    <2>1. Here.type = "LEAF"
      BY <1>1 DEF LeafInsert, Leaf1Insert, Leaf2Insert, LeafWideInsert
    <2> DEFINE G == [GrownLeaf EXCEPT !.sums = Counted]
    <2>2. GrownLeaf = [Here EXCEPT !.keys = Q] /\ G = [Here EXCEPT !.keys = Q, !.sums = Counted]
      BY HereType DEF GrownLeaf, JP
    <2> HIDE DEF Q
    <2>3. GrownLeaf \in JP /\ GrownLeaf.type = "LEAF"
      BY <1>0, <2>1, <2>2, HereType DEF JP
    <2>4. G \in JP /\ G.type = "LEAF"
      BY <1>0, <2>1, <2>2, CountedType, HereType DEF JP
    <2> HIDE DEF G
    <2>5. PICK J \in {GrownLeaf, G} : LeafBecomes(J, Cardinality(Here.keys))
      BY <1>1 DEF LeafInsert, Leaf1Insert, Leaf2Insert, LeafWideInsert, G
    <2>6. J \in JP /\ J.type \notin Branch
      BY <2>3, <2>4 DEF Branch
    <2>7. LeafFails("Leaf") \/ (jp' = [jp EXCEPT ![Pjp] = J] /\ Placed)
      BY <2>5 DEF LeafBecomes
    <2> QED
      BY <2>1, <2>6, <2>7, LeafFailsType, PutHereType, PlacedType
  <1>2. CASE LeafCascade
    <2>1. CASE LeafFails("Cascade")
      BY <1>2, <2>1, LeafFailsType DEF LeafCascade
    <2>2. CASE ~LeafFails("Cascade")
      <3>1. level > 1 /\ jp' = Splay(jp, Pjp) /\ Continue /\ UNCHANGED <<data, nfail>>
        BY <1>2, <2>2 DEF LeafCascade
      <3>2. TreeOK(Splay(jp, Pjp))
        BY <3>1, HereType, SplayType DEF TreeOK
      <3> QED
        BY <3>1, <3>2, ContinueType
    <2> QED
      BY <2>1, <2>2
  <1>3. CASE Leaf1ToB1U
    <2>1. CASE LeafFails("JLB1U")
      BY <1>3, <2>1, LeafFailsType DEF Leaf1ToB1U
    <2>2. CASE ~LeafFails("JLB1U")
      <3>1. jp' = [jp EXCEPT ![Pjp] = LeafB1UJP(Here.keys)]
            /\ Continue /\ UNCHANGED <<data, nfail>>
        BY <1>3, <2>2 DEF Leaf1ToB1U
      <3> QED
        BY <1>0, <3>1, LeafB1UJPType, PutHereType, ContinueType
    <2> QED
      BY <2>1, <2>2
  <1>4. CASE LeafB1UInsert
    <2>1. Here.type = "LEAF_B1U" /\ Placed
      BY <1>4 DEF LeafB1UInsert
    <2> DEFINE X == [Here EXCEPT !.keys = Q, !.pop = (@ + 1) % Base]
    <2>2. jp' = [jp EXCEPT ![Pjp] = X] \/ jp' = [jp EXCEPT ![Pjp] = FullPopJP(Q)]
      BY <1>4 DEF LeafB1UInsert
    <2>3. (Here.pop + 1) % Base \in Nat
      BY HereType, ByteType DEF JP
    <2>4. X \in JP /\ X.type \notin Branch
      BY <1>0, <2>1, <2>3, HereType DEF JP, Branch
    <2> HIDE DEF X, Q
    <2> QED
      BY <1>0, <2>1, <2>2, <2>4, FullPopJPType, PutHereType, PlacedType
  <1> QED
    BY <1>1, <1>2, <1>3, <1>4

\* The case of JPNULL and those of the immediates.
LEMMA WalkImmedType ==
    ASSUME TypeOK, pc = "walk",
           \/ WalkNull \/ Immed01Grow \/ ImmedGrow
           \/ Immed01ToLeaf \/ ImmedToLeaf \/ Immed1ToLeaf
    PROVE  WalkOK' /\ TreeOK(jp')
  <1> DEFINE Q == Here.keys \cup {key}
  <1>0. Here.keys \in SUBSET Index /\ Q \in SUBSET Index /\ {key} \in SUBSET Index
    BY HereType DEF JP
  <1>1. CASE WalkNull
    <2>1. jp' = [jp EXCEPT ![Pjp] = ImmedJP({key})] /\ Placed
      BY <1>1 DEF WalkNull
    <2> QED
      BY <1>0, <2>1, ImmedJPType, PutHereType, PlacedType
  <1>2. CASE Immed01Grow \/ ImmedGrow
    <2>1. Here.type = "IMMED"
      BY <1>2 DEF Immed01Grow, ImmedGrow
    <2>2. ASSUME NEW R \in SUBSET Index, jp' = [jp EXCEPT ![Pjp].keys = R]
          PROVE  TreeOK(jp')
      <3> DEFINE X == [Here EXCEPT !.keys = R]
      <3>1. X \in JP /\ X.type \notin Branch
        BY <2>1, HereType DEF JP, Branch
      <3>2. jp' = [jp EXCEPT ![Pjp] = X]
        BY <2>2 DEF Here
      <3> HIDE DEF X
      <3> QED
        BY <3>1, <3>2, PutHereType
    <2>3. CASE jp' = [jp EXCEPT ![Pjp].keys = @ \cup {key}] /\ Placed
      <3>1. jp' = [jp EXCEPT ![Pjp].keys = Q]
        BY <2>3 DEF Here
      <3> HIDE DEF Q
      <3> QED
        BY <1>0, <2>2, <2>3, <3>1, PlacedType
    <2>4. CASE WalkFails("JV")
      BY <2>4, WalkFailsType
    <2>5. CASE Fails("JVShift") /\ ImmedShifted /\ WalkReturn(-1)
               /\ Cardinality(Here.keys) < IMMED_MAXPOP1[level]
               /\ UNCHANGED <<pvalue, memory>>
      <3> DEFINE Kept == {k \in Q : Rank(k, Q) < Cardinality(Here.keys)}
      <3>1. jp' = [jp EXCEPT ![Pjp].keys = Kept]
        BY <2>5 DEF ImmedShifted
      <3>2. Kept \in SUBSET Index
        BY <1>0
      <3>3. value' \in [Index -> Value]
        BY <2>5 DEF ImmedShifted, TypeOK
      <3>4. WalkOK'
        BY <2>5, <3>3 DEF TypeOK, WalkReturn, Fails, WalkOK
      <3> HIDE DEF Kept
      <3> QED
        BY <2>2, <3>1, <3>2, <3>4
    <2> QED
      BY <1>2, <2>3, <2>4, <2>5 DEF Immed01Grow, ImmedGrow
  <1>3. CASE Immed01ToLeaf \/ ImmedToLeaf
    <2>1. CASE WalkFails("Leaf")
      BY <2>1, WalkFailsType
    <2>2. CASE ~WalkFails("Leaf")
      <3>1. jp' = [jp EXCEPT ![Pjp] = LeafJP(level, Q)] /\ Placed
        BY <1>3, <2>2 DEF Immed01ToLeaf, ImmedToLeaf
      <3> HIDE DEF Q
      <3> QED
        BY <1>0, <3>1, LeafJPType, PutHereType, PlacedType
    <2> QED
      BY <2>1, <2>2
  <1>4. CASE Immed1ToLeaf
    <2> DEFINE X == IF JUDYL THEN LeafJP(1, Here.keys) ELSE LeafB1UJP(Here.keys)
    <2>1. pvalue' \in Index \cup {NoKey} /\ value' = value
      BY <1>4 DEF Immed1ToLeaf, TypeOK
    <2>2. CASE Fails(IF JUDYL THEN "Leaf" ELSE "JLB1U") /\ WalkReturn(-1) /\ UNCHANGED jp
      BY <2>1, <2>2, HereType DEF TypeOK, WalkReturn, Fails, WalkOK
    <2>3. CASE jp' = [jp EXCEPT ![Pjp] = X] /\ Continue /\ UNCHANGED nfail
      <3>1. X \in JP /\ X.type \notin Branch
        BY <1>0, LeafJPType, LeafB1UJPType
      <3>2. WalkOK'
        BY <2>1, <2>3 DEF TypeOK, Continue, WalkOK, frame
      <3> HIDE DEF X
      <3> QED
        BY <2>3, <3>1, <3>2, PutHereType
    <2> QED
      BY <1>4, <2>2, <2>3 DEF Immed1ToLeaf
  <1> QED
    BY <1>1, <1>2, <1>3, <1>4

\* Every case of the switch.
LEMMA WalkType ==
    ASSUME TypeOK, Walk
    PROVE  TypeOK'
  <1>1. pc = "walk" /\ UNCHANGED <<root, pop0, reply>>
    BY DEF Walk
  <1>2. ASSUME WalkPresent PROVE WalkOK' /\ TreeOK(jp')
    BY <1>1, <1>2, HereType DEF WalkPresent, WalkReturn, WalkOK, TypeOK
  <1>3. ASSUME WalkAbsent PROVE WalkOK' /\ TreeOK(jp')
    BY <1>1, <1>3, WalkBranchType, WalkLeafType, WalkImmedType DEF WalkAbsent
  <1>4. WalkOK' /\ TreeOK(jp')
    BY <1>2, <1>3 DEF Walk
  <1> QED
    BY <1>1, <1>4 DEF TypeOK, WalkOK, TreeOK

\* A JP of the path gains a key.
LEMMA CountType ==
    ASSUME TypeOK, pc \in {"walk", "up"}
    PROVE  TreeOK([jp EXCEPT ![Pjp].pop = @ + 1])
  <1> DEFINE X == [Here EXCEPT !.pop = @ + 1]
  <1>1. X \in JP /\ X.type = Here.type
    BY HereType DEF JP
  <1>2. [jp EXCEPT ![Pjp].pop = @ + 1] = [jp EXCEPT ![Pjp] = X]
    BY DEF Here
  <1> HIDE DEF X
  <1> QED
    BY <1>1, <1>2, HereType, PutType

\* The returns of the frames, down to the call itself.
LEMMA UpType ==
    ASSUME TypeOK, WalkUp \/ InsDone
    PROVE  TypeOK'
  <1>1. pc = "up" /\ TreeOK([jp EXCEPT ![Pjp].pop = @ + 1]) /\ TreeOK(jp)
    BY CountType, HereType DEF WalkUp, InsDone
  <1>2. CASE WalkUp
    <2>1. TreeOK(jp') /\ UNCHANGED <<root, pop0, data, pc, key, nfail>>
          /\ ret' \in {0, 1} /\ level' = level + 1 /\ level < RootLevel
      BY <1>1, <1>2 DEF WalkUp
    <2>2. level' \in Level
      BY <2>1, SizeAssumption DEF TypeOK, Level
    <2> QED
      BY <2>1, <2>2 DEF TypeOK, TreeOK, data
  <1>3. CASE InsDone
    <2>1. /\ TreeOK(jp') /\ root' = root /\ pop0' \in Nat
          /\ pc' = "idle" /\ key' = NoKey /\ ret' = 1 /\ level' = RootLevel
          /\ UNCHANGED <<data, nfail>>
      <3>1. CASE ret \in {-1, 0}
        BY <1>1, <1>3, <3>1 DEF InsDone, tree, TypeOK
      <3>2. CASE ret = 1
        <4>1. pop0' = pop0 + 1 /\ jp' = [jp EXCEPT ![Pjp].pop = @ + 1] /\ root' = root
          BY <1>3, <3>2 DEF InsDone
        <4>2. pop0' \in Nat
          BY <4>1 DEF TypeOK
        <4> QED
          BY <1>1, <1>3, <4>1, <4>2 DEF InsDone
      <3> QED
        BY <3>1, <3>2 DEF TypeOK
    <2> QED
      BY <2>1, RootSlotType DEF TypeOK, TreeOK, data
  <1> QED
    BY <1>2, <1>3

\* The calls.
LEMMA InsType ==
    ASSUME TypeOK, NEW k \in Index, Ins(k)
    PROVE  TypeOK'
  <1> USE RootSlotType
  <1>0. TreeOK(jp) /\ RootLevel > 1
    BY SizeAssumption DEF TypeOK, TreeOK
  <1>1. CASE InsPresent(k)
    BY <1>1 DEF TypeOK, InsPresent, Answer, frame, tree, data, Callable
  <1>2. CASE InsEmpty(k)
    <2>1. LeafJP(RootLevel, {k}) \in JP /\ LeafJP(RootLevel, {k}).type \notin Branch
      BY LeafJPType
    <2>2. TreeOK([jp EXCEPT ![RootSlot] = LeafJP(RootLevel, {k})])
      BY <1>0, <2>1, PutType
    <2>3. TreeOK(jp')
      BY <1>0, <1>2, <2>2 DEF InsEmpty
    <2>4. value' \in [Index -> Value] /\ root' \in {"NULL", "LEAF8"} /\ nfail' \in Nat
      BY <1>2, CallAssumption DEF InsEmpty, TypeOK, Fails
    <2> QED
      BY <1>2, <2>3, <2>4 DEF InsEmpty, TypeOK, TreeOK, NoMem, Inserted, Answer, frame
  <1>3. CASE InsLeaf8(k)
    <2> DEFINE X == [jp[RootSlot] EXCEPT !.keys = @ \cup {k}]
    <2>1. X \in JP /\ X.type = jp[RootSlot].type
      BY <1>0 DEF TreeOK, JP
    <2>2. [jp EXCEPT ![RootSlot].keys = @ \cup {k}] = [jp EXCEPT ![RootSlot] = X]
      OBVIOUS
    <2> HIDE DEF X
    <2>3. TreeOK([jp EXCEPT ![RootSlot].keys = @ \cup {k}])
      BY <1>0, <2>1, <2>2, PutType DEF TreeOK
    <2>4. TreeOK(jp')
      BY <1>0, <1>3, <2>3 DEF InsLeaf8
    <2>5. value' \in [Index -> Value] /\ nfail' \in Nat
      BY <1>3, CallAssumption DEF InsLeaf8, TypeOK, Fails
    <2> QED
      BY <1>3, <2>4, <2>5 DEF InsLeaf8, TypeOK, TreeOK, NoMem, Inserted, Answer, frame
  <1>4. CASE InsCascade8(k)
    <2>1. TreeOK(Splay(jp, RootSlot))
      BY <1>0, SplayType DEF TreeOK
    <2>2. /\ TreeOK(jp') /\ root' \in {"LEAF8", "JPM"} /\ nfail' \in Nat
          /\ pop0' \in Nat /\ UNCHANGED data
          /\ UNCHANGED frame \/ StartWalk(k)
      <3>1. LEAF8_MAXPOP1 - 1 \in Nat
        BY MaxAssumption DEF LEAF8_MAXPOP1
      <3> QED
        BY <1>0, <1>4, <2>1, <3>1 DEF InsCascade8, TypeOK, Fails, NoMem, Answer, tree, Callable
    <2>3. CASE UNCHANGED frame
      BY <2>2, <2>3 DEF TypeOK, TreeOK, frame, data
    <2>4. CASE StartWalk(k)
      BY <2>2, <2>4 DEF TypeOK, TreeOK, StartWalk, data
    <2> QED
      BY <2>2, <2>3, <2>4
  <1>5. CASE InsTree(k)
    BY <1>5 DEF TypeOK, InsTree, StartWalk, tree, data
  <1> QED
    BY <1>1, <1>2, <1>3, <1>4, <1>5 DEF Ins

\* The empty array is a tree.
LEMMA EmptyTreeType == TreeOK(EmptyTree)
  <1>1. NullJP.type \notin Branch
    BY DEF NullJP, Branch
  <1> QED
    BY <1>1, NullJPType DEF TreeOK, EmptyTree

\* TypeOK holds when the program starts,
LEMMA InitType == Init => TypeOK
  BY EmptyTreeType, RootSlotType, CallAssumption DEF Init, TypeOK, TreeOK

\* and every step keeps it.
LEMMA NextType ==
    ASSUME TypeOK, [Next]_vars
    PROVE  TypeOK'
  <1>1. ASSUME NEW k \in Index, Ins(k) PROVE TypeOK'
    BY <1>1, InsType
  <1>2. ASSUME NEW k \in Index, Del(k) PROVE TypeOK'
    BY <1>2 DEF TypeOK, Del, Answer, frame, tree, data
  <1>3. ASSUME NEW v \in Value, Store(v) PROVE TypeOK'
    BY <1>3 DEF TypeOK, Store, frame, tree
  <1>4. CASE FreeArray
    BY <1>4, EmptyTreeType DEF TypeOK, TreeOK, FreeArray, Answer, frame, data
  <1>5. CASE Walk
    BY <1>5, WalkType
  <1>6. CASE WalkUp \/ InsDone
    BY <1>6, UpType
  <1>7. CASE UNCHANGED vars
    BY <1>7 DEF TypeOK, vars, tree, data, frame
  <1> QED
    BY <1>1, <1>2, <1>3, <1>4, <1>5, <1>6, <1>7 DEF Next

(***************************************************************************)
(* Whatever the calls, the sizes and the allocations that fail, the tree   *)
(* stays a tree of JPs with a branch at no level without digits below it,  *)
(* and every frame of j__udyInsWalk works on a JP of it.                   *)
(***************************************************************************)
THEOREM TypeCorrect == Spec => []TypeOK
  <1>1. TypeOK /\ [Next]_vars => TypeOK'
    BY NextType
  <1> QED
    BY <1>1, InitType, PTL DEF Spec

-----------------------------------------------------------------------------
(* Telling a LEAF8 from a JPM *)

\* The sites whose failure JudyLIns reports before it starts a walk.
HandledSites == {"JLL8", "JPM", "Cascade8"}

\* No JP of the tree has the key that the walk inserts.
KeyNew == \A s \in Slots : key \notin jp[s].keys

(***************************************************************************)
(* RootReadable says nothing of the middle of a call, where jpm_Pop0 may   *)
(* be one short: a new JPM is written with LEAF8_MAXPOP1 - 1 before the    *)
(* walk that inserts the next key.  What brings it back is that the walk   *)
(* does not return 0: the key was not in the LEAF8 that was splayed, nor   *)
(* is it in any JP until it is placed.                                     *)
(***************************************************************************)
RootInv ==
    /\ pc \in {"walk", "up"} => root = "JPM"
    /\ root = "JPM" => pop0 >= LEAF8_MAXPOP1 - 1
    /\ root = "JPM" /\ pc = "idle" => pop0 >= LEAF8_MAXPOP1
    /\ ret \in {0, 1}
    /\ ret = 0 => pc = "up" /\ pop0 >= LEAF8_MAXPOP1
    /\ pc = "walk" /\ pop0 < LEAF8_MAXPOP1 => KeyNew
    /\ root = "NULL" => \A s \in Slots : jp[s].keys = {}
    /\ root = "LEAF8" =>
           /\ jp[RootSlot].type = "LEAF"
           /\ \A s \in Slots \ {RootSlot} : jp[s].keys = {}

\* The largest LEAF8 has a number of keys.
LEMMA Leaf8Type == LEAF8_MAXPOP1 \in Nat
  BY MaxAssumption, RootSlotType DEF LEAF8_MAXPOP1

\* The parts of a leaf have no key that the tree had not.
LEMMA SplayKeys ==
    ASSUME NEW t \in [Slots -> JP], NEW s \in Slots, NEW u \in Slots
    PROVE  Splay(t, s)[u].keys \subseteq t[s].keys \cup t[u].keys
  <1> DEFINE K == t[s].keys
             D == {k[s[1]] : k \in K}
  <1>1. BranchJP(D, LEAF_MAXPOP1[s[1]] - 1).keys = {}
    BY DEF BranchJP, NullJP
  <1>2. ASSUME NEW l, NEW Q PROVE SplayJP(l, Q).keys = Q
    BY DEF SplayJP, SplayJP1, SplayJP2, SplayJPWide, ImmedJP, LeafB1UJP, LeafJP, NullJP
  <1>3. Share(K, u) \subseteq K
    BY DEF Share
  <1>4. Splay(t, s)[u] = IF u = s THEN BranchJP(D, LEAF_MAXPOP1[s[1]] - 1)
            ELSE IF u[1] = s[1] - 1 /\ Share(K, u) # {}
                 THEN SplayJP(u[1], Share(K, u))
            ELSE t[u]
    BY DEF Splay
  <1> HIDE DEF D
  <1> QED
    BY <1>1, <1>2, <1>3, <1>4

\* A step of the walk that has not placed the key leaves it out of the tree.
LEMMA KeyStaysNew ==
    ASSUME TypeOK, Walk, KeyNew, Continue \/ Descend
    PROVE  KeyNew'
  <1>1. key' = key /\ Pjp \in Slots /\ jp \in [Slots -> JP] /\ pc = "walk"
    BY HereType DEF Continue, Descend, frame, Walk, TypeOK
  <1>2. pc' # "up"
    BY <1>1 DEF Continue, Descend, frame
  <1>3. ~Placed /\ (\A site : ~WalkFails(site) /\ ~LeafFails(site)) /\ ~WalkReturn(-1) /\ ~WalkReturn(0)
    BY <1>2 DEF Placed, WalkFails, LeafFails, WalkReturn
  <1>4. ASSUME NEW J, jp' = [jp EXCEPT ![Pjp] = J], key \notin J.keys
        PROVE  KeyNew'
    BY <1>1, <1>4 DEF KeyNew
  <1>5. Here \in JP /\ key \notin Here.keys /\ Here = jp[Pjp]
    BY <1>1 DEF KeyNew, Here
  <1>6. CASE jp' = jp
    BY <1>1, <1>6 DEF KeyNew
  <1>7. CASE BranchLToU \/ BranchBToU
    <2> DEFINE J == [Here EXCEPT !.type = "BRANCH_U", !.exp = {},
                                 !.sums = Sums8(jp, Pjp, Here.exp)]
    <2>1. jp' = [jp EXCEPT ![Pjp] = J]
      BY <1>3, <1>7 DEF BranchLToU, BranchBToU
    <2>2. J.keys = Here.keys
      BY <1>5 DEF JP
    <2> HIDE DEF J
    <2> QED
      BY <1>4, <1>5, <2>1, <2>2
  <1>8. CASE BranchLToB \/ BranchUDescend
    <2>1. CASE BranchLToB
      <3> DEFINE J == [Here EXCEPT !.type = "BRANCH_B"]
      <3>1. jp' = [jp EXCEPT ![Pjp] = J]
        BY <1>3, <1>5, <2>1 DEF BranchLToB
      <3>2. J.keys = Here.keys
        BY <1>5 DEF JP
      <3> HIDE DEF J
      <3> QED
        BY <1>4, <1>5, <3>1, <3>2
    <2>2. CASE BranchUDescend
      <3> DEFINE J == [Here EXCEPT !.sums = Bump(@, digit \div GROUP8)]
      <3>1. jp' = [jp EXCEPT ![Pjp] = J]
        BY <1>5, <2>2 DEF BranchUDescend
      <3>2. J.keys = Here.keys
        BY <1>5 DEF JP
      <3> HIDE DEF J
      <3> QED
        BY <1>4, <1>5, <3>1, <3>2
    <2> QED
      BY <1>8, <2>1, <2>2
  <1>9. CASE LeafCascade
    <2>1. jp' = Splay(jp, Pjp)
      BY <1>3, <1>9 DEF LeafCascade
    <2> QED
      BY <1>1, <2>1, SplayKeys DEF KeyNew
  <1>10. CASE Leaf1ToB1U
    <2>1. jp' = [jp EXCEPT ![Pjp] = LeafB1UJP(Here.keys)]
      BY <1>3, <1>10 DEF Leaf1ToB1U
    <2>2. LeafB1UJP(Here.keys).keys = Here.keys
      BY DEF LeafB1UJP, NullJP
    <2> QED
      BY <1>4, <1>5, <2>1, <2>2
  <1>11. CASE Immed1ToLeaf
    <2>1. PICK J \in {LeafJP(1, Here.keys), LeafB1UJP(Here.keys)} : jp' = [jp EXCEPT ![Pjp] = J]
      BY <1>3, <1>11 DEF Immed1ToLeaf
    <2>2. J.keys = Here.keys
      BY <2>1 DEF LeafJP, LeafB1UJP, NullJP
    <2> QED
      BY <1>4, <1>5, <2>1, <2>2
  <1>12. CASE WalkPresent
    BY <1>3, <1>12 DEF WalkPresent
  <1>13. CASE \/ WalkNull \/ BranchLInsert \/ BranchBInsert \/ LeafInsert
              \/ LeafB1UInsert
              \/ Immed01Grow \/ ImmedGrow \/ Immed01ToLeaf \/ ImmedToLeaf
    BY <1>3, <1>13 DEF WalkNull, BranchLInsert, BranchBInsert, LeafInsert, Leaf1Insert,
                       Leaf2Insert, LeafWideInsert, LeafBecomes, LeafB1UInsert,
                       Immed01Grow, ImmedGrow, Immed01ToLeaf, ImmedToLeaf
  <1>14. CASE BranchLDescend \/ BranchBDescend
    BY <1>6, <1>14 DEF BranchLDescend, BranchBDescend
  <1> QED
    BY <1>7, <1>8, <1>9, <1>10, <1>11, <1>12, <1>13, <1>14 DEF Walk, WalkAbsent

\* Without failures in it, the walk returns 0 from a JP with the key, or 1.
LEMMA WalkRoot ==
    ASSUME FailSites \subseteq HandledSites, TypeOK, RootInv, Walk
    PROVE  RootInv'
  <1>1. \A site : Fails(site) => site \in HandledSites
    BY DEF Fails
  <1>2. /\ ~WalkFails("JBU") /\ ~WalkFails("JBB") /\ ~WalkFails("JBBJP")
        /\ ~WalkFails("JV") /\ ~WalkFails("Leaf")
        /\ ~LeafFails("Leaf") /\ ~LeafFails("Cascade") /\ ~LeafFails("JLB1U")
        /\ ~Fails("JVShift") /\ ~Fails(IF JUDYL THEN "Leaf" ELSE "JLB1U")
    BY <1>1 DEF WalkFails, LeafFails, HandledSites
  <1>3. pc = "walk" /\ ret = 1 /\ root = "JPM" /\ UNCHANGED <<root, pop0>>
    BY DEF Walk, RootInv
  <1>4. CASE WalkPresent
    <2>1. pop0 >= LEAF8_MAXPOP1
      BY <1>3, <1>4, HereType, Leaf8Type DEF WalkPresent, RootInv, KeyNew, TypeOK, Here
    <2> QED
      BY <1>3, <1>4, <2>1 DEF WalkPresent, WalkReturn, RootInv
  <1>5. CASE Placed
    BY <1>3, <1>5 DEF Placed, WalkReturn, RootInv
  <1>6. CASE Continue \/ Descend
    <2>1. pc' = "walk" /\ ret' = 1
      BY <1>3, <1>6 DEF Continue, Descend, frame
    <2>2. pop0 < LEAF8_MAXPOP1 => KeyNew'
      BY <1>3, <1>6, KeyStaysNew DEF RootInv
    <2> QED
      BY <1>3, <2>1, <2>2 DEF RootInv
  <1>7. CASE WalkAbsent
    <2>1. Placed \/ Continue \/ Descend
      <3>1. CASE WalkNull
        BY <3>1 DEF WalkNull
      <3>2. CASE BranchLToU \/ BranchLDescend \/ BranchLInsert \/ BranchLToB
        BY <1>2, <3>2 DEF BranchLToU, BranchLDescend, BranchLInsert, BranchLToB
      <3>3. CASE BranchBToU \/ BranchBDescend \/ BranchBInsert \/ BranchUDescend
        BY <1>2, <3>3 DEF BranchBToU, BranchBDescend, BranchBInsert, BranchUDescend
      <3>4. CASE LeafInsert \/ LeafCascade \/ Leaf1ToB1U \/ LeafB1UInsert
        BY <1>2, <3>4 DEF LeafInsert, Leaf1Insert, Leaf2Insert, LeafWideInsert,
                          LeafBecomes, LeafCascade, Leaf1ToB1U, LeafB1UInsert
      <3>5. CASE \/ Immed01Grow \/ ImmedGrow
                 \/ Immed01ToLeaf \/ ImmedToLeaf \/ Immed1ToLeaf
        BY <1>2, <3>5 DEF Immed01Grow, ImmedGrow, Immed01ToLeaf, ImmedToLeaf, Immed1ToLeaf
      <3> QED
        BY <1>7, <3>1, <3>2, <3>3, <3>4, <3>5 DEF WalkAbsent
    <2> QED
      BY <1>5, <1>6, <2>1
  <1> QED
    BY <1>4, <1>7 DEF Walk

\* A return of 1 counts the key in jpm_Pop0; a return of 0 had none to count.
LEMMA UpRoot ==
    ASSUME TypeOK, RootInv, WalkUp \/ InsDone
    PROVE  RootInv'
  <1>1. pc = "up" /\ root = "JPM" /\ root' = root /\ pop0 \in Nat /\ ret \in {0, 1}
    BY DEF WalkUp, InsDone, RootInv, TypeOK, tree
  <1>2. CASE WalkUp
    BY <1>1, <1>2 DEF WalkUp, RootInv
  <1>3. CASE InsDone
    <2>1. pc' = "idle" /\ ret' = 1 /\ pop0' = IF ret = 1 THEN pop0 + 1 ELSE pop0
      BY <1>1, <1>3 DEF InsDone, tree
    <2>2. pop0' >= LEAF8_MAXPOP1
      BY <1>1, <2>1, Leaf8Type DEF RootInv
    <2> QED
      BY <1>1, <2>1, <2>2, Leaf8Type DEF RootInv
  <1> QED
    BY <1>2, <1>3

\* JudyLGet misses no key of a LEAF8.
LEMMA Leaf8Got ==
    ASSUME NEW k \in Index, jp[RootSlot].type = "LEAF", k \in jp[RootSlot].keys
    PROVE  JudyLGet(jp, k)
  <1>1. RootLevel \in Level /\ (RootLevel + 1)..RootLevel = {}
    BY SizeAssumption DEF Level
  <1>2. Slot(k, RootLevel) = RootSlot
    BY <1>1 DEF Slot, RootSlot
  <1>3. WalksTo(jp, k, RootLevel) /\ InLeaf8(jp[Slot(k, RootLevel)], k)
    BY <1>1, <1>2 DEF WalksTo, InLeaf8
  <1> QED
    BY <1>1, <1>3 DEF JudyLGet

\* A call that starts a walk has a JPM to walk in; the others leave it alone.
LEMMA CallRoot ==
    ASSUME TypeOK, RootInv,
           \/ \E k \in Index : Ins(k) \/ Del(k)
           \/ \E v \in Value : Store(v)
           \/ FreeArray
    PROVE  RootInv'
  <1>0. jp \in [Slots -> JP] /\ RootSlot \in Slots /\ pop0 \in Nat
    BY RootSlotType DEF TypeOK
  <1>1. ASSUME NEW k \in Index, Ins(k)
        PROVE  RootInv'
    <2>1. CASE InsPresent(k)
      BY <2>1 DEF InsPresent, Answer, RootInv, KeyNew, tree, frame
    <2>2. CASE InsEmpty(k)
      <3>1. /\ pc = "idle" /\ UNCHANGED frame /\ root = "NULL"
            /\ \/ root' = root /\ jp' = jp
               \/ root' = "LEAF8" /\ jp' = [jp EXCEPT ![RootSlot] = LeafJP(RootLevel, {k})]
        BY <2>2 DEF InsEmpty, Callable, NoMem, Inserted, Answer
      <3>2. LeafJP(RootLevel, {k}).type = "LEAF"
        BY DEF LeafJP, NullJP
      <3> QED
        BY <1>0, <3>1, <3>2 DEF RootInv, frame
    <2>3. CASE InsLeaf8(k)
      <3>1. /\ pc = "idle" /\ UNCHANGED frame /\ root = "LEAF8" /\ root' = "LEAF8"
            /\ jp' = jp \/ jp' = [jp EXCEPT ![RootSlot].keys = @ \cup {k}]
        BY <2>3 DEF InsLeaf8, Callable, NoMem, Inserted, Answer
      <3>2. jp'[RootSlot].type = jp[RootSlot].type
        BY <1>0, <3>1 DEF JP
      <3>3. \A s \in Slots \ {RootSlot} : jp'[s] = jp[s]
        BY <1>0, <3>1
      <3> QED
        BY <1>0, <3>1, <3>2, <3>3 DEF RootInv, frame
    <2>4. CASE InsCascade8(k)
      <3>1. CASE NoMem(k) /\ UNCHANGED tree
        BY <2>4, <3>1 DEF InsCascade8, Callable, NoMem, Answer, RootInv, tree, frame
      <3>2. CASE /\ root' = "JPM" /\ pop0' = LEAF8_MAXPOP1 - 1
                 /\ StartWalk(k) /\ jp' = Splay(jp, RootSlot)
        <4>1. root = "LEAF8" /\ ~JudyLGet(jp, k) /\ pc = "idle"
          BY <2>4 DEF InsCascade8, Callable
        <4>2. \A s \in Slots : k \notin jp[s].keys
          BY <4>1, Leaf8Got DEF RootInv
        <4>3. \A s \in Slots : k \notin jp'[s].keys
          BY <1>0, <3>2, <4>2, SplayKeys
        <4>4. pc' = "walk" /\ key' = k /\ ret' = 1
          BY <3>2, <4>1 DEF StartWalk, RootInv
        <4> QED
          BY <3>2, <4>3, <4>4, Leaf8Type DEF RootInv, KeyNew
      <3> QED
        BY <2>4, <3>1, <3>2 DEF InsCascade8
    <2>5. CASE InsTree(k)
      <3>1. /\ root = "JPM" /\ pc = "idle" /\ pop0 >= LEAF8_MAXPOP1 /\ ret = 1
            /\ pc' = "walk" /\ UNCHANGED <<root, jp, pop0, ret>>
        BY <2>5 DEF InsTree, StartWalk, Callable, RootInv, tree
      <3> QED
        BY <1>0, <3>1, Leaf8Type DEF RootInv
    <2> QED
      BY <1>1, <2>1, <2>2, <2>3, <2>4, <2>5 DEF Ins
  <1>2. ASSUME NEW k \in Index, Del(k)
        PROVE  RootInv'
    BY <1>2 DEF Del, Answer, Callable, RootInv, tree, frame
  <1>3. ASSUME NEW v \in Value, Store(v)
        PROVE  RootInv'
    BY <1>3 DEF Store, Callable, RootInv, KeyNew, tree, frame
  <1>4. CASE FreeArray
    <2>1. \A s \in Slots : EmptyTree[s].keys = {}
      BY DEF EmptyTree, NullJP
    <2> QED
      BY <1>4, <2>1 DEF FreeArray, Answer, Callable, RootInv, frame
  <1> QED
    BY <1>1, <1>2, <1>3, <1>4

\* Every step tells them apart.
LEMMA NextRoot ==
    ASSUME FailSites \subseteq HandledSites, TypeOK, RootInv, [Next]_vars
    PROVE  RootInv'
  <1>1. CASE UNCHANGED vars
    BY <1>1 DEF RootInv, KeyNew, vars, tree, frame
  <1> QED
    BY <1>1, WalkRoot, UpRoot, CallRoot DEF Next

(***************************************************************************)
(* When malloc fails only where JudyLIns itself allocates (a LEAF8, a JPM, *)
(* the parts of Cascade8), no call ever takes a JPM for a LEAF8 or a LEAF8 *)
(* for a JPM: the test of the first word against cJU_LEAF8_MAXPOP1 holds   *)
(* between any two calls.  A failure within j__udyInsWalk can break it.    *)
(***************************************************************************)
THEOREM RootTold ==
    ASSUME FailSites \subseteq HandledSites
    PROVE  Spec => []RootReadable
  <1>1. Init => RootInv
    BY DEF Init, RootInv, EmptyTree, NullJP
  <1>2. TypeOK /\ RootInv /\ [Next]_vars => RootInv'
    BY NextRoot
  <1>3. RootInv => RootReadable
    BY DEF RootInv, RootReadable, Readable
  <1> QED
    BY <1>1, <1>2, <1>3, TypeCorrect, PTL DEF Spec


-----------------------------------------------------------------------------
(* Slots on the paths of two keys *)

\* A key that no caller uses has its slots too.
LEMMA KeySlot ==
    ASSUME NEW k \in Key, NEW l \in Level
    PROVE  Slot(k, l) \in Slots /\ k[l] \in Digit /\ Slot(k, l)[1] = l
  <1>1. [m \in (l + 1)..RootLevel |-> k[m]] \in [(l + 1)..RootLevel -> Digit]
    BY SizeAssumption DEF Level, Key
  <1>2. Slot(k, l) \in {l} \X [(l + 1)..RootLevel -> Digit]
    BY <1>1 DEF Slot
  <1> QED
    BY <1>2 DEF Slots, Slot, Key

\* The callers' keys are keys.
LEMMA IndexKey == Index \subseteq Key
  BY SizeAssumption

\* Two keys that share a slot share those above it, and the digits to there.
LEMMA SlotsAbove ==
    ASSUME NEW i \in Key, NEW j \in Key, NEW l \in Level, Slot(i, l) = Slot(j, l),
           NEW m \in Level, m >= l
    PROVE  Slot(i, m) = Slot(j, m) /\ (m > l => i[m] = j[m])
  <1>1. [n \in (l + 1)..RootLevel |-> i[n]] = [n \in (l + 1)..RootLevel |-> j[n]]
    BY DEF Slot
  <1>2. \A n \in (l + 1)..RootLevel : i[n] = j[n]
    BY <1>1
  <1>3. \A n \in (m + 1)..RootLevel : n \in (l + 1)..RootLevel
    BY SizeAssumption DEF Level
  <1>4. m > l => m \in (l + 1)..RootLevel
    BY SizeAssumption DEF Level
  <1> QED
    BY <1>2, <1>3, <1>4 DEF Slot

\* The slots of a key at two levels are two slots.
LEMMA SlotsApart ==
    ASSUME NEW i, NEW j, NEW l, NEW m, l # m
    PROVE  Slot(i, l) # Slot(j, m)
  BY DEF Slot

\* A walk that comes to a level has come to those above it.
LEMMA ReachesAbove ==
    ASSUME NEW t, NEW k, NEW l \in Level, NEW m \in Level, Reaches(t, k, l), m > l
    PROVE  Reaches(t, k, m) /\ Enters(t[Slot(k, m)], k[m])
  BY SizeAssumption DEF Reaches, Level

\* It goes on by one level through a JP that it enters.
LEMMA ReachesBelow ==
    ASSUME NEW t, NEW k, NEW l \in Level, l > 1, Reaches(t, k, l), Enters(t[Slot(k, l)], k[l])
    PROVE  Reaches(t, k, l - 1)
  <1>1. \A m \in ((l - 1) + 1)..RootLevel : m = l \/ m \in (l + 1)..RootLevel
    BY SizeAssumption DEF Level
  <1> QED
    BY <1>1 DEF Reaches

\* Every walk starts.
LEMMA ReachesRoot ==
    ASSUME NEW t, NEW k
    PROVE  Reaches(t, k, RootLevel)
  <1>1. (RootLevel + 1)..RootLevel = {}
    BY SizeAssumption
  <1> QED
    BY <1>1 DEF Reaches

-----------------------------------------------------------------------------
(* Changes of the tree that lose no key *)

\* A JP replaced by one with its digits.
LEMMA PutReaches ==
    ASSUME NEW t \in [Slots -> JP], NEW s \in Slots, NEW J,
           \A d \in Digit : Enters(t[s], d) => Enters(J, d),
           NEW k \in Key, NEW l \in Level, Reaches(t, k, l)
    PROVE  Reaches([t EXCEPT ![s] = J], k, l)
  <1> DEFINE u == [t EXCEPT ![s] = J]
  <1>1. ASSUME NEW m \in Level
        PROVE  Enters(t[Slot(k, m)], k[m]) => Enters(u[Slot(k, m)], k[m])
    BY KeySlot
  <1> HIDE DEF u
  <1>2. Reaches(u, k, l)
    BY <1>1, SizeAssumption DEF Reaches, Level
  <1> QED
    BY <1>2 DEF u

\* A JP replaced by one with its keys and its digits.
LEMMA PutKept ==
    ASSUME NEW t \in [Slots -> JP], NEW s \in Slots, NEW J,
           t[s].keys \subseteq J.keys,
           \A d \in Digit : Enters(t[s], d) => Enters(J, d),
           NEW k \in Key
    PROVE  /\ \A l \in Level : Reaches(t, k, l) => Reaches([t EXCEPT ![s] = J], k, l)
           /\ Get(t, k) => Get([t EXCEPT ![s] = J], k)
  <1> DEFINE u == [t EXCEPT ![s] = J]
  <1>1. \A l \in Level : k \in t[Slot(k, l)].keys => k \in u[Slot(k, l)].keys
    BY KeySlot
  <1>2. \A l \in Level : Reaches(t, k, l) => Reaches(u, k, l)
    BY PutReaches
  <1> HIDE DEF u
  <1>3. Get(t, k) => Get(u, k)
    BY <1>1, <1>2 DEF Get
  <1> QED
    BY <1>2, <1>3 DEF u

\* A JP replaced where no walk comes.
LEMMA UnreachedKept ==
    ASSUME NEW t \in [Slots -> JP], NEW j \in Key, NEW n \in Level, ~Reaches(t, j, n),
           NEW J, NEW k \in Key
    PROVE  /\ \A l \in Level : Reaches(t, k, l) => Reaches([t EXCEPT ![Slot(j, n)] = J], k, l)
           /\ Get(t, k) => Get([t EXCEPT ![Slot(j, n)] = J], k)
  <1> DEFINE u == [t EXCEPT ![Slot(j, n)] = J]
  <1>1. ASSUME NEW l \in Level, Reaches(t, k, l) PROVE u[Slot(k, l)] = t[Slot(k, l)]
    <2>1. CASE Slot(k, l) = Slot(j, n)
      <3>1. l = n
        BY <2>1, SlotsApart
      <3>2. \A m \in (n + 1)..RootLevel : m \in Level /\ m >= n
        BY SizeAssumption DEF Level
      <3>3. \A m \in (n + 1)..RootLevel : Slot(k, m) = Slot(j, m) /\ k[m] = j[m]
        <4> TAKE m \in (n + 1)..RootLevel
        <4>1. m \in Level /\ m >= n /\ m > n
          BY <3>2, SizeAssumption DEF Level
        <4> QED
          BY <2>1, <3>1, <4>1, SlotsAbove
      <3> QED
        BY <1>1, <3>1, <3>3 DEF Reaches
    <2>2. CASE Slot(k, l) # Slot(j, n)
      BY <2>2, KeySlot
    <2> QED
      BY <2>1, <2>2
  <1> HIDE DEF u
  <1>2. ASSUME NEW l \in Level, Reaches(t, k, l) PROVE Reaches(u, k, l)
    <2>1. \A m \in (l + 1)..RootLevel : m \in Level /\ m > l
      BY SizeAssumption DEF Level
    <2>2. \A m \in (l + 1)..RootLevel : u[Slot(k, m)] = t[Slot(k, m)]
      BY <1>1, <1>2, <2>1, ReachesAbove
    <2> QED
      BY <1>2, <2>2 DEF Reaches
  <1>3. Get(t, k) => Get(u, k)
    BY <1>1, <1>2 DEF Get
  <1> QED
    BY <1>2, <1>3 DEF u

\* The keys of a JP belong to its expanse.
OwnKeys(t) == \A s \in Slots : \A k \in t[s].keys : Slot(k, s[1]) = s

\* Branches and NULL JPs have no keys.
KeysInLeaves(t) == \A s \in Slots : t[s].keys # {} => t[s].type \notin Branch \cup {"NULL"}

\* Every kind of part has the keys it is made for, and is no branch.
LEMMA SplayJPKeys ==
    ASSUME NEW l, NEW Q
    PROVE  SplayJP(l, Q).keys = Q /\ SplayJP(l, Q).type \notin Branch \cup {"NULL"}
  BY DEF SplayJP, SplayJP1, SplayJP2, SplayJPWide, ImmedJP, LeafB1UJP, LeafJP, NullJP, Branch

\* A splay makes a branch of the leaf, for the digits of its keys,
LEMMA SplayBranch ==
    ASSUME NEW t \in [Slots -> JP], NEW s \in Slots
    PROVE  /\ Splay(t, s)[s].type \in Branch /\ Splay(t, s)[s].keys = {}
           /\ \A d \in {k[s[1]] : k \in t[s].keys} : Enters(Splay(t, s)[s], d)
  <1> DEFINE D == {k[s[1]] : k \in t[s].keys}
             B == BranchJP(D, LEAF_MAXPOP1[s[1]] - 1)
  <1>1. Splay(t, s)[s] = B
    BY DEF Splay
  <1>2. B.type \in {"BRANCH_L", "BRANCH_B"} /\ B.keys = {} /\ B.exp = D
    BY DEF BranchJP, NullJP
  <1> HIDE DEF B, D
  <1>3. \A d \in D : Enters(B, d)
    BY <1>2 DEF Enters, EntersL, EntersB
  <1>4. B.type \in Branch
    BY <1>2 DEF Branch
  <1> QED
    BY <1>1, <1>2, <1>3, <1>4 DEF D

\* a JP below it for the keys of each,
LEMMA SplayPart ==
    ASSUME NEW t \in [Slots -> JP], NEW s \in Slots, NEW u \in Slots,
           u # s, u[1] = s[1] - 1, Share(t[s].keys, u) # {}
    PROVE  Splay(t, s)[u] = SplayJP(u[1], Share(t[s].keys, u))
  BY Zenon DEF Splay

\* and leaves the rest of the tree alone.
LEMMA SplayRest ==
    ASSUME NEW t \in [Slots -> JP], NEW s \in Slots, NEW u \in Slots,
           u # s, ~(u[1] = s[1] - 1 /\ Share(t[s].keys, u) # {})
    PROVE  Splay(t, s)[u] = t[u]
  BY Zenon DEF Splay

\* A leaf that is splayed keeps its keys, below it, and touches no others.
LEMMA SplayKept ==
    ASSUME NEW t \in [Slots -> JP], NEW j \in Key, NEW n \in Level, n > 1,
           t[Slot(j, n)].type = "LEAF", OwnKeys(t), NEW k \in Key
    PROVE  /\ \A l \in Level : Reaches(t, k, l) => Reaches(Splay(t, Slot(j, n)), k, l)
           /\ Get(t, k) => Get(Splay(t, Slot(j, n)), k)
  <1> DEFINE s == Slot(j, n)
             u == Splay(t, s)
  <1>0. s \in Slots /\ s[1] = n /\ n - 1 \in Level
    BY KeySlot, SizeAssumption DEF Level
  <1>1. \A d : ~Enters(t[s], d)
    BY DEF Enters, EntersL, EntersB, EntersU
  <1>2. ASSUME NEW l \in Level, Reaches(t, k, l), Slot(k, l) # s
        PROVE  u[Slot(k, l)] = t[Slot(k, l)]
    <2>1. Slot(k, l) \in Slots /\ Slot(k, l)[1] = l
      BY KeySlot
    <2>2. CASE l = n - 1 /\ Share(t[s].keys, Slot(k, l)) # {}
      <3>1. PICK i \in t[s].keys : Slot(i, l) = Slot(k, l)
        BY <2>1, <2>2 DEF Share
      <3>2. i \in Key
        BY <1>0, IndexKey DEF JP
      <3>3. Slot(i, n) = s
        BY <1>0 DEF OwnKeys
      <3>4. Slot(k, n) = s
        BY <1>0, <2>2, <3>1, <3>2, <3>3, SlotsAbove DEF Level
      <3>5. Enters(t[Slot(k, n)], k[n])
        BY <1>0, <1>2, <2>2, ReachesAbove DEF Level
      <3> QED
        BY <1>1, <3>4, <3>5
    <2>3. CASE ~(l = n - 1 /\ Share(t[s].keys, Slot(k, l)) # {})
      BY <1>0, <1>2, <2>1, <2>3, SplayRest
    <2> QED
      BY <2>2, <2>3
  <1>3. ASSUME NEW l \in Level, Reaches(t, k, l) PROVE Reaches(u, k, l)
    <2>1. \A m \in (l + 1)..RootLevel : m \in Level /\ m > l
      BY SizeAssumption DEF Level
    <2>2. ASSUME NEW m \in (l + 1)..RootLevel PROVE u[Slot(k, m)] = t[Slot(k, m)]
      <3>1. Reaches(t, k, m) /\ Enters(t[Slot(k, m)], k[m])
        BY <1>3, <2>1, ReachesAbove
      <3> QED
        BY <1>1, <1>2, <2>1, <3>1
    <2> QED
      BY <1>3, <2>2 DEF Reaches
  <1>4. ASSUME Get(t, k) PROVE Get(u, k)
    <2>1. PICK l \in Level : Reaches(t, k, l) /\ k \in t[Slot(k, l)].keys
      BY <1>4 DEF Get
    <2>2. CASE Slot(k, l) = s
      <3>1. l = n
        BY <2>2, SlotsApart
      <3>2. Enters(u[Slot(k, n)], k[n])
        <4>1. k \in t[s].keys /\ Slot(k, n) = s
          BY <2>1, <2>2, <3>1
        <4>2. k[s[1]] \in {i[s[1]] : i \in t[s].keys}
          BY <4>1
        <4>3. \A d \in {i[s[1]] : i \in t[s].keys} : Enters(u[s], d)
          BY <1>0, SplayBranch
        <4> QED
          BY <1>0, <4>1, <4>2, <4>3
      <3>3. Reaches(u, k, n - 1)
        BY <1>3, <2>1, <3>1, <3>2, ReachesBelow
      <3> DEFINE v == Slot(k, n - 1)
      <3>4. v \in Slots /\ v[1] = n - 1 /\ v # s
        <4>1. v \in Slots /\ v[1] = n - 1
          BY <1>0, KeySlot
        <4>2. n - 1 # n
          BY SizeAssumption DEF Level
        <4> QED
          BY <1>0, <4>1, <4>2
      <3>5. k \in Share(t[s].keys, v)
        BY <2>1, <2>2, <3>1, <3>4 DEF Share
      <3>6. u[v] = SplayJP(v[1], Share(t[s].keys, v))
        <4> HIDE DEF v, s
        <4>1. v # s /\ v[1] = s[1] - 1 /\ Share(t[s].keys, v) # {}
          BY <1>0, <3>4, <3>5
        <4> QED
          BY <1>0, <3>4, <4>1, SplayPart DEF u
      <3>7. k \in u[v].keys
        BY <3>5, <3>6, SplayJPKeys
      <3> QED
        BY <1>0, <3>3, <3>7 DEF Get
    <2>3. CASE Slot(k, l) # s
      BY <1>2, <1>3, <2>1, <2>3 DEF Get
    <2> QED
      BY <2>2, <2>3
  <1> QED
    BY <1>3, <1>4

\* A splay puts the keys of the leaf in their own expanses, and none in a branch.
LEMMA SplayTidy ==
    ASSUME NEW t \in [Slots -> JP], NEW s \in Slots, OwnKeys(t), KeysInLeaves(t)
    PROVE  OwnKeys(Splay(t, s)) /\ KeysInLeaves(Splay(t, s))
  <1>1. ASSUME NEW u \in Slots
        PROVE  /\ \A k \in Splay(t, s)[u].keys : Slot(k, u[1]) = u
               /\ Splay(t, s)[u].keys # {} => Splay(t, s)[u].type \notin Branch \cup {"NULL"}
    <2>1. CASE u = s
      BY <2>1, SplayBranch
    <2>2. CASE u # s /\ u[1] = s[1] - 1 /\ Share(t[s].keys, u) # {}
      <3>1. Splay(t, s)[u] = SplayJP(u[1], Share(t[s].keys, u))
        BY <2>2, SplayPart
      <3> QED
        BY <3>1, SplayJPKeys DEF Share
    <2>3. CASE u # s /\ ~(u[1] = s[1] - 1 /\ Share(t[s].keys, u) # {})
      BY <2>3, SplayRest DEF OwnKeys, KeysInLeaves
    <2> QED
      BY <2>1, <2>2, <2>3
  <1> QED
    BY <1>1 DEF OwnKeys, KeysInLeaves

-----------------------------------------------------------------------------
(* What a step of j__udyInsWalk can do to the tree *)

(***************************************************************************)
(* The JP of level l holds as many keys or digits as its type allows.      *)
(* Judy1 has no Leaf1, and alone a type for the full expanse.  A bitmap,   *)
(* of level 1 too, counts its keys in a byte, which wraps for all of them  *)
(* in JudyL only.                                                          *)
(***************************************************************************)
Fits(l, J) ==
    LET n == Cardinality(J.keys)
    IN  /\ J.type = "IMMED" => n \in 1..IMMED_MAXPOP1[l]
        /\ J.type = "LEAF" => n \in 1..LEAF_MAXPOP1[l] /\ (l = 1 => JUDYL)
        /\ J.type = "BRANCH_L" => Cardinality(J.exp) \in 1..BRANCHLMAXJPS
        /\ J.type = "LEAF_B1U" =>
              l = 1 /\ n \in 1..Base /\ (J.pop = n \/ (JUDYL /\ n = Base /\ J.pop = 0))
        /\ J.type = "FULLPOPU1" => l = 1 /\ n = Base /\ ~JUDYL

\* J has the keys of the JP of this frame, the new one perhaps, and its digits.
Grows(J) ==
    /\ Here.keys \subseteq J.keys /\ J.keys \subseteq Here.keys \cup {key}
    /\ \A d \in Digit : Enters(Here, d) => Enters(J, d)
    /\ J.keys # {} => J.type \notin Branch \cup {"NULL"}
    /\ J.exp \subseteq Here.exp
    /\ J.type = "NULL" => Here.type = "NULL"
    /\ J.type \in Branch => Here.type \in Branch /\ J.pop = Here.pop
    /\ Fits(level, Here) => Fits(level, J)

\* J holds the key, that no walk down from this JP could have found.
Holds(J) == Placed /\ key \in J.keys /\ key \notin Here.keys /\ \A d : ~Enters(Here, d)

\* The frame returns with no word changed, and with 0 only if the key is here.
Returns == UNCHANGED value /\ \E r \in {-1, 0} : WalkReturn(r) /\ (r = 0 => key \in Here.keys)

\* The frame goes on, or down into a JP that it enters.
Goes == UNCHANGED value /\ (Continue \/ (Descend /\ level > 1 /\ Enters(Here, digit)))

\* The JP of the frame is replaced.
Replaced ==
    \E J : /\ jp' = [jp EXCEPT ![Pjp] = J]
           /\ Grows(J)
           /\ Holds(J) \/ (J.keys = Here.keys /\ (Returns \/ Goes))

\* The key enters a branch that had no JP for its digit.
Added ==
    /\ Here.type \in {"BRANCH_L", "BRANCH_B"}
    /\ digit \notin Here.exp
    /\ Here.type = "BRANCH_L" => Cardinality(Here.exp) < BRANCHLMAXJPS
    /\ AddToBranch
    /\ Placed

\* A full leaf is splayed.
Splayed ==
    /\ Here.type = "LEAF" /\ level > 1
    /\ Cardinality(Here.keys) = LEAF_MAXPOP1[level]
    /\ jp' = Splay(jp, Pjp)
    /\ Continue
    /\ UNCHANGED value

\* The value area of an immediate cannot be enlarged.
Shifted ==
    /\ JUDYL /\ key \notin Here.keys
    /\ Fails("JVShift") /\ ShiftFails /\ ImmedShifted /\ WalkReturn(-1)

\* A step that leaves the tree alone replaces the JP by itself.
LEMMA SameShape ==
    ASSUME TypeOK, KeysInLeaves(jp), pc = "walk", UNCHANGED jp, Returns \/ Goes
    PROVE  Replaced
  <1>1. jp' = [jp EXCEPT ![Pjp] = Here]
    BY HereType DEF Here, TypeOK
  <1>2. Grows(Here)
    BY HereType DEF Grows, KeysInLeaves, Here
  <1> QED
    BY <1>1, <1>2 DEF Replaced

\* A branch keeps its kind of content when its type, digits or sums change.
LEMMA BranchShape ==
    ASSUME TypeOK, KeysInLeaves(jp), pc = "walk", Here.type \in Branch,
           NEW J, jp' = [jp EXCEPT ![Pjp] = J], J.keys = Here.keys,
           J.exp \subseteq Here.exp, J.type \in {"BRANCH_B", "BRANCH_U"}, J.pop = Here.pop,
           \A d \in Digit : Enters(Here, d) => Enters(J, d), Returns \/ Goes
    PROVE  Replaced
  <1>1. Here.keys = {}
    BY HereType DEF KeysInLeaves, Here
  <1>2. Fits(level, J)
    BY DEF Fits
  <1> QED
    BY <1>1, <1>2 DEF Grows, Replaced

\* A JP that is no branch gives way to a leaf or an immediate.
LEMMA LeafShape ==
    ASSUME Here.type \notin Branch, NEW J, jp' = [jp EXCEPT ![Pjp] = J],
           Here.keys \subseteq J.keys, J.keys \subseteq Here.keys \cup {key},
           J.type \notin Branch \cup {"NULL"}, J.exp \subseteq Here.exp,
           Fits(level, Here) => Fits(level, J),
           \/ J.keys = Here.keys /\ (Returns \/ Goes)
           \/ Placed /\ key \in J.keys /\ key \notin Here.keys
    PROVE  Replaced
  <1>1. \A d : ~Enters(Here, d)
    BY DEF Enters, EntersL, EntersB, EntersU, Branch
  <1> QED
    BY <1>1 DEF Grows, Holds, Replaced

\* An allocation that fails before its step has changed anything.
LEMMA FailShape ==
    ASSUME TypeOK, KeysInLeaves(jp), pc = "walk", NEW site, WalkFails(site)
    PROVE  Replaced
  BY SameShape DEF WalkFails, Returns, data

\* The cases of the switch on a branch.
LEMMA WalkBranchShape ==
    ASSUME TypeOK, KeysInLeaves(jp), pc = "walk",
           \/ BranchLToU \/ BranchLDescend \/ BranchLInsert \/ BranchLToB
           \/ BranchBToU \/ BranchBDescend \/ BranchBInsert
           \/ BranchUDescend
    PROVE  Replaced \/ Added
  <1>0. Here \in JP /\ digit \in Digit /\ (Here.type \in Branch => level > 1)
    BY HereType
  <1>1. CASE BranchLToU \/ BranchBToU
    <2>1. Here.type \in Branch
      BY <1>1 DEF BranchLToU, BranchBToU, Branch
    <2> DEFINE J == [Here EXCEPT !.type = "BRANCH_U", !.exp = {},
                                 !.sums = Sums8(jp, Pjp, Here.exp)]
    <2>2. WalkFails("JBU") \/ (jp' = [jp EXCEPT ![Pjp] = J] /\ Continue /\ UNCHANGED data)
      BY <1>1 DEF BranchLToU, BranchBToU
    <2>3. J.keys = Here.keys /\ J.type = "BRANCH_U" /\ J.exp \subseteq Here.exp /\ J.pop = Here.pop
      BY <1>0 DEF JP
    <2> HIDE DEF J
    <2>4. \A d \in Digit : Enters(J, d)
      BY <2>3 DEF Enters, EntersU
    <2>5. CASE WalkFails("JBU")
      BY <2>5, FailShape
    <2>6. CASE jp' = [jp EXCEPT ![Pjp] = J] /\ Continue /\ UNCHANGED data
      BY <2>1, <2>3, <2>4, <2>6, BranchShape DEF Goes, data
    <2> QED
      BY <2>2, <2>5, <2>6
  <1>2. CASE BranchLToB
    <2>1. Here.type = "BRANCH_L"
      BY <1>2 DEF BranchLToB
    <2> DEFINE J == [Here EXCEPT !.type = "BRANCH_B"]
    <2>2. WalkFails("JBB") \/ (jp' = [jp EXCEPT ![Pjp] = J] /\ Continue /\ UNCHANGED data)
      BY <1>2 DEF BranchLToB, Here
    <2>3. J.keys = Here.keys /\ J.type = "BRANCH_B" /\ J.exp = Here.exp /\ J.pop = Here.pop
      BY <1>0 DEF JP
    <2> HIDE DEF J
    <2>4. \A d \in Digit : Enters(Here, d) => Enters(J, d)
      BY <2>1, <2>3 DEF Enters, EntersL, EntersB, EntersU
    <2>5. CASE WalkFails("JBB")
      BY <2>5, FailShape
    <2>6. CASE jp' = [jp EXCEPT ![Pjp] = J] /\ Continue /\ UNCHANGED data
      BY <2>1, <2>3, <2>4, <2>6, BranchShape DEF Goes, data, Branch
    <2> QED
      BY <2>2, <2>5, <2>6
  <1>3. CASE BranchLDescend \/ BranchBDescend
    <2>1. UNCHANGED jp /\ UNCHANGED data /\ Descend
      BY <1>3 DEF BranchLDescend, BranchBDescend
    <2>2. level > 1 /\ Enters(Here, digit)
      BY <1>0, <1>3 DEF BranchLDescend, BranchBDescend, Branch, Enters, EntersL, EntersB
    <2> QED
      BY <2>1, <2>2, SameShape DEF Goes, data
  <1>4. CASE BranchUDescend
    <2>1. Here.type = "BRANCH_U" /\ UNCHANGED data /\ Descend
      BY <1>4 DEF BranchUDescend
    <2> DEFINE J == [Here EXCEPT !.sums = Bump(@, digit \div GROUP8)]
    <2>2. jp' = [jp EXCEPT ![Pjp] = J]
      BY <1>4 DEF BranchUDescend, Here
    <2>3. J.keys = Here.keys /\ J.type = "BRANCH_U" /\ J.exp = Here.exp /\ J.pop = Here.pop
      BY <1>0, <2>1 DEF JP
    <2> HIDE DEF J
    <2>4. \A d : Enters(Here, d) /\ Enters(J, d)
      BY <2>1, <2>3 DEF Enters, EntersU
    <2>5. Goes
      BY <1>0, <2>1, <2>4 DEF Goes, data, Branch
    <2> QED
      BY <2>1, <2>2, <2>3, <2>4, <2>5, BranchShape DEF Branch
  <1>5. CASE BranchLInsert \/ BranchBInsert
    <2>1. Added \/ WalkFails("JBBJP")
      BY <1>5 DEF BranchLInsert, BranchBInsert, Added
    <2> QED
      BY <2>1, FailShape
  <1> QED
    BY <1>1, <1>2, <1>3, <1>4, <1>5

\* A leaf whose allocation fails keeps its keys, whatever its octants say.
LEMMA LeafFailShape ==
    ASSUME TypeOK, pc = "walk", NEW site, LeafFails(site), Here.type = "LEAF"
    PROVE  Replaced
  <1> DEFINE f == IF level = 2 THEN Counted ELSE Here.sums
             J == [Here EXCEPT !.sums = f]
  <1>1. J.keys = Here.keys /\ J.type = "LEAF" /\ J.exp = Here.exp
    BY HereType DEF JP
  <1>2. jp' = [jp EXCEPT ![Pjp] = J]
    BY DEF LeafFails, Here
  <1>3. Returns
    BY DEF LeafFails, Returns, data
  <1> HIDE DEF J
  <1>4. Fits(level, Here) => Fits(level, J)
    BY <1>1 DEF Fits
  <1> QED
    BY <1>1, <1>2, <1>3, <1>4, LeafShape DEF Branch

\* The key counts one more.
LEMMA OneMore ==
    ASSUME TypeOK, pc = "walk", key \notin Here.keys
    PROVE  /\ Cardinality(Here.keys) \in Nat
           /\ Cardinality(Here.keys \cup {key}) = Cardinality(Here.keys) + 1
  <1>1. IsFiniteSet(Here.keys) /\ Cardinality(Here.keys) \in Nat
    BY HereType, KeysFinite DEF JP
  <1> QED
    BY <1>1, FS_AddElement

\* The maxima of a level.
LEMMA MaxType ==
    ASSUME NEW l \in Level
    PROVE  /\ LEAF_MAXPOP1[l] \in Nat /\ IMMED_MAXPOP1[l] \in Nat /\ IMMED_MAXPOP1[l] >= 1
           /\ l > 1 => IMMED_MAXPOP1[l] < LEAF_MAXPOP1[l]
           /\ JUDYL => IMMED_MAXPOP1[1] <= LEAF_MAXPOP1[1]
           /\ IMMED_MAXPOP1[l] < Base
  BY MaxAssumption, WordsAssumption

\* Keys that share a slot of level 1 differ in their last digit: there are few.
LEMMA ExpansePop ==
    ASSUME NEW s, NEW X \in SUBSET Index, \A k \in X : Slot(k, 1) = s
    PROVE  Cardinality(X) <= Base
  <1> DEFINE f == [k \in X |-> k[1]]
  <1>1. 1 \in Level
    BY SizeAssumption DEF Level
  <1>2. f \in [X -> Digit]
    BY <1>1, SlotType
  <1>3. ASSUME NEW i \in X, NEW j \in X, f[i] = f[j] PROVE i = j
    <2>1. i \in [Level -> Digit] /\ j \in [Level -> Digit] /\ i[1] = j[1] /\ i \in Key /\ j \in Key
      BY <1>3, IndexKey DEF Key
    <2>2. ASSUME NEW m \in Level PROVE i[m] = j[m]
      <3>1. m = 1 \/ (m > 1 /\ m >= 1)
        BY SizeAssumption DEF Level
      <3> QED
        BY <1>1, <2>1, <3>1, SlotsAbove
    <2> QED
      BY <2>1, <2>2
  <1>4. f \in Injection(X, Digit)
    BY <1>2, <1>3 DEF Injection, IsInjective
  <1>5. IsFiniteSet(Digit) /\ Cardinality(Digit) = Base
    BY SizeAssumption, FS_Interval DEF Digit
  <1> QED
    BY <1>4, <1>5, FS_Injection

\* So a JP of level 1 has at most as many keys as there are digits, the new one among them.
LEMMA HereExpanse ==
    ASSUME TypeOK, OwnKeys(jp), pc = "walk", level = 1
    PROVE  Cardinality(Here.keys) <= Base /\ Cardinality(Here.keys \cup {key}) <= Base
  <1>1. Here.keys \in SUBSET Index /\ key \in Index
    BY HereType DEF JP
  <1>2. \A k \in Here.keys \cup {key} : Slot(k, 1) = Pjp
    BY HereType DEF OwnKeys, Here, Pjp
  <1> QED
    BY <1>1, <1>2, ExpansePop

\* A byte counts up to its last value, and wraps to 0 there.
LEMMA ByteCounts ==
    ASSUME NEW n \in Nat, n >= 1, n <= Base
    PROVE  n % Base = n \/ (n = Base /\ n % Base = 0)
  BY SizeAssumption

\* The cases of the switch on a leaf.
LEMMA WalkLeafShape ==
    ASSUME TypeOK, OwnKeys(jp), KeysInLeaves(jp), pc = "walk", key \notin Here.keys,
           LeafInsert \/ LeafCascade \/ Leaf1ToB1U \/ LeafB1UInsert
    PROVE  Replaced \/ Splayed
  <1> DEFINE Q == Here.keys \cup {key}
  <1>0. Here \in JP /\ level \in Level
    BY HereType
  <1>9. Cardinality(Here.keys) \in Nat /\ Cardinality(Q) = Cardinality(Here.keys) + 1
    BY OneMore
  <1>1. CASE LeafInsert
    <2>1. Here.type = "LEAF"
      BY <1>1 DEF LeafInsert, Leaf1Insert, Leaf2Insert, LeafWideInsert
    <2> DEFINE G == [GrownLeaf EXCEPT !.sums = Counted]
    <2>2. /\ GrownLeaf.keys = Q /\ GrownLeaf.type = "LEAF" /\ GrownLeaf.exp = Here.exp
          /\ G.keys = Q /\ G.type = "LEAF" /\ G.exp = Here.exp
      BY <1>0, <2>1 DEF GrownLeaf, JP
    <2> HIDE DEF G
    <2>3. PICK J \in {GrownLeaf, G} : LeafBecomes(J, Cardinality(Here.keys))
      BY <1>1 DEF LeafInsert, Leaf1Insert, Leaf2Insert, LeafWideInsert, G
    <2>4. LeafFails("Leaf") \/ (jp' = [jp EXCEPT ![Pjp] = J] /\ Placed)
      BY <2>3 DEF LeafBecomes
    <2>5. J.keys = Q /\ J.type = "LEAF" /\ J.exp = Here.exp
      BY <2>2, <2>3
    <2>6. Cardinality(Here.keys) < LEAF_MAXPOP1[level]
      BY <1>1 DEF LeafInsert, Leaf1Insert, Leaf2Insert, LeafWideInsert
    <2>7. Cardinality(J.keys) \in 1..LEAF_MAXPOP1[level]
      BY <1>0, <1>9, <2>5, <2>6, MaxType
    <2>8. Fits(level, Here) => Fits(level, J)
      BY <2>1, <2>5, <2>7 DEF Fits
    <2> QED
      BY <2>1, <2>4, <2>5, <2>8, LeafFailShape, LeafShape DEF Branch
  <1>2. CASE LeafCascade
    <2>1. LeafFails("Cascade") \/ Splayed
      BY <1>2 DEF LeafCascade, Splayed, data
    <2> QED
      BY <1>2, <2>1, LeafFailShape DEF LeafCascade
  <1>3. CASE Leaf1ToB1U
    <2>1. \/ LeafFails("JLB1U")
          \/ /\ jp' = [jp EXCEPT ![Pjp] = LeafB1UJP(Here.keys)]
             /\ Continue /\ UNCHANGED data
      BY <1>3 DEF Leaf1ToB1U
    <2>2. /\ LeafB1UJP(Here.keys).keys = Here.keys /\ LeafB1UJP(Here.keys).type = "LEAF_B1U"
          /\ LeafB1UJP(Here.keys).exp = {}
          /\ LeafB1UJP(Here.keys).pop = Cardinality(Here.keys) % Base
      BY DEF LeafB1UJP, NullJP
    <2>3. Here.type = "LEAF" /\ level = 1
      BY <1>3 DEF Leaf1ToB1U
    <2>4. ASSUME Fits(level, Here) PROVE Fits(level, LeafB1UJP(Here.keys))
      <3>1. Cardinality(Here.keys) >= 1 /\ JUDYL
        BY <1>0, <2>3, <2>4, MaxType DEF Fits
      <3>2. Cardinality(Here.keys) <= Base
        BY <2>3, HereExpanse
      <3> QED
        BY <1>9, <2>2, <2>3, <3>1, <3>2, ByteCounts DEF Fits
    <2> QED
      BY <2>1, <2>2, <2>3, <2>4, LeafFailShape, LeafShape DEF Goes, data, Branch
  <1>4. CASE LeafB1UInsert
    <2>1. Here.type = "LEAF_B1U" /\ Placed
      BY <1>4 DEF LeafB1UInsert
    <2> DEFINE X == [Here EXCEPT !.keys = Q, !.pop = (@ + 1) % Base]
    <2>2. \/ (JUDYL \/ Here.pop + 1 < Base) /\ jp' = [jp EXCEPT ![Pjp] = X]
          \/ ~JUDYL /\ Here.pop + 1 = Base /\ jp' = [jp EXCEPT ![Pjp] = FullPopJP(Q)]
      BY <1>4 DEF LeafB1UInsert
    <2>3. X.keys = Q /\ X.type = "LEAF_B1U" /\ X.exp = Here.exp /\ X.pop = (Here.pop + 1) % Base
      BY <1>0, <2>1 DEF JP
    <2>4. FullPopJP(Q).keys = Q /\ FullPopJP(Q).type = "FULLPOPU1" /\ FullPopJP(Q).exp = {}
      BY DEF FullPopJP, NullJP
    <2> HIDE DEF X
    <2>5. Here.pop \in Nat /\ Base \in Nat /\ Base >= 2
      BY <1>0, SizeAssumption DEF JP
    <2>8. ASSUME Fits(level, Here)
          PROVE  /\ level = 1 /\ Here.pop = Cardinality(Here.keys)
                 /\ Cardinality(Q) \in 1..Base
      <3>1. level = 1 /\ Cardinality(Here.keys) >= 1
        BY <1>9, <2>1, <2>5, <2>8 DEF Fits
      <3>2. Cardinality(Q) <= Base
        BY <3>1, HereExpanse
      <3> QED
        BY <1>9, <2>1, <2>5, <2>8, <3>1, <3>2 DEF Fits
    <2>6. CASE (JUDYL \/ Here.pop + 1 < Base) /\ jp' = [jp EXCEPT ![Pjp] = X]
      <3>1. ASSUME Fits(level, Here)
            PROVE  X.pop = Cardinality(Q) \/ (JUDYL /\ Cardinality(Q) = Base /\ X.pop = 0)
        <4>1. X.pop = Cardinality(Q) % Base
          BY <1>9, <2>3, <2>8, <3>1
        <4>2. Cardinality(Q) < Base \/ JUDYL
          BY <1>9, <2>6, <2>8, <3>1
        <4> QED
          BY <1>9, <2>5, <2>8, <3>1, <4>1, <4>2, ByteCounts
      <3>2. Fits(level, Here) => Fits(level, X)
        BY <2>3, <2>8, <3>1 DEF Fits
      <3> QED
        BY <2>1, <2>3, <2>6, <3>2, LeafShape DEF Branch
    <2>7. CASE ~JUDYL /\ Here.pop + 1 = Base /\ jp' = [jp EXCEPT ![Pjp] = FullPopJP(Q)]
      <3>1. Fits(level, Here) => Fits(level, FullPopJP(Q))
        BY <1>9, <2>4, <2>7, <2>8 DEF Fits
      <3> QED
        BY <2>1, <2>4, <2>7, <3>1, LeafShape DEF Branch
    <2> QED
      BY <2>2, <2>6, <2>7
  <1> QED
    BY <1>1, <1>2, <1>3, <1>4

\* The case of JPNULL and those of the immediates.
LEMMA WalkImmedShape ==
    ASSUME TypeOK, KeysInLeaves(jp), pc = "walk", key \notin Here.keys,
           \/ WalkNull \/ Immed01Grow \/ ImmedGrow
           \/ Immed01ToLeaf \/ ImmedToLeaf \/ Immed1ToLeaf
    PROVE  Replaced \/ Shifted
  <1> DEFINE Q == Here.keys \cup {key}
  <1>0. Here \in JP /\ level \in Level
    BY HereType
  <1>9. Cardinality(Here.keys) \in Nat /\ Cardinality(Q) = Cardinality(Here.keys) + 1
    BY OneMore
  <1>1. CASE WalkNull
    <2>1. jp' = [jp EXCEPT ![Pjp] = ImmedJP({key})] /\ Placed /\ Here.type = "NULL"
      BY <1>1 DEF WalkNull
    <2>2. Here.keys = {}
      BY <2>1, HereType DEF KeysInLeaves, Here
    <2>3. /\ ImmedJP({key}).keys = {key} /\ ImmedJP({key}).type = "IMMED"
          /\ ImmedJP({key}).exp = {}
      BY DEF ImmedJP, NullJP
    <2>4. Cardinality({key}) \in 1..IMMED_MAXPOP1[level]
      BY <1>0, FS_Singleton, MaxType
    <2>5. Fits(level, ImmedJP({key}))
      BY <2>3, <2>4 DEF Fits
    <2> QED
      BY <2>1, <2>2, <2>3, <2>5, LeafShape DEF Branch
  <1>2. CASE Immed01Grow \/ ImmedGrow
    <2>1. Here.type = "IMMED"
      BY <1>2 DEF Immed01Grow, ImmedGrow
    <2> DEFINE J == [Here EXCEPT !.keys = Q]
    <2>2. J.keys = Q /\ J.type = "IMMED" /\ J.exp = Here.exp
      BY <1>0, <2>1 DEF JP
    <2>3. Cardinality(Here.keys) < IMMED_MAXPOP1[level]
      BY <1>2 DEF Immed01Grow, ImmedGrow
    <2>4. Fits(level, J)
      BY <1>0, <1>9, <2>2, <2>3, MaxType DEF Fits
    <2>5. \/ jp' = [jp EXCEPT ![Pjp] = J] /\ Placed
          \/ WalkFails("JV")
          \/ Shifted
      <3>1. CASE Immed01Grow
        BY <3>1 DEF Immed01Grow, Here
      <3>2. CASE ImmedGrow
        <4>1. Cardinality(Here.keys) \in Nat /\ IMMED_MAXPOP1[level] \in Nat
          BY <1>0, KeysFinite, MaxAssumption DEF JP
        <4>2. Cardinality(Here.keys) \in 2..(IMMED_MAXPOP1[level] - 1)
          BY <3>2, <4>1 DEF ImmedGrow
        <4>3. Fails("JVShift") => nfail' # nfail
          BY DEF Fails, TypeOK
        <4> QED
          BY <3>2, <4>2, <4>3 DEF ImmedGrow, Here, Shifted, ShiftFails
      <3> QED
        BY <1>2, <3>1, <3>2
    <2> HIDE DEF J
    <2> QED
      BY <2>1, <2>2, <2>4, <2>5, FailShape, LeafShape DEF Branch
  <1>3. CASE Immed01ToLeaf \/ ImmedToLeaf
    <2>1. /\ Here.type = "IMMED"
          /\ \/ jp' = [jp EXCEPT ![Pjp] = LeafJP(level, Q)] /\ Placed
             \/ WalkFails("Leaf")
      BY <1>3 DEF Immed01ToLeaf, ImmedToLeaf
    <2>2. LeafJP(level, Q).keys = Q /\ LeafJP(level, Q).type = "LEAF" /\ LeafJP(level, Q).exp = {}
      BY DEF LeafJP, NullJP
    <2>3. level > 1
      BY <1>3 DEF Immed01ToLeaf, ImmedToLeaf
    <2>4. ASSUME Fits(level, Here) PROVE Fits(level, LeafJP(level, Q))
      <3>1. Cardinality(Here.keys) \in 1..IMMED_MAXPOP1[level]
        BY <2>1, <2>4 DEF Fits
      <3>2. Cardinality(Q) \in 1..LEAF_MAXPOP1[level]
        BY <1>0, <1>9, <2>3, <3>1, MaxType
      <3> QED
        BY <2>2, <2>3, <3>2 DEF Fits
    <2> QED
      BY <2>1, <2>2, <2>4, FailShape, LeafShape DEF Branch
  <1>4. CASE Immed1ToLeaf
    <2> DEFINE J == IF JUDYL THEN LeafJP(1, Here.keys) ELSE LeafB1UJP(Here.keys)
    <2>1. Here.type = "IMMED" /\ UNCHANGED value /\ level = 1
      BY <1>4 DEF Immed1ToLeaf
    <2>2. \/ jp' = [jp EXCEPT ![Pjp] = J] /\ Continue
          \/ UNCHANGED jp /\ WalkReturn(-1)
      BY <1>4 DEF Immed1ToLeaf
    <2>3. /\ J.keys = Here.keys /\ J.exp = {}
          /\ J.type = IF JUDYL THEN "LEAF" ELSE "LEAF_B1U"
          /\ ~JUDYL => J.pop = Cardinality(Here.keys) % Base
      BY DEF LeafJP, LeafB1UJP, NullJP
    <2> HIDE DEF J
    <2>4. ASSUME Fits(level, Here) PROVE Fits(level, J)
      <3>1. Cardinality(Here.keys) \in 1..IMMED_MAXPOP1[1] /\ IMMED_MAXPOP1[1] < Base
        BY <1>0, <2>1, <2>4, MaxType DEF Fits
      <3>2. JUDYL => IMMED_MAXPOP1[1] <= LEAF_MAXPOP1[1]
        BY <1>0, MaxType
      <3>3. IMMED_MAXPOP1[1] \in Nat /\ LEAF_MAXPOP1[1] \in Nat /\ Base \in Nat
        BY <1>0, <2>1, MaxType, SizeAssumption
      <3>4. CASE JUDYL
        BY <2>1, <2>3, <3>1, <3>2, <3>3, <3>4 DEF Fits
      <3>5. CASE ~JUDYL
        <4>1. Cardinality(Here.keys) % Base = Cardinality(Here.keys)
          BY <1>9, <3>1, <3>3
        <4>2. Cardinality(Here.keys) \in 1..Base
          BY <1>9, <3>1, <3>3
        <4> QED
          BY <2>1, <2>3, <3>5, <4>1, <4>2 DEF Fits
      <3> QED
        BY <3>4, <3>5
    <2>5. CASE UNCHANGED jp /\ WalkReturn(-1)
      BY <2>1, <2>5, SameShape DEF Returns
    <2>6. CASE jp' = [jp EXCEPT ![Pjp] = J] /\ Continue
      BY <2>1, <2>3, <2>4, <2>6, LeafShape DEF Goes, Branch
    <2> QED
      BY <2>2, <2>5, <2>6
  <1> QED
    BY <1>1, <1>2, <1>3, <1>4

(***************************************************************************)
(* Each case of the switch in j__udyInsWalk, its failures included, does   *)
(* one of four things to the tree.                                         *)
(***************************************************************************)
LEMMA WalkShape ==
    ASSUME TypeOK, OwnKeys(jp), KeysInLeaves(jp), Walk
    PROVE  Replaced \/ Added \/ Splayed \/ Shifted
  <1>1. CASE WalkPresent
    BY <1>1, SameShape DEF WalkPresent, Walk, Returns
  <1>2. CASE WalkAbsent
    BY <1>2, WalkBranchShape, WalkLeafShape, WalkImmedShape DEF WalkAbsent, Walk
  <1> QED
    BY <1>1, <1>2 DEF Walk

-----------------------------------------------------------------------------
(* Every step keeps the keys *)

(***************************************************************************)
(* OthersKeep says what a step leaves in the tree.  That it does rests on  *)
(* where the walk stands: on a JP that a walk from the root comes to, so   *)
(* that what is written there shadows nothing, and on a tree where keys    *)
(* are in leaves of their own expanse only, so that a branch or a NULL JP  *)
(* has nothing to lose and a splay writes where nothing is found.          *)
(***************************************************************************)
KeptInv ==
    /\ OwnKeys(jp)
    /\ KeysInLeaves(jp)
    /\ pc = "walk" => Reaches(jp, key, level)
    /\ pc \in {"walk", "up"} => root = "JPM"
    /\ root = "NULL" => \A s \in Slots : jp[s].keys = {}
    /\ root = "LEAF8" => jp[RootSlot].type = "LEAF"
    /\ reply.op = "Free" => root = "NULL"

\* The keys of the tree and their words after a step.
Kept == \A k \in Index : Get(jp, k) => Get(jp', k) /\ (jp' # jp => value'[k] = value[k])

\* What a step of the walk has to keep of KeptInv.
WalkKept == OwnKeys(jp') /\ KeysInLeaves(jp') /\ (pc' = "walk" => Reaches(jp', key', level'))

\* A key that the walk has not met by a JP without its digit is not there.
LEMMA NotYet ==
    ASSUME TypeOK, KeysInLeaves(jp), pc = "walk", Reaches(jp, key, level),
           key \notin Here.keys, ~Enters(Here, digit)
    PROVE  ~Get(jp, key)
  <1>1. ASSUME NEW l \in Level, Reaches(jp, key, l) PROVE key \notin jp[Slot(key, l)].keys
    <2>1. CASE l = level
      BY <2>1 DEF Here, Pjp
    <2>2. CASE l < level
      BY <1>1, <2>2, HereType, ReachesAbove DEF Here, Pjp, digit
    <2>3. CASE l > level
      <3>1. Enters(jp[Slot(key, l)], key[l])
        BY <2>3, HereType, ReachesAbove
      <3>2. jp[Slot(key, l)].type \in Branch
        BY <3>1 DEF Enters, EntersL, EntersB, EntersU, Branch
      <3> QED
        BY <3>2, HereType, SlotType DEF KeysInLeaves
    <2> QED
      BY <2>1, <2>2, <2>3, HereType, SizeAssumption DEF Level
  <1> QED
    BY <1>1 DEF Get

\* The word of the new key is that of no other.
LEMMA PlacedApart ==
    ASSUME TypeOK, Placed, ~Get(jp, key)
    PROVE  \A k \in Index : Get(jp, k) => value'[k] = value[k]
  BY DEF TypeOK, Placed

\* A JP replaced on the path of the walk.
LEMMA ReplacedKept ==
    ASSUME TypeOK, KeptInv, pc = "walk", Replaced
    PROVE  WalkKept /\ Kept
  <1>1. PICK J : /\ jp' = [jp EXCEPT ![Pjp] = J]
                 /\ Grows(J)
                 /\ Holds(J) \/ (J.keys = Here.keys /\ (Returns \/ Goes))
    BY DEF Replaced
  <1>2. /\ Pjp \in Slots /\ Pjp[1] = level /\ jp \in [Slots -> JP] /\ Here = jp[Pjp]
        /\ Pjp = Slot(key, level) /\ key \in Index /\ level \in Level /\ digit \in Digit
    BY HereType DEF TypeOK, Here, Pjp
  <1>3. Reaches(jp, key, level)
    BY DEF KeptInv
  <1>4. ASSUME NEW k \in Index
        PROVE  /\ \A l \in Level : Reaches(jp, k, l) => Reaches(jp', k, l)
               /\ Get(jp, k) => Get(jp', k)
    BY <1>1, <1>2, PutKept, IndexKey DEF Grows
  <1>5. OwnKeys(jp')
    BY <1>1, <1>2 DEF KeptInv, OwnKeys, Grows
  <1>6. KeysInLeaves(jp')
    BY <1>1, <1>2 DEF KeptInv, KeysInLeaves, Grows
  <1>7. CASE Holds(J)
    <2>1. pc' # "walk"
      BY <1>7 DEF Holds, Placed, WalkReturn
    <2>2. ~Get(jp, key)
      BY <1>3, <1>7, NotYet DEF Holds, KeptInv
    <2> QED
      BY <1>4, <1>5, <1>6, <1>7, <2>1, <2>2, PlacedApart DEF Holds, WalkKept, Kept
  <1>8. CASE Returns
    <2>1. pc' # "walk" /\ UNCHANGED value
      BY <1>8 DEF Returns, WalkReturn
    <2> QED
      BY <1>4, <1>5, <1>6, <2>1 DEF WalkKept, Kept
  <1>9. CASE Goes
    <2>1. CASE Continue
      <3>1. Reaches(jp', key', level')
        BY <1>2, <1>3, <1>4, <2>1 DEF Continue, frame
      <3> QED
        BY <1>4, <1>5, <1>6, <1>9, <3>1 DEF Goes, WalkKept, Kept
    <2>2. CASE Descend /\ level > 1 /\ Enters(Here, digit)
      <3>1. Enters(jp'[Pjp], digit)
        BY <1>1, <1>2, <2>2 DEF Grows
      <3>2. Reaches(jp', key, level)
        BY <1>2, <1>3, <1>4
      <3>3. Reaches(jp', key, level - 1)
        BY <1>2, <2>2, <3>1, <3>2, ReachesBelow DEF digit
      <3>4. key' = key /\ level' = level - 1
        BY <2>2 DEF Descend
      <3> QED
        BY <1>4, <1>5, <1>6, <1>9, <3>3, <3>4 DEF Goes, WalkKept, Kept
    <2> QED
      BY <1>9, <2>1, <2>2 DEF Goes
  <1> QED
    BY <1>1, <1>7, <1>8, <1>9

(***************************************************************************)
(* A new JP under a branch shadows nothing, since no walk came to its      *)
(* slot, and a walk comes to it now.                                       *)
(***************************************************************************)
LEMMA AddedTree ==
    ASSUME TypeOK, KeptInv, pc = "walk", Added
    PROVE  LET c == Slot(key, level - 1)
               J == [Here EXCEPT !.exp = @ \cup {digit}]
           IN  /\ level > 1 /\ level - 1 \in Level
               /\ c \in Slots /\ c[1] = level - 1 /\ c # Pjp
               /\ \A s \in Slots :
                    jp'[s] = IF s = Pjp THEN J ELSE IF s = c THEN ImmedJP({key}) ELSE jp[s]
               /\ J.keys = Here.keys /\ J.type = Here.type /\ J.exp = Here.exp \cup {digit}
               /\ \A k \in Key : /\ \A l \in Level : Reaches(jp, k, l) => Reaches(jp', k, l)
                                 /\ Get(jp, k) => Get(jp', k)
               /\ Reaches(jp', key, level - 1)
               /\ ~Get(jp, key)
  <1>1. /\ Pjp \in Slots /\ Pjp[1] = level /\ jp \in [Slots -> JP] /\ Here = jp[Pjp]
        /\ Pjp = Slot(key, level) /\ key \in Index /\ level \in Level /\ digit = key[level]
        /\ Here \in JP /\ level > 1 /\ key \in Key /\ digit \in Digit
    BY HereType, IndexKey DEF TypeOK, Here, Pjp, digit, Added, Branch
  <1> DEFINE c == Slot(key, level - 1)
             J == [Here EXCEPT !.exp = @ \cup {digit}]
             t == [jp EXCEPT ![c] = ImmedJP({key})]
  <1>2. level - 1 \in Level /\ c \in Slots /\ c[1] = level - 1 /\ c # Pjp
    BY <1>1, SlotType, SizeAssumption DEF Level
  <1>3. ~Enters(Here, digit)
    BY DEF Added, Enters, EntersL, EntersB, EntersU
  <1>4. ~Reaches(jp, key, level - 1)
    BY <1>1, <1>2, <1>3, ReachesAbove DEF Level
  <1>5. ImmedJP({key}) \in JP
    BY <1>1, ImmedJPType
  <1>6. jp' = [t EXCEPT ![Pjp] = J]
    <2>1. t[Pjp] = Here
      BY <1>1, <1>2
    <2>2. jp' = [jp EXCEPT ![Pjp] = J, ![c] = ImmedJP({key})]
      BY DEF Added, AddToBranch, Here
    <2> HIDE DEF J, c
    <2> QED
      BY <1>1, <1>2, <2>2
  <1>7. J.keys = Here.keys /\ J.type = Here.type /\ J.exp = Here.exp \cup {digit}
    BY <1>1 DEF JP
  <1>8. t \in [Slots -> JP] /\ t[Pjp] = Here
    BY <1>1, <1>2, <1>5
  <1> HIDE DEF J
  <1>9. (\A d \in Digit : Enters(Here, d) => Enters(J, d)) /\ Enters(J, digit)
    BY <1>7 DEF Added, Enters, EntersL, EntersB, EntersU
  <1>10. ASSUME NEW k \in Key
         PROVE  /\ \A l \in Level : Reaches(jp, k, l) => Reaches(jp', k, l)
                /\ Get(jp, k) => Get(jp', k)
    <2>1. /\ \A l \in Level : Reaches(jp, k, l) => Reaches(t, k, l)
          /\ Get(jp, k) => Get(t, k)
      BY <1>1, <1>2, <1>4, UnreachedKept
    <2> HIDE DEF t
    <2>2. /\ \A l \in Level : Reaches(t, k, l) => Reaches(jp', k, l)
          /\ Get(t, k) => Get(jp', k)
      BY <1>1, <1>6, <1>7, <1>8, <1>9, PutKept
    <2> QED
      BY <2>1, <2>2
  <1>11. ~Get(jp, key)
    <2>1. Here.keys = {}
      BY <1>1 DEF KeptInv, KeysInLeaves, Added, Branch
    <2> QED
      BY <1>3, <2>1, NotYet DEF KeptInv
  <1>12. \A s \in Slots : jp'[s] = IF s = Pjp THEN J ELSE IF s = c THEN ImmedJP({key}) ELSE jp[s]
    <2> HIDE DEF c
    <2> QED
      BY <1>1, <1>2, <1>6
  <1>13. Reaches(jp', key, level - 1)
    <2>1. Reaches(jp', key, level)
      BY <1>1, <1>10 DEF KeptInv
    <2>2. Enters(jp'[Slot(key, level)], key[level])
      BY <1>1, <1>9, <1>12
    <2> QED
      BY <1>1, <2>1, <2>2, ReachesBelow
  <1> QED
    BY <1>1, <1>2, <1>7, <1>10, <1>11, <1>12, <1>13 DEF J

\* It keeps what the tree had.
LEMMA AddedKept ==
    ASSUME TypeOK, KeptInv, pc = "walk", Added
    PROVE  WalkKept /\ Kept
  <1> DEFINE c == Slot(key, level - 1)
             J == [Here EXCEPT !.exp = @ \cup {digit}]
  <1>1. /\ c \in Slots /\ c[1] = level - 1 /\ c # Pjp
        /\ \A s \in Slots :
              jp'[s] = IF s = Pjp THEN J ELSE IF s = c THEN ImmedJP({key}) ELSE jp[s]
        /\ J.keys = Here.keys /\ J.type = Here.type
    BY AddedTree
  <1>2. (\A k \in Index : Get(jp, k) => Get(jp', k)) /\ ~Get(jp, key)
    BY AddedTree, IndexKey
  <1> HIDE DEF J
  <1>3. ImmedJP({key}).keys = {key} /\ ImmedJP({key}).type = "IMMED"
    BY DEF ImmedJP, NullJP
  <1>4. Pjp \in Slots /\ Here = jp[Pjp]
    BY HereType DEF Here
  <1>5. OwnKeys(jp')
    BY <1>1, <1>3, <1>4 DEF KeptInv, OwnKeys
  <1>6. KeysInLeaves(jp')
    BY <1>1, <1>3, <1>4 DEF KeptInv, KeysInLeaves, Branch
  <1>7. pc' # "walk" /\ Placed
    BY DEF Added, Placed, WalkReturn
  <1> QED
    BY <1>2, <1>5, <1>6, <1>7, PlacedApart DEF WalkKept, Kept

\* A splay on the path of the walk.
LEMMA SplayedKept ==
    ASSUME TypeOK, KeptInv, pc = "walk", Splayed
    PROVE  WalkKept /\ Kept
  <1>1. /\ Pjp \in Slots /\ jp \in [Slots -> JP] /\ Pjp = Slot(key, level)
        /\ key \in Index /\ level \in Level /\ jp[Pjp].type = "LEAF" /\ level > 1
    BY HereType DEF TypeOK, Here, Pjp, Splayed
  <1>2. jp' = Splay(jp, Pjp) /\ UNCHANGED <<key, level, value>>
    BY DEF Splayed, Continue, frame
  <1>3. OwnKeys(jp') /\ KeysInLeaves(jp')
    BY <1>1, <1>2, SplayTidy DEF KeptInv
  <1>4. \A k \in Index : Get(jp, k) => Get(jp', k)
    BY <1>1, <1>2, SplayKept, IndexKey DEF KeptInv
  <1>5. Reaches(jp', key, level)
    BY <1>1, <1>2, SplayKept, IndexKey DEF KeptInv
  <1> QED
    BY <1>2, <1>3, <1>4, <1>5 DEF WalkKept, Kept

\* The immediate that could not grow has lost a key and gained none of another expanse.
LEMMA ShiftedKept ==
    ASSUME TypeOK, KeptInv, pc = "walk", Shifted
    PROVE  WalkKept
  <1>1. /\ Pjp \in Slots /\ Pjp[1] = level /\ jp \in [Slots -> JP] /\ Here = jp[Pjp]
        /\ Pjp = Slot(key, level) /\ key \in Index /\ level \in Level
        /\ Here \in JP /\ Here.type = "IMMED"
    BY HereType DEF TypeOK, Here, Pjp, Shifted, ShiftFails
  <1>2. PICK Q \in SUBSET (Here.keys \cup {key}) : jp' = [jp EXCEPT ![Pjp].keys = Q]
    BY DEF Shifted, ImmedShifted
  <1>3. \A s \in Slots : /\ jp'[s].type = jp[s].type
                         /\ jp'[s].keys = IF s = Pjp THEN Q ELSE jp[s].keys
    BY <1>1, <1>2 DEF JP
  <1>4. OwnKeys(jp')
    BY <1>1, <1>2, <1>3 DEF KeptInv, OwnKeys
  <1>5. KeysInLeaves(jp')
    BY <1>1, <1>2, <1>3 DEF KeptInv, KeysInLeaves, Branch
  <1>6. pc' # "walk"
    BY DEF Shifted, WalkReturn
  <1> QED
    BY <1>4, <1>5, <1>6 DEF WalkKept

\* The walk keeps all but what an immediate loses that could not grow.
LEMMA WalkKeeps ==
    ASSUME TypeOK, KeptInv, Walk
    PROVE  KeptInv' /\ (Shifted \/ Kept)
  <1>1. pc = "walk" /\ UNCHANGED <<root, reply>>
    BY DEF Walk
  <1>2. WalkKept /\ (Shifted \/ Kept)
    BY <1>1, WalkShape, ReplacedKept, AddedKept, SplayedKept, ShiftedKept DEF KeptInv
  <1> QED
    BY <1>1, <1>2 DEF WalkKept, KeptInv

\* A population is no key.
LEMMA PopKept ==
    ASSUME NEW t \in [Slots -> JP], NEW s \in Slots, NEW n,
           OwnKeys(t), KeysInLeaves(t)
    PROVE  LET u == [t EXCEPT ![s] = [@ EXCEPT !.pop = n]]
           IN  /\ OwnKeys(u) /\ KeysInLeaves(u)
               /\ \A r \in Slots : u[r].type = t[r].type /\ u[r].keys = t[r].keys
               /\ \A k \in Index : Get(t, k) => Get(u, k)
  <1> DEFINE J == [t[s] EXCEPT !.pop = n]
             u == [t EXCEPT ![s] = J]
  <1>1. J.keys = t[s].keys /\ J.type = t[s].type /\ J.exp = t[s].exp
    BY DEF JP
  <1> HIDE DEF J
  <1>2. \A r \in Slots : u[r].type = t[r].type /\ u[r].keys = t[r].keys
    BY <1>1
  <1>3. \A d \in Digit : Enters(t[s], d) => Enters(J, d)
    BY <1>1 DEF Enters, EntersL, EntersB, EntersU
  <1>4. \A k \in Index : Get(t, k) => Get(u, k)
    BY <1>1, <1>3, PutKept, IndexKey
  <1>5. OwnKeys(u) /\ KeysInLeaves(u)
    BY <1>2 DEF OwnKeys, KeysInLeaves
  <1> QED
    BY <1>2, <1>4, <1>5 DEF J

\* The frames that return, and the end of the call, count the key and no more.
LEMMA UpKeeps ==
    ASSUME TypeOK, KeptInv, WalkUp \/ InsDone
    PROVE  KeptInv' /\ Kept
  <1>1. Pjp \in Slots /\ jp \in [Slots -> JP] /\ pc = "up" /\ pc' # "walk"
    BY HereType DEF TypeOK, WalkUp, InsDone
  <1>2. UNCHANGED <<root, value>> /\ (pc' = "idle" \/ pc' = pc)
    BY DEF WalkUp, InsDone, data, tree
  <1>3. reply' = reply \/ reply'.op = "Ins"
    BY DEF WalkUp, InsDone
  <1>4. jp' = jp \/ jp' = [jp EXCEPT ![Pjp] = [@ EXCEPT !.pop = jp[Pjp].pop + 1]]
    <2>1. CASE WalkUp
      BY <2>1 DEF WalkUp
    <2>2. CASE InsDone
      BY <2>2 DEF InsDone, tree
    <2> QED
      BY <2>1, <2>2
  <1>5. /\ OwnKeys(jp') /\ KeysInLeaves(jp')
        /\ \A k \in Index : Get(jp, k) => Get(jp', k)
    BY <1>1, <1>4, PopKept DEF KeptInv
  <1>6. root = "JPM"
    BY <1>1 DEF KeptInv
  <1> QED
    BY <1>1, <1>2, <1>3, <1>5, <1>6 DEF KeptInv, Kept

\* A LEAF8 is all there is of its tree.
LEMMA Leaf8Whole ==
    ASSUME NEW k \in Index, jp[RootSlot].type = "LEAF", Get(jp, k)
    PROVE  k \in jp[RootSlot].keys
  <1>1. Slot(k, RootLevel) = RootSlot
    BY SizeAssumption DEF Slot, RootSlot
  <1>2. PICK l \in Level : Reaches(jp, k, l) /\ k \in jp[Slot(k, l)].keys
    BY DEF Get
  <1>3. CASE l = RootLevel
    BY <1>1, <1>2, <1>3
  <1>4. CASE l < RootLevel
    <2>1. Enters(jp[RootSlot], k[RootLevel])
      BY <1>1, <1>2, <1>4, RootSlotType, ReachesAbove
    <2> QED
      BY <2>1 DEF Enters, EntersL, EntersB, EntersU
  <1> QED
    BY <1>3, <1>4, SizeAssumption DEF Level

\* Keys found at the root need no walk.
LEMMA RootGot ==
    ASSUME NEW t, NEW k \in Index, k \in t[RootSlot].keys
    PROVE  Get(t, k)
  <1>1. Slot(k, RootLevel) = RootSlot
    BY SizeAssumption DEF Slot, RootSlot
  <1> QED
    BY <1>1, RootSlotType, ReachesRoot DEF Get

\* The insertions that return without a walk, or start one.
LEMMA InsKeeps ==
    ASSUME TypeOK, KeptInv, NEW k \in Index, Ins(k)
    PROVE  KeptInv' /\ Kept
  <1>0. jp \in [Slots -> JP] /\ RootSlot \in Slots /\ RootSlot[1] = RootLevel
        /\ value \in [Index -> Value]
    BY RootSlotType DEF TypeOK
  <1>1. CASE InsPresent(k)
    BY <1>1 DEF InsPresent, Callable, Answer, KeptInv, Kept, tree, data, frame
  <1>2. CASE InsEmpty(k)
    <2>1. /\ pc = "idle" /\ UNCHANGED frame /\ root = "NULL" /\ reply'.op = "Ins"
          /\ \/ root' = root /\ jp' = jp /\ value' = value
             \/ root' = "LEAF8" /\ jp' = [jp EXCEPT ![RootSlot] = LeafJP(RootLevel, {k})]
      BY <1>2 DEF InsEmpty, Callable, NoMem, Inserted, Answer
    <2>2. LeafJP(RootLevel, {k}).keys = {k} /\ LeafJP(RootLevel, {k}).type = "LEAF"
      BY DEF LeafJP, NullJP
    <2>3. Slot(k, RootLevel) = RootSlot
      BY SizeAssumption DEF Slot, RootSlot
    <2>4. \A j \in Index : ~Get(jp, j)
      BY <2>1, SlotType DEF KeptInv, Get
    <2>5. OwnKeys(jp') /\ KeysInLeaves(jp')
      BY <1>0, <2>1, <2>2, <2>3 DEF KeptInv, OwnKeys, KeysInLeaves, Branch
    <2>6. root' = "LEAF8" => jp'[RootSlot].type = "LEAF"
      BY <1>0, <2>1, <2>2
    <2> QED
      BY <2>1, <2>4, <2>5, <2>6 DEF KeptInv, Kept, frame
  <1>3. CASE InsLeaf8(k)
    <2>1. /\ pc = "idle" /\ UNCHANGED frame /\ root = "LEAF8" /\ root' = root
          /\ reply'.op = "Ins" /\ ~JudyLGet(jp, k)
          /\ \/ jp' = jp /\ value' = value
             \/ /\ jp' = [jp EXCEPT ![RootSlot].keys = @ \cup {k}]
                /\ value' = [value EXCEPT ![k] = 0]
      BY <1>3 DEF InsLeaf8, Callable, NoMem, Inserted, Answer
    <2>2. jp[RootSlot].type = "LEAF"
      BY <2>1 DEF KeptInv
    <2>3. ~Get(jp, k)
      BY <2>1, <2>2, Leaf8Whole, Leaf8Got
    <2>4. Slot(k, RootLevel) = RootSlot
      BY SizeAssumption DEF Slot, RootSlot
    <2> DEFINE J == [jp[RootSlot] EXCEPT !.keys = @ \cup {k}]
    <2>5. J.keys = jp[RootSlot].keys \cup {k} /\ J.type = "LEAF"
      BY <1>0, <2>2 DEF JP
    <2>6. jp' = jp \/ jp' = [jp EXCEPT ![RootSlot] = J]
      BY <2>1
    <2> HIDE DEF J
    <2>7. OwnKeys(jp') /\ KeysInLeaves(jp') /\ jp'[RootSlot].type = "LEAF"
      BY <1>0, <2>2, <2>4, <2>5, <2>6 DEF KeptInv, OwnKeys, KeysInLeaves, Branch
    <2>8. ASSUME NEW j \in Index, Get(jp, j) PROVE Get(jp', j) /\ value'[j] = value[j]
      <3>1. j \in jp[RootSlot].keys /\ j # k
        BY <2>2, <2>3, <2>8, Leaf8Whole
      <3>2. j \in jp'[RootSlot].keys
        BY <1>0, <2>5, <2>6, <3>1
      <3> QED
        BY <1>0, <2>1, <3>1, <3>2, RootGot
    <2> QED
      BY <2>1, <2>7, <2>8 DEF KeptInv, Kept, frame
  <1>4. CASE InsCascade8(k)
    <2>1. /\ pc = "idle" /\ root = "LEAF8" /\ UNCHANGED value
          /\ \/ NoMem(k) /\ UNCHANGED tree
             \/ root' = "JPM" /\ jp' = Splay(jp, RootSlot) /\ StartWalk(k)
      BY <1>4 DEF InsCascade8, Callable, data
    <2>2. jp[RootSlot].type = "LEAF" /\ reply.op # "Free"
      BY <2>1 DEF KeptInv
    <2>3. CASE NoMem(k) /\ UNCHANGED tree
      BY <2>1, <2>2, <2>3 DEF NoMem, Answer, KeptInv, Kept, tree, frame
    <2>4. CASE root' = "JPM" /\ jp' = Splay(jp, RootSlot) /\ StartWalk(k)
      <3>1. OwnKeys(jp') /\ KeysInLeaves(jp')
        BY <1>0, <2>4, SplayTidy DEF KeptInv
      <3>2. Slot(k, RootLevel) = RootSlot /\ RootLevel \in Level /\ RootLevel > 1
        BY SizeAssumption DEF Slot, RootSlot, Level
      <3>3. \A j \in Index : Get(jp, j) => Get(jp', j)
        BY <1>0, <2>2, <2>4, <3>2, SplayKept, IndexKey DEF KeptInv
      <3>4. Reaches(jp', key', level') /\ pc' = "walk" /\ reply' = reply
        BY <2>4, ReachesRoot DEF StartWalk
      <3> QED
        BY <2>1, <2>2, <2>4, <3>1, <3>3, <3>4 DEF KeptInv, Kept
    <2> QED
      BY <2>1, <2>3, <2>4
  <1>5. CASE InsTree(k)
    <2>1. root = "JPM" /\ UNCHANGED <<root, jp, value, reply>> /\ level' = RootLevel
      BY <1>5 DEF InsTree, StartWalk, tree, data
    <2>2. Reaches(jp', key', level')
      BY <2>1, ReachesRoot
    <2> QED
      BY <2>1, <2>2 DEF KeptInv, Kept
  <1> QED
    BY <1>1, <1>2, <1>3, <1>4, <1>5 DEF Ins

\* The other calls; FreeArray finds an empty array unless it says so.
LEMMA CallKeeps ==
    ASSUME TypeOK, KeptInv,
           (\E k \in Index : Del(k)) \/ (\E v \in Value : Store(v)) \/ FreeArray
    PROVE  KeptInv' /\ (Frees \/ Kept)
  <1>1. ASSUME NEW k \in Index, Del(k)
        PROVE  KeptInv' /\ Kept
    <2>1. /\ pc = "idle" /\ pc' \in {"idle", "exited"} /\ UNCHANGED <<root, jp, value>>
          /\ reply' = reply \/ reply'.op = "Del"
      BY <1>1 DEF Del, Callable, Answer, tree, data, frame
    <2> QED
      BY <2>1 DEF KeptInv, Kept
  <1>2. ASSUME NEW v \in Value, Store(v)
        PROVE  KeptInv' /\ Kept
    BY <1>2 DEF Store, Callable, KeptInv, Kept, tree, frame
  <1>3. CASE FreeArray
    <2>1. /\ root' = "NULL" /\ jp' = EmptyTree /\ pc = "idle" /\ UNCHANGED <<pc, value>>
          /\ reply'.op = "Free"
      BY <1>3 DEF FreeArray, Callable, Answer, frame, data
    <2>2. \A s \in Slots : jp'[s].keys = {}
      BY <2>1 DEF EmptyTree, NullJP
    <2>3. KeptInv'
      BY <2>1, <2>2 DEF KeptInv, OwnKeys, KeysInLeaves
    <2>4. reply' = reply => \A k \in Index : ~Get(jp, k)
      BY <2>1, SlotType DEF KeptInv, Get
    <2> QED
      BY <2>1, <2>3, <2>4 DEF Frees, Kept
  <1> QED
    BY <1>1, <1>2, <1>3

\* Every step keeps the invariant, and the keys but for those two.
LEMMA NextKeeps ==
    ASSUME TypeOK, KeptInv, [Next]_vars
    PROVE  KeptInv' /\ (Frees \/ Shifted \/ Kept)
  <1>1. CASE UNCHANGED vars
    BY <1>1 DEF KeptInv, Kept, vars, tree, data, frame
  <1> QED
    BY <1>1, InsKeeps, CallKeeps, WalkKeeps, UpKeeps DEF Next

\* Kept is what the properties call Keeps.
LEMMA KeptKeeps == Kept => Keeps
  BY DEF Kept, Keeps, Content

(***************************************************************************)
(* Whatever the calls, the keys, the sizes of the tables and the           *)
(* allocations that fail, no step of j__udyInsWalk or of a call loses a    *)
(* key that was found before it or changes its word: the conversions of    *)
(* leaves and branches, the splays, every way to run out of memory but     *)
(* one.  That one is the immediate whose keys have made room for the new   *)
(* one before their value area is enlarged.                                *)
(***************************************************************************)
THEOREM OthersKept == Spec => OthersKeep
  <1>1. Init => KeptInv
    BY DEF Init, KeptInv, OwnKeys, KeysInLeaves, EmptyTree, NullJP
  <1>2. TypeOK /\ KeptInv /\ [Next]_vars => KeptInv'
    BY NextKeeps
  <1>3. TypeOK /\ KeptInv /\ [Next]_vars => [Frees \/ ShiftFails \/ Keeps]_vars
    BY NextKeeps, KeptKeeps DEF Shifted
  <1> QED
    BY <1>1, <1>2, <1>3, TypeCorrect, PTL DEF Spec, OthersKeep

(***************************************************************************)
(* Nothing at all is lost where that allocation does not fail, in Judy1    *)
(* for one, whose immediates have no value area.                           *)
(***************************************************************************)
THEOREM AllKept ==
    ASSUME ~JUDYL \/ "JVShift" \notin FailSites
    PROVE  Spec => KeysKept
  <1>1. Init => KeptInv
    BY DEF Init, KeptInv, OwnKeys, KeysInLeaves, EmptyTree, NullJP
  <1>2. TypeOK /\ KeptInv /\ [Next]_vars => KeptInv'
    BY NextKeeps
  <1>3. ~Shifted
    BY DEF Shifted, Fails
  <1>4. TypeOK /\ KeptInv /\ [Next]_vars => [Frees \/ Keeps]_vars
    BY <1>3, NextKeeps, KeptKeeps
  <1> QED
    BY <1>1, <1>2, <1>4, TypeCorrect, PTL DEF Spec, KeysKept

-----------------------------------------------------------------------------
(* A key that is said to be in is in *)

\* What JudyLGet finds, a walk finds.
LEMMA JudyLGetFinds ==
    ASSUME NEW k \in Index, JudyLGet(jp, k)
    PROVE  Get(jp, k)
  <1>1. PICK l \in Level :
            /\ WalksTo(jp, k, l)
            /\ k \in jp[Slot(k, l)].keys
    BY DEF JudyLGet, InLeaf1, InLeaf2, InLeaf3To7, InLeaf8, InLeafB1U, InFullPop,
           InImmed01, InImmed, At
  <1>2. Reaches(jp, k, l)
    BY <1>1 DEF WalksTo, Reaches, DownL, DownB, DownU, SubExp, Enters, EntersL, EntersB, EntersU
  <1> QED
    BY <1>1, <1>2 DEF Get

\* So does j__udyLGet in JudyL, where no case runs on into the next.
LEMMA PrivateGetFinds ==
    ASSUME JUDYL, NEW k \in Index, j__udyLGet(jp, k)
    PROVE  Get(jp, k)
  BY DEF j__udyLGet, WholeLeaf, RunsOn, WholeFullPop, WholeImmed, Get

\* A walk that ends without a failure has put its key in, or met it.
LEMMA WalkFinds ==
    ASSUME TypeOK, KeptInv, Walk, pc' = "up", ret' # -1
    PROVE  Get(jp', key) /\ key' = key
  <1>1. /\ Pjp \in Slots /\ jp \in [Slots -> JP] /\ Here = jp[Pjp] /\ pc = "walk"
        /\ Pjp = Slot(key, level) /\ key \in Index /\ level \in Level /\ digit = key[level]
        /\ Reaches(jp, key, level) /\ Here \in JP
    BY HereType DEF TypeOK, Here, Pjp, Walk, KeptInv, digit
  <1>2. ~Continue /\ ~Descend /\ ~WalkReturn(-1)
    BY <1>1 DEF Continue, Descend, WalkReturn, frame
  <1>3. CASE Replaced
    <2>1. PICK J : /\ jp' = [jp EXCEPT ![Pjp] = J] /\ Grows(J)
                   /\ Holds(J) \/ Returns
      BY <1>2, <1>3 DEF Replaced, Goes
    <2>2. key \in J.keys /\ key' = key
      BY <1>2, <2>1 DEF Holds, Returns, Grows, Placed, WalkReturn
    <2>3. Reaches(jp', key, level)
      BY <1>1, <2>1, PutKept, IndexKey DEF Grows
    <2> QED
      BY <1>1, <2>1, <2>2, <2>3 DEF Get
  <1>4. CASE Added
    <2> DEFINE c == Slot(key, level - 1)
    <2>1. /\ level - 1 \in Level /\ c \in Slots /\ c # Pjp /\ Reaches(jp', key, level - 1)
          /\ jp'[c] = ImmedJP({key})
      BY <1>1, <1>4, AddedTree
    <2>2. key \in jp'[c].keys
      BY <2>1 DEF ImmedJP, NullJP
    <2> QED
      BY <1>4, <2>1, <2>2 DEF Get, Added, Placed, WalkReturn
  <1>5. CASE Splayed \/ Shifted
    BY <1>2, <1>5 DEF Splayed, Shifted
  <1> QED
    BY <1>3, <1>4, <1>5, WalkShape DEF KeptInv

\* The walk goes on or has ended, and the process does not end in it.
LEMMA WalkStays ==
    ASSUME TypeOK, KeptInv, Walk
    PROVE  pc' \in {"walk", "up"}
  <1>1. pc = "walk"
    BY DEF Walk
  <1> QED
    BY <1>1, WalkShape DEF KeptInv, Replaced, Added, Splayed, Shifted, Holds,
       Returns, Goes, Placed, WalkReturn, Continue, Descend, frame

(***************************************************************************)
(* InsertedIsFound speaks of the time between two calls; within one, the   *)
(* key has to be found from the moment the deepest frame returns.          *)
(***************************************************************************)
FoundInv ==
    /\ pc = "up" => Get(jp, key)
    /\ pc = "idle" /\ reply.op = "Ins" /\ reply.code # "nomem" =>
           reply.key \in Index /\ Get(jp, reply.key)

\* The insertions that return without a walk.
LEMMA InsFinds ==
    ASSUME TypeOK, KeptInv, FoundInv, Kept, NEW k \in Index, Ins(k)
    PROVE  FoundInv'
  <1>0. jp \in [Slots -> JP] /\ RootSlot \in Slots
    BY RootSlotType DEF TypeOK
  <1>1. CASE InsPresent(k)
    <2>1. Get(jp, k) /\ jp' = jp /\ reply'.key = k /\ pc = "idle" /\ pc' = pc
      BY <1>1, JudyLGetFinds DEF InsPresent, Callable, Answer, tree, frame
    <2> QED
      BY <2>1 DEF FoundInv
  <1>2. CASE InsEmpty(k)
    <2>1. /\ pc = "idle" /\ pc' = pc
          /\ \/ reply'.code = "nomem"
             \/ /\ jp' = [jp EXCEPT ![RootSlot] = LeafJP(RootLevel, {k})]
                /\ reply'.key = k
      BY <1>2 DEF InsEmpty, Callable, NoMem, Inserted, Answer, frame
    <2>2. LeafJP(RootLevel, {k}).keys = {k}
      BY DEF LeafJP, NullJP
    <2> QED
      BY <1>0, <2>1, <2>2, RootGot DEF FoundInv
  <1>3. CASE InsLeaf8(k)
    <2>1. /\ pc = "idle" /\ pc' = pc
          /\ \/ reply'.code = "nomem"
             \/ /\ jp' = [jp EXCEPT ![RootSlot].keys = @ \cup {k}]
                /\ reply'.key = k
      BY <1>3 DEF InsLeaf8, Callable, NoMem, Inserted, Answer, frame
    <2>2. jp' = [jp EXCEPT ![RootSlot].keys = @ \cup {k}] => k \in jp'[RootSlot].keys
      BY <1>0 DEF JP
    <2> QED
      BY <2>1, <2>2, RootGot DEF FoundInv
  <1>4. CASE InsCascade8(k)
    BY <1>4 DEF InsCascade8, Callable, NoMem, Answer, StartWalk, FoundInv, frame
  <1>5. CASE InsTree(k)
    BY <1>5 DEF InsTree, StartWalk, FoundInv
  <1> QED
    BY <1>1, <1>2, <1>3, <1>4, <1>5 DEF Ins

\* The walk, its way back up and the other calls.
LEMMA NextFinds ==
    ASSUME FailSites \subseteq HandledSites, TypeOK, KeptInv, RootInv, FoundInv, [Next]_vars
    PROVE  FoundInv'
  <1>1. ~Shifted
    BY DEF Shifted, Fails, HandledSites
  <1>2. Frees \/ Kept
    BY <1>1, NextKeeps
  <1>3. ASSUME NEW k \in Index, Ins(k) PROVE FoundInv'
    <2>1. Kept
      BY <1>3, InsKeeps
    <2> QED
      BY <1>3, <2>1, InsFinds
  <1>4. ASSUME NEW k \in Index, Del(k) PROVE FoundInv'
    BY <1>4 DEF Del, Callable, Answer, FoundInv, tree, frame
  <1>5. ASSUME NEW v \in Value, Store(v) PROVE FoundInv'
    BY <1>5 DEF Store, Callable, FoundInv, tree, frame
  <1>6. CASE FreeArray
    BY <1>6 DEF FreeArray, Callable, Answer, FoundInv, frame
  <1>7. CASE Walk
    <2>1. pc' \in {"walk", "up"}
      BY <1>7, WalkStays
    <2>2. ret' # -1
      BY <1>7, WalkRoot DEF RootInv
    <2> QED
      BY <1>7, <2>1, <2>2, WalkFinds DEF FoundInv
  <1>8. CASE WalkUp \/ InsDone
    <2>1. Get(jp, key) /\ key \in Index /\ pc = "up"
      BY <1>8 DEF WalkUp, InsDone, FoundInv, TypeOK
    <2>2. Get(jp', key)
      BY <1>8, <2>1, UpKeeps DEF Kept
    <2>3. CASE WalkUp
      BY <2>1, <2>2, <2>3 DEF WalkUp, FoundInv
    <2>4. CASE InsDone
      BY <2>1, <2>2, <2>4 DEF InsDone, FoundInv
    <2> QED
      BY <1>8, <2>3, <2>4
  <1>9. CASE UNCHANGED vars
    BY <1>9 DEF FoundInv, vars, tree, frame
  <1> QED
    BY <1>3, <1>4, <1>5, <1>6, <1>7, <1>8, <1>9 DEF Next

(***************************************************************************)
(* When malloc fails only where JudyLIns itself allocates, a key that a    *)
(* call says is in is found: until the next call, whatever the walk went   *)
(* through.  A failure within j__udyInsWalk is swallowed by the frames     *)
(* above and makes this false.                                             *)
(***************************************************************************)
THEOREM InsertedFound ==
    ASSUME FailSites \subseteq HandledSites
    PROVE  Spec => []InsertedIsFound
  <1>1. Init => KeptInv /\ RootInv /\ FoundInv
    BY DEF Init, KeptInv, OwnKeys, KeysInLeaves, RootInv, FoundInv, EmptyTree, NullJP
  <1>2. TypeOK /\ KeptInv /\ RootInv /\ FoundInv /\ [Next]_vars => KeptInv' /\ FoundInv'
    BY NextKeeps, NextFinds
  <1>3. FoundInv => InsertedIsFound
    BY DEF FoundInv, InsertedIsFound
  <1>4. TypeOK /\ RootInv /\ [Next]_vars => RootInv'
    BY NextRoot
  <1> QED
    BY <1>1, <1>2, <1>3, <1>4, TypeCorrect, PTL DEF Spec

(***************************************************************************)
(* In JudyL a deletion ends the process for no key that is not there,      *)
(* whatever happened to the array before.                                  *)
(***************************************************************************)
THEOREM SparedL ==
    ASSUME JUDYL
    PROVE  Spec => []AbsentSpared
  <1>1. Init => KeptInv /\ AbsentSpared
    BY DEF Init, KeptInv, OwnKeys, KeysInLeaves, EmptyTree, NullJP, AbsentSpared
  <1>2. TypeOK /\ KeptInv /\ AbsentSpared /\ [Next]_vars => KeptInv' /\ AbsentSpared'
    <2> SUFFICES ASSUME TypeOK, KeptInv, AbsentSpared, [Next]_vars, pc' = "exited"
                 PROVE  Get(jp', key')
      BY NextKeeps DEF AbsentSpared
    <2>1. ASSUME NEW k \in Index, Del(k) PROVE Get(jp', key')
      BY <2>1, PrivateGetFinds DEF Del, Callable, Answer, tree, frame
    <2>2. ASSUME NEW k \in Index, Ins(k) PROVE Get(jp', key')
      BY <2>2 DEF Ins, InsPresent, InsEmpty, InsLeaf8, InsCascade8, InsTree,
                  NoMem, Inserted, StartWalk, Callable, Answer, frame
    <2>3. ASSUME NEW v \in Value, Store(v) PROVE Get(jp', key')
      BY <2>3 DEF Store, Callable, frame
    <2>4. CASE FreeArray
      BY <2>4 DEF FreeArray, Callable, Answer, frame
    <2>5. CASE Walk
      BY <2>5, WalkStays
    <2>6. CASE WalkUp \/ InsDone
      BY <2>6 DEF WalkUp, InsDone
    <2>7. CASE UNCHANGED vars
      BY <2>7 DEF AbsentSpared, vars, tree, frame
    <2> QED
      BY <2>1, <2>2, <2>3, <2>4, <2>5, <2>6, <2>7 DEF Next
  <1> QED
    BY <1>1, <1>2, TypeCorrect, PTL DEF Spec

-----------------------------------------------------------------------------
(* A walk comes to its end *)

\* What a JP may become before the walk leaves it: each is of a later kind.
Stage(J) ==
    IF J.type = "IMMED" THEN 5 ELSE IF J.type = "LEAF" THEN 4
    ELSE IF J.type = "BRANCH_L" THEN 3 ELSE IF J.type = "BRANCH_B" THEN 2
    ELSE IF J.type = "BRANCH_U" THEN 1 ELSE 0

\* The levels and the kinds that are below, and then the frames that return.
WalkAhead ==
    IF pc = "walk" THEN 6 * level + Stage(Here) + RootLevel + 1
    ELSE IF pc = "up" THEN RootLevel - level + 1 ELSE 0

LEMMA LevelNat == RootLevel \in Nat /\ \A l \in Level : l \in Nat /\ l >= 1 /\ l <= RootLevel
  BY SizeAssumption DEF Level

LEMMA StageNat == \A J : Stage(J) \in 0..5
  BY DEF Stage

LEMMA BackAhead ==
    ASSUME TypeOK, pc = "walk", pc' = "up", level' = level
    PROVE  WalkAhead' \in Nat /\ WalkAhead' < WalkAhead
  <1>1. level \in Level
    BY DEF TypeOK
  <1>2. Stage(Here) \in 0..5
    BY StageNat
  <1> QED
    BY <1>1, <1>2, LevelNat DEF WalkAhead

LEMMA AgainAhead ==
    ASSUME TypeOK, pc = "walk", UNCHANGED <<pc, key, level>>, Stage(jp'[Pjp]) < Stage(Here)
    PROVE  WalkAhead' \in Nat /\ WalkAhead' < WalkAhead
  <1>1. level \in Level
    BY DEF TypeOK
  <1>2. Stage(Here) \in 0..5 /\ Stage(jp'[Pjp]) \in 0..5
    BY StageNat
  <1>3. Stage(Here)' = Stage(jp'[Pjp])
    BY DEF Stage, Here, Pjp, Slot
  <1> QED
    BY <1>1, <1>2, <1>3, LevelNat DEF WalkAhead

LEMMA DownAhead ==
    ASSUME TypeOK, pc = "walk", Descend, Here.type \in Branch
    PROVE  WalkAhead' \in Nat /\ WalkAhead' < WalkAhead
  <1>1. level \in Level /\ level > 1 /\ level' = level - 1 /\ pc' = "walk"
    BY HereType DEF Descend
  <1>2. Stage(Here) \in 0..5 /\ Stage(Here)' \in 0..5
    BY StageNat DEF Stage
  <1> QED
    BY <1>1, <1>2, LevelNat DEF WalkAhead

\* The cases of the switch: the frame returns, or goes down, or goes back to
\* the switch with a JP of a later kind.
LEMMA SwitchAhead ==
    ASSUME TypeOK, pc = "walk", WalkAbsent
    PROVE  WalkAhead' \in Nat /\ WalkAhead' < WalkAhead
  <1>1. Here \in JP /\ Pjp \in Slots /\ jp \in [Slots -> JP] /\ TypeOK
    BY HereType DEF TypeOK
  <1>2. CASE pc' = "up" /\ level' = level
    BY <1>2, BackAhead
  <1>3. CASE BranchLDescend \/ BranchBDescend \/ BranchUDescend
    BY <1>3, DownAhead DEF BranchLDescend, BranchBDescend, BranchUDescend, Branch
  <1>4. CASE ~(pc' = "up" /\ level' = level) /\ (BranchLToU \/ BranchBToU)
    <2> DEFINE J == [Here EXCEPT !.type = "BRANCH_U", !.exp = {},
                                 !.sums = Sums8(jp, Pjp, Here.exp)]
    <2>1. jp' = [jp EXCEPT ![Pjp] = J] /\ UNCHANGED <<pc, key, level>>
      BY <1>4 DEF BranchLToU, BranchBToU, WalkFails, WalkReturn, Continue, frame
    <2>2. J.type = "BRANCH_U" /\ Here.type \in {"BRANCH_L", "BRANCH_B"}
      BY <1>1, <1>4 DEF BranchLToU, BranchBToU, JP
    <2> HIDE DEF J
    <2>3. jp'[Pjp] = J
      BY <1>1, <2>1
    <2> QED
      BY <2>1, <2>2, <2>3, AgainAhead DEF Stage
  <1>5. CASE ~(pc' = "up" /\ level' = level) /\ BranchLToB
    <2>1. jp'[Pjp].type = "BRANCH_B" /\ UNCHANGED <<pc, key, level>> /\ Here.type = "BRANCH_L"
      BY <1>1, <1>5 DEF BranchLToB, WalkFails, WalkReturn, Continue, frame, JP
    <2> QED
      BY <2>1, AgainAhead DEF Stage
  <1>6. CASE ~(pc' = "up" /\ level' = level) /\ LeafCascade
    <2>1. jp' = Splay(jp, Pjp) /\ UNCHANGED <<pc, key, level>> /\ Here.type = "LEAF"
      BY <1>6 DEF LeafCascade, LeafFails, WalkReturn, Continue, frame
    <2>2. jp'[Pjp].type \in Branch
      BY <1>1, <2>1, SplayBranch
    <2> QED
      BY <2>1, <2>2, AgainAhead DEF Stage, Branch
  <1>7. CASE ~(pc' = "up" /\ level' = level) /\ (Leaf1ToB1U \/ Immed1ToLeaf)
    <2>1. PICK K : /\ \/ Here.type = "LEAF" /\ jp'[Pjp] = LeafB1UJP(K)
                      \/ Here.type = "IMMED" /\ jp'[Pjp] \in {LeafJP(1, K), LeafB1UJP(K)}
                   /\ UNCHANGED <<pc, key, level>>
      BY <1>1, <1>7 DEF Leaf1ToB1U, Immed1ToLeaf, LeafFails, WalkReturn, Continue, frame
    <2>2. LeafB1UJP(K).type = "LEAF_B1U" /\ LeafJP(1, K).type = "LEAF"
      BY DEF LeafB1UJP, LeafJP, NullJP
    <2>3. Stage(jp'[Pjp]) < Stage(Here)
      BY <2>1, <2>2 DEF Stage
    <2> QED
      BY <2>1, <2>3, AgainAhead
  <1>8. CASE WalkNull \/ BranchLInsert \/ BranchBInsert \/ LeafInsert \/ LeafB1UInsert
    BY <1>2, <1>8 DEF WalkNull, BranchLInsert, BranchBInsert, LeafInsert, Leaf1Insert, Leaf2Insert,
       LeafWideInsert, LeafBecomes, LeafFails, LeafB1UInsert, Placed, WalkFails, WalkReturn
  <1>9. CASE Immed01Grow \/ ImmedGrow \/ Immed01ToLeaf \/ ImmedToLeaf
    BY <1>2, <1>9 DEF Immed01Grow, ImmedGrow, Immed01ToLeaf, ImmedToLeaf, Placed, WalkFails, WalkReturn
  <1> QED
    BY <1>2, <1>3, <1>4, <1>5, <1>6, <1>7, <1>8, <1>9 DEF WalkAbsent

(***************************************************************************)
(* No step of j__udyInsWalk, whatever fails, leaves as much before it as   *)
(* there was: a frame goes down a level, returns to the one above, or goes *)
(* back to ContinueInsWalk, no more than once for each kind of JP.         *)
(***************************************************************************)
THEOREM WalksEnd ==
    Spec => [][Walk \/ WalkUp \/ InsDone => WalkAhead' \in Nat /\ WalkAhead' < WalkAhead]_vars
  <1>1. ASSUME TypeOK, Walk \/ WalkUp \/ InsDone
        PROVE  WalkAhead' \in Nat /\ WalkAhead' < WalkAhead
    <2>1. CASE Walk
      <3>1. pc = "walk" /\ (WalkPresent \/ WalkAbsent)
        BY <2>1 DEF Walk
      <3>2. CASE WalkPresent
        BY <1>1, <3>1, <3>2, BackAhead DEF WalkPresent, WalkReturn
      <3> QED
        BY <1>1, <3>1, <3>2, SwitchAhead
    <2>2. CASE WalkUp
      <3>1. level \in Level /\ pc = "up" /\ pc' = "up" /\ level < RootLevel /\ level' = level + 1
        BY <1>1, <2>2 DEF WalkUp, TypeOK
      <3> QED
        BY <3>1, LevelNat DEF WalkAhead
    <2>3. CASE InsDone
      <3>1. level \in Level /\ pc = "up" /\ pc' = "idle"
        BY <1>1, <2>3 DEF InsDone, TypeOK
      <3> QED
        BY <3>1, LevelNat DEF WalkAhead
    <2> QED
      BY <1>1, <2>1, <2>2, <2>3
  <1> QED
    BY <1>1, TypeCorrect, PTL DEF Spec

=============================================================================
