------------------------------- MODULE JudyTree -------------------------------
(***************************************************************************)
(* The shape of a Judy array: its parameters, the JP (jp_t) that describes *)
(* each expanse of keys, and the pure functions of the tree that the       *)
(* operations are built from (the Get walk, populations, memory words and  *)
(* the splay of a full leaf).                                              *)
(*                                                                         *)
(* A key is a function from levels to digits: key[RootLevel] is the first  *)
(* digit decoded (JU_DIGITATSTATE(Index, 8)), key[1] the last.  A slot     *)
(* <<l, p>> is the JP at level l reached by decoding the digits p above l. *)
(* A tree is a function from slots to JPs; where the code has no JP, the   *)
(* function has a NULL one.                                                *)
(***************************************************************************)
EXTENDS Integers, FiniteSets, FiniteSetsExt

CONSTANTS
    JUDYL,          \* TRUE: the JudyL build;  FALSE: the Judy1 build
    RootLevel,      \* cJU_ROOTSTATE, the number of digits of a key (8)
    Base,           \* values of a digit (256)
    Index,          \* the keys the callers use
    LEAF_MAXPOP1,   \* level -> keys of the largest linear leaf
    IMMED_MAXPOP1,  \* level -> keys of the largest immediate
    BRANCHLMAXJPS,  \* JPs in a linear branch (7)
    BRANCHL_MAX_POP,\* population above which a BranchL becomes a BranchU (1000)
    BRANCHB_MIN_POP,\* population under which a BranchB is kept (135)
    SUBEXP_B,       \* digits per subexpanse of a BranchB (64)
    GROUP8,         \* digits per counter of jbu_sums8 (8)
    OCTANT,         \* digits per byte of jp_subLeafPops (32)
    EFF_OFFSET,     \* words added before the words-per-key test (512)
    EFF_LIMIT,      \* hundredths of words per key (300 JudyL, 200 Judy1)
    LeafWords,      \* level, population -> malloc'ed words of a linear leaf
    JVWords,        \* population -> words of the value area of an immediate
    BJPWords,       \* JPs -> words of one JP subarray of a BranchB
    JBLWords, JBBWords, JBUWords, JLB1UWords, JPMWords

Level == 1..RootLevel
Digit == 0..(Base - 1)
Key == [Level -> Digit]

ASSUME SizeAssumption ==
    /\ JUDYL \in BOOLEAN
    /\ RootLevel \in Nat /\ RootLevel >= 3
    /\ Base \in Nat /\ Base >= 2
    /\ Index \subseteq Key /\ IsFiniteSet(Index)

ASSUME MaxAssumption ==
    /\ LEAF_MAXPOP1 \in [Level -> Nat]
    /\ IMMED_MAXPOP1 \in [Level -> Nat]
    /\ LEAF_MAXPOP1[RootLevel] > 1
    /\ \A l \in Level : IMMED_MAXPOP1[l] >= 1
    /\ \A l \in Level : l > 1 => IMMED_MAXPOP1[l] < LEAF_MAXPOP1[l]
    /\ JUDYL => IMMED_MAXPOP1[1] <= LEAF_MAXPOP1[1]
    /\ BRANCHLMAXJPS \in Nat /\ BRANCHL_MAX_POP \in Nat /\ BRANCHB_MIN_POP \in Nat
    /\ SUBEXP_B \in Nat \ {0} /\ GROUP8 \in Nat \ {0} /\ OCTANT \in Nat \ {0}
    /\ EFF_OFFSET \in Nat /\ EFF_LIMIT \in Nat

(***************************************************************************)
(* A leaf splays into leaves one level down that are never larger than     *)
(* allowed there: the maxima fall as keys widen.  Judy1 has no Leaf1, so   *)
(* its level 1 is a bitmap, which holds a whole expanse.                   *)
(***************************************************************************)
ASSUME SplayAssumption ==
    /\ \A l \in 3..RootLevel : LEAF_MAXPOP1[l] <= LEAF_MAXPOP1[l - 1]
    /\ LEAF_MAXPOP1[2] < Base

ASSUME WordsAssumption ==
    /\ LeafWords \in [Level -> [1..Base -> Nat]]
    /\ JVWords \in [1..Base -> Nat]
    /\ BJPWords \in [1..Base -> Nat]
    /\ \A w \in {JBLWords, JBBWords, JBUWords, JLB1UWords, JPMWords} : w \in Nat
    /\ \A l \in Level : LEAF_MAXPOP1[l] <= Base /\ IMMED_MAXPOP1[l] < Base

LEAF8_MAXPOP1 == LEAF_MAXPOP1[RootLevel]

\* Key order, first digit first.
Less(a, b) ==
    \E l \in Level : a[l] < b[l] /\ \A m \in (l + 1)..RootLevel : a[m] = b[m]

Rank(k, K) == Cardinality({j \in K : Less(j, k)})

-----------------------------------------------------------------------------
(* Slots *)

Slots == UNION {{l} \X [(l + 1)..RootLevel -> Digit] : l \in Level}

\* The JP of level l on the path of key k.
Slot(k, l) == <<l, [m \in (l + 1)..RootLevel |-> k[m]]>>

\* The JP inside a JPM (jpm_JP), or the pseudo JP over a root-level leaf.
RootSlot == <<RootLevel, [m \in (RootLevel + 1)..RootLevel |-> 0]>>

\* The JP for digit d under the branch at s.
Child(s, d) ==
    <<s[1] - 1, [m \in s[1]..RootLevel |-> IF m = s[1] THEN d ELSE s[2][m]]>>

-----------------------------------------------------------------------------
(* JPs *)

Branch == {"BRANCH_L", "BRANCH_B", "BRANCH_U"}
JPType == {"NULL", "IMMED", "LEAF", "LEAF_B1U", "FULLPOPU1"} \cup Branch

(***************************************************************************)
(*   keys  what an immediate, leaf or bitmap holds, whole keys             *)
(*   exp   the digits with a JP, in a BranchL or BranchB                   *)
(*   pop   Pop0 in jp_DcdPop0 for a branch, jp_LeafPop1 (one byte) for a   *)
(*         LeafB1U; the arrays of the other leaves have no other length    *)
(*         than jp_LeafPop1 or the type says, so keys stands for it        *)
(*   sums  jbu_sums8 for a BranchU, jp_subLeafPops for a Leaf1 or Leaf2    *)
(***************************************************************************)
JP == [type : JPType, keys : SUBSET Index, exp : SUBSET Digit,
       pop : Nat, sums : [Digit -> Nat]]

NoSums == [g \in Digit |-> 0]

NullJP == [type |-> "NULL", keys |-> {}, exp |-> {}, pop |-> 0, sums |-> NoSums]

ImmedJP(K) == [NullJP EXCEPT !.type = "IMMED", !.keys = K]

\* The keys of K in each of the eight octants of a Leaf1 or Leaf2.
Octants(l, K) ==
    [o \in Digit |-> Cardinality({k \in K : k[l] \div OCTANT = o})]

LeafJP(l, K) ==
    [NullJP EXCEPT !.type = "LEAF", !.keys = K,
                   !.sums = IF l \in {1, 2} THEN Octants(l, K) ELSE NoSums]

LeafB1UJP(K) ==
    [NullJP EXCEPT !.type = "LEAF_B1U", !.keys = K, !.pop = Cardinality(K) % Base]

FullPopJP(K) == [NullJP EXCEPT !.type = "FULLPOPU1", !.keys = K]

\* A branch over the digits D: linear while it can be.
BranchJP(D, p) ==
    [NullJP EXCEPT !.type = IF Cardinality(D) <= BRANCHLMAXJPS
                            THEN "BRANCH_L" ELSE "BRANCH_B",
                   !.exp = D, !.pop = p]

Bump(f, g) == [f EXCEPT ![g] = @ + 1]

\* The counters of f before n, added up.
SumBefore(f, n) == SumFunctionOnSet(f, 0..(n - 1))

-----------------------------------------------------------------------------
(* The walk down the tree *)

\* A linear branch lists the digits it has a JP for,
EntersL(J, d) == J.type = "BRANCH_L" /\ d \in J.exp

\* a bitmap branch has a bit for each,
EntersB(J, d) == J.type = "BRANCH_B" /\ d \in J.exp

\* and an uncompressed branch has a JP for every digit, if only a NULL one.
EntersU(J) == J.type = "BRANCH_U"

Enters(J, d) == EntersL(J, d) \/ EntersB(J, d) \/ EntersU(J)

\* The walk from the root comes to the JP of level l on the path of k.
Reaches(t, k, l) == \A m \in (l + 1)..RootLevel : Enters(t[Slot(k, m)], k[m])

\* k is among the keys of a JP that a walk reaches: the content of the tree.
Get(t, k) == \E l \in Level : Reaches(t, k, l) /\ k \in t[Slot(k, l)].keys

\* The keys that Get finds under slot s.
Below(t, s) == {k \in Index : Slot(k, s[1]) = s /\ Get(t, k)}

\* The slots a walk over the whole tree visits.
Reachable(t) ==
    {s \in Slots : \A m \in (s[1] + 1)..RootLevel :
        Enters(t[<<m, [j \in (m + 1)..RootLevel |-> s[2][j]]>>], s[2][m])}

-----------------------------------------------------------------------------
(* Populations *)

\* j__udyJPPop1: a full LeafB1U of JudyL has wrapped its byte to 0.
JPPop1(J) ==
    CASE J.type \in Branch -> J.pop + 1
      [] J.type = "LEAF_B1U" -> IF JUDYL /\ J.pop = 0 THEN Base ELSE J.pop
      [] J.type = "FULLPOPU1" -> Base
      [] OTHER -> Cardinality(J.keys)

\* Faulty: counts the JPs of a group instead of their keys.
Sums8OfJPs(t, s, D) ==
    [g \in Digit |-> Cardinality({d \in D : d \div GROUP8 = g})]

(***************************************************************************)
(* jbu_sums8 of a BranchU built from the JPs of the digits D under s: the  *)
(* sum of their populations is the size of a disjoint union.               *)
(***************************************************************************)
Sums8(t, s, D) ==
    [g \in Digit |->
        Cardinality(UNION {{d} \X (1..JPPop1(t[Child(s, d)])) :
                             d \in {e \in D : e \div GROUP8 = g}})]

-----------------------------------------------------------------------------
(* Memory words *)

\* The JP subarrays of a BranchB over the digits D.
SubExp(D, d) == {e \in D : e \div SUBEXP_B = d \div SUBEXP_B}

BJPArrays(D) ==
    SumFunction([E \in {SubExp(D, d) : d \in D} |-> BJPWords[Cardinality(E)]])

BranchWords(J) ==
    CASE J.type = "BRANCH_L" -> JBLWords
      [] J.type = "BRANCH_B" -> JBBWords + BJPArrays(J.exp)
      [] OTHER -> JBUWords

ImmedWords(n) == IF JUDYL /\ n > 1 THEN JVWords[n] ELSE 0

\* What the JP of level l points to.
Words(l, J) ==
    CASE J.type = "IMMED" -> ImmedWords(Cardinality(J.keys))
      [] J.type = "LEAF" -> LeafWords[l][Cardinality(J.keys)]
      [] J.type = "LEAF_B1U" -> JLB1UWords
      [] J.type \in Branch -> BranchWords(J)
      [] OTHER -> 0

TreeWords(t) == SumFunction([s \in Reachable(t) |-> Words(s[1], t[s])])

\* The population j__udyFreeSM counts while it frees the tree.
FreedPop1(t) ==
    SumFunction([s \in {r \in Reachable(t) : t[r].type \notin Branch} |-> JPPop1(t[s])])

\* The size tables end in 0 past the maximum, so a full leaf never grows in place.
LeafGrowInPlace(l, n) ==
    n < LEAF_MAXPOP1[l] /\ LeafWords[l][n] = LeafWords[l][n + 1]

JVGrowInPlace(n) == JVWords[n] = JVWords[n + 1]

BJPGrowInPlace(n) == n > 0 /\ BJPWords[n] = BJPWords[n + 1]

-----------------------------------------------------------------------------
(* Splay *)

\* Faulty: an immediate of several keys is built with the first alone.
SplayJPFirst(l, K) ==
    IF Cardinality(K) <= IMMED_MAXPOP1[l] THEN ImmedJP({CHOOSE k \in K : TRUE})
    ELSE LeafJP(l, K)

\* Cascade2: an immediate, a Leaf1 in JudyL, or a bitmap.
SplayJP1(K) ==
    CASE Cardinality(K) <= IMMED_MAXPOP1[1] -> ImmedJP(K)
      [] Cardinality(K) > IMMED_MAXPOP1[1]
         /\ JUDYL /\ Cardinality(K) <= LEAF_MAXPOP1[1] -> LeafJP(1, K)
      [] OTHER -> LeafB1UJP(K)

\* Cascade3: an immediate, or a Leaf2 with its octants.
SplayJP2(K) == IF Cardinality(K) <= IMMED_MAXPOP1[2] THEN ImmedJP(K) ELSE LeafJP(2, K)

\* Cascade4 and above: an immediate or a leaf.
SplayJPWide(l, K) ==
    IF Cardinality(K) <= IMMED_MAXPOP1[l] THEN ImmedJP(K) ELSE LeafJP(l, K)

\* The JP built for the keys K that share a digit of a leaf at level l + 1.
SplayJP(l, K) ==
    CASE l = 1 -> SplayJP1(K)
      [] l = 2 -> SplayJP2(K)
      [] OTHER -> SplayJPWide(l, K)

\* The keys of K under slot s.
Share(K, s) == {k \in K : Slot(k, s[1]) = s}

\* Cascade: the leaf at s becomes a branch over the splayed parts of it.
Splay(t, s) ==
    LET K == t[s].keys
        D == {k[s[1]] : k \in K}
    IN  [u \in Slots |->
            IF u = s THEN BranchJP(D, LEAF_MAXPOP1[s[1]] - 1)
            ELSE IF u[1] = s[1] - 1 /\ Share(K, u) # {}
                 THEN SplayJP(u[1], Share(K, u))
            ELSE t[u]]

\* The words the parts of the leaf at s take, those of the digits D only.
PartWords(t, s, D) ==
    SumFunction([d \in D |->
        Words(s[1] - 1, SplayJP(s[1] - 1, {k \in t[s].keys : k[s[1]] = d}))])

SplayWords(t, s) ==
    LET D == {k[s[1]] : k \in t[s].keys}
    IN  PartWords(t, s, D) + BranchWords(BranchJP(D, 0))

=============================================================================
