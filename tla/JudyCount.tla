------------------------------ MODULE JudyCount ------------------------------
(***************************************************************************)
(* JudyLCount and JudyLByCount (and those of Judy1): how many keys lie     *)
(* between two keys, and which key is the n-th.  Both walk one path and    *)
(* take the populations beside it from the JPs, Count from jbu_sums8 too.  *)
(***************************************************************************)
EXTENDS JudyNeighbours

CONSTANTS
    JPS_PER_LINE,   \* JPs in a cache line (4)
    STORED          \* level -> digits of a key stored at that level (1, 2, 4, 4, 8...)

ASSUME CountAssumption ==
    /\ JPS_PER_LINE \in Nat \ {0}
    /\ STORED \in [Level -> Level] /\ \A l \in Level : STORED[l] >= l

\* The populations in the JPs of the digits D under s.
Pops(t, s, D) == SumFunction([d \in D |-> JPPop1(t[Child(s, d)])])

-----------------------------------------------------------------------------
(* JudyLCount *)

CacheLines(n) == (n + JPS_PER_LINE - 1) \div JPS_PER_LINE

(***************************************************************************)
(* The JPs of a BranchB below the line with the JP of digit d fill fewer   *)
(* cache lines than those above it: count the ones below.                  *)
(***************************************************************************)
CountsUpward(D, d) ==
    LET E == SubExp(D, d)
        own == CacheLines(Cardinality({e \in E : e <= d}))
        lines(F) == SumFunction([G \in {SubExp(F, e) : e \in F} |-> CacheLines(Cardinality(G))])
        below == lines({e \in D \ E : e < d}) + own - 1
        above == lines({e \in D \ E : e > d}) + CacheLines(Cardinality(E)) - own
    IN  below < above

\* The keys under the digits of the branch at s above d, a BranchB's...
AboveInB(t, s, d) ==
    LET D == t[s].exp
    IN  IF CountsUpward(D, d)
        THEN t[s].pop + 1 - Pops(t, s, {e \in D : e <= d})
        ELSE Pops(t, s, {e \in D : e > d})

\* Faulty: takes the sum of the digit's own group off as well.
AboveInUGroup(t, s, d) ==
    LET g == d \div GROUP8
    IN  t[s].pop + 1 - SumBefore(t[s].sums, g + 1) - Pops(t, s, (g * GROUP8)..d)

\* ... and a BranchU's: the groups below that of d, then its JPs up to d.
AboveInU(t, s, d) ==
    LET g == d \div GROUP8
    IN  t[s].pop + 1 - SumBefore(t[s].sums, g) - Pops(t, s, (g * GROUP8)..d)

(* Where the walk ends: the keys from k on, as each kind of JP tells them. *)

\* A leaf: its population, less the place where the search comes on k.
LeafFrom(J, k) == JPPop1(J) - Rank(k, J.keys)

\* A bitmap: its population, less the bits below that of k, one word after another.
LeafB1UFrom(J, k) ==
    LET word(e) == {j \in J.keys : j[1] \div SUBEXP_L = e}
        own == k[1] \div SUBEXP_L
    IN  JPPop1(J) - Rank(k, word(own))
                  - SumFunction([e \in 0..(own - 1) |-> Cardinality(word(e))])

\* A full expanse: the digits from that of k on.
FullPopFrom(k) == Base - k[1]

\* An immediate: one of one key is k.
ImmedFrom(J, k) == IF Cardinality(J.keys) = 1 THEN 1 ELSE JPPop1(J) - Rank(k, J.keys)

\* j__udy1LCountSM: the keys of the array from k on; k is one of them.
CountSM(t, k) ==
    LET SM[l \in Level] ==
            LET s == Slot(k, l)
                J == t[s]
            IN  CASE J.type = "BRANCH_L" ->
                        Pops(t, s, {e \in J.exp : e > k[l]}) + SM[l - 1]
                  [] J.type = "BRANCH_B" -> AboveInB(t, s, k[l]) + SM[l - 1]
                  [] J.type = "BRANCH_U" -> AboveInU(t, s, k[l]) + SM[l - 1]
                  [] J.type = "LEAF" -> LeafFrom(J, k)
                  [] J.type = "LEAF_B1U" -> LeafB1UFrom(J, k)
                  [] J.type = "FULLPOPU1" -> FullPopFrom(k)
                  [] J.type = "IMMED" -> ImmedFrom(J, k)
                  [] OTHER -> 0
    IN  SM[RootLevel]

(***************************************************************************)
(* JudyLCount of an array of n keys: the keys from the lower end on, less  *)
(* those past the upper.  CountSM is only asked of keys that are there.    *)
(***************************************************************************)
Count(t, n, a, b) ==
    LET lo == IF Less(b, a) THEN b ELSE a
        hi == IF Less(b, a) THEN a ELSE b
        first == FirstFrom(TRUE, t, lo)
        past == IF hi = Limit(TRUE) THEN {} ELSE FirstFrom(TRUE, t, Step(TRUE, hi))
        above(K) == CountSM(t, CHOOSE k \in K : TRUE)
        above1 == IF lo = Limit(FALSE) THEN n ELSE above(first)
    IN  CASE n = 0 -> 0
          [] n # 0 /\ lo = hi -> IF JudyLGet(t, lo) THEN 1 ELSE 0
          [] n # 0 /\ lo # hi /\ lo # Limit(FALSE) /\ first = {} -> 0
          [] OTHER -> IF past = {} THEN above1 ELSE above1 - above(past)

-----------------------------------------------------------------------------
(* JudyLByCount *)

\* Faulty: takes the expanse that ends just before the key.
ExpansesEarly(t, s, lower, count0) ==
    LET D == Occupied(t, s)
    IN  {d \in D : lower + Pops(t, s, {e \in D : e <= d}) >= count0}

\* The digits of the branch at s with more than count0 keys up to their end.
Expanses(t, s, lower, count0) ==
    LET D == Occupied(t, s)
    IN  {d \in D : lower + Pops(t, s, {e \in D : e <= d}) > count0}

(***************************************************************************)
(* SMByCount: down to the leaf, or other end of the walk, with the key     *)
(* that has count0 keys below it; lower of them are below the whole JP.  A *)
(* walk that has ended stays where it is on the levels below.              *)
(* The NOSMART* flags of the build leave the code one direction, upward.   *)
(***************************************************************************)
ByCountEnd(t, count0) ==
    LET SM[l \in Level] ==
            IF l = RootLevel THEN [slot |-> RootSlot, lower |-> 0]
            ELSE LET s == SM[l + 1].slot
                     lower == SM[l + 1].lower
                     d == Min(Expanses(t, s, lower, count0))
                     below == {e \in Occupied(t, s) : e < d}
                 IN  IF t[s].type \in Branch
                     THEN [slot |-> Child(s, d), lower |-> lower + Pops(t, s, below)]
                     ELSE SM[l + 1]
    IN  [slot |-> SM[1].slot, offset |-> count0 - SM[1].lower]

\* The key at this place of the keys K: none past their end.
KeyAt(K, offset) == {k \in K : Rank(k, K) = offset}

(***************************************************************************)
(* The key at this place of a bitmap: upward over its words to the first   *)
(* with more bits than are left to pass, then the bit at what is left.     *)
(***************************************************************************)
KeyAtInB1U(K, offset) ==
    LET word(e) == {k \in K : k[1] \div SUBEXP_L = e}
        upTo(e) == Cardinality(UNION {word(f) : f \in 0..e})
        sub == {e \in {d \div SUBEXP_L : d \in Digit} : upTo(e) > offset}
            own == word(Min(sub))
    IN  IF sub = {} THEN {}
        ELSE KeyAt(own, offset - (upTo(Min(sub)) - Cardinality(own)))

\* The key whose value area, or bit, ByCount comes to.
ByCountKey(t, count0) ==
    LET end == ByCountEnd(t, count0)
        J == t[end.slot]
    IN  IF J.type = "LEAF_B1U" THEN KeyAtInB1U(J.keys, end.offset)
        ELSE KeyAt(J.keys, end.offset)

(***************************************************************************)
(* What ByCount leaves in the caller's Index, which held given: on the way *)
(* down the digits of the branches; in the end JU_MERGE_DCD_KEY merges the *)
(* key of the leaf into it, which takes the digits ABOVE l from that key,  *)
(* zero where the leaf stores none, and keeps the low l digits as given.   *)
(* A LEAF8 and an immediate of one key write what they should.  (For two   *)
(* keys of 5 to 7 bytes in a Judy1 immediate the code shifts by more than  *)
(* a word, which C leaves undefined: no such level is instantiated.)       *)
(***************************************************************************)
ByCountIndex(t, count0, given) ==
    LET s == ByCountEnd(t, count0).slot
        J == t[s]
        immed == J.type = "IMMED"
        low == IF immed /\ s[1] = 2 THEN 1 ELSE s[1]
        whole == s[1] = RootLevel \/ (immed /\ Cardinality(J.keys) = 1)
        merged(k) == [m \in Level |-> IF m <= low THEN given[m]
                                      ELSE IF m <= STORED[s[1]] THEN k[m] ELSE 0]
    IN  {IF whole THEN k ELSE merged(k) : k \in ByCountKey(t, count0)}

=============================================================================
