--------------------------- MODULE JudyNeighbours ---------------------------
(***************************************************************************)
(* JudyLNext, JudyLPrev, JudyLFirst and JudyLLast (and those of Judy1):    *)
(* the nearest key above or below.  One source, compiled once for each     *)
(* direction; up tells which.  Three state machines: get down to the key   *)
(* (SM1), back up the history of branches for another way (SM2), and down  *)
(* to the limit of the expanse found there (SM3).                          *)
(*                                                                         *)
(* The history the code pushes is the path of the key sought, so SM2 needs *)
(* the key and a level only.  A search answers the set of the key found,   *)
(* or the empty set.                                                       *)
(***************************************************************************)
EXTENDS JudyGet

CONSTANT SUBEXP_L       \* digits in a subexpanse of a LeafB1U's bitmap (64)

ASSUME SubExpAssumption == SUBEXP_L \in Nat \ {0}

\* b is farther in the direction of the search than a.
Beyond(up, a, b) == IF up THEN Less(a, b) ELSE Less(b, a)

\* The last key in the direction of the search, cJU_ALLONES or 0.
Limit(up) == [l \in Level |-> IF up THEN Base - 1 ELSE 0]

\* Index++ or Index--, digit by digit.
Step(up, k) ==
    [l \in Level |->
        IF \A m \in 1..(l - 1) : k[m] = Limit(up)[m]
        THEN (k[l] + (IF up THEN 1 ELSE Base - 1)) % Base
        ELSE k[l]]

\* The digits under which the branch at s has keys.
Occupied(t, s) ==
    IF t[s].type = "BRANCH_U" THEN {d \in Digit : t[Child(s, d)].type # "NULL"}
    ELSE t[s].exp

Ahead(up, D, d) == {e \in D : IF up THEN e > d ELSE e < d}

Nearest(up, D) == IF up THEN Min(D) ELSE Max(D)

NearestKey(up, K) == CHOOSE k \in K : \A j \in K \ {k} : Beyond(up, k, j)

\* Faulty: never looks past the subexpanse of d.
NearestBitOwn(up, D, d, n) ==
    LET own == {e \in Ahead(up, D, d) : e \div n = d \div n}
    IN  IF own = {} THEN {} ELSE {Nearest(up, own)}

(***************************************************************************)
(* SEARCHBITMAPB, SEARCHBITMAPL: the nearest bit of the bitmap D beyond d, *)
(* in subexpanses of n bits: first in the one of d, then in the nearest    *)
(* that is not empty.  The empty set if there is none.                     *)
(***************************************************************************)
NearestBit(up, D, d, n) ==
    LET own == {e \in Ahead(up, D, d) : e \div n = d \div n}
        subs == Ahead(up, {e \div n : e \in D}, d \div n)
        inSub(x) == {e \in D : e \div n = x}
    IN  CASE own # {} -> {Nearest(up, own)}
          [] own = {} /\ subs # {} -> {Nearest(up, inSub(Nearest(up, subs)))}
          [] OTHER -> {}

\* The first bit of the bitmap D: that of its first subexpanse not empty.
FirstBit(up, D, n) ==
    Nearest(up, {e \in D : e \div n = Nearest(up, {d \div n : d \in D})})

-----------------------------------------------------------------------------
(* SM3Findlimit: a slot to go on with, or the first key in a leaf *)

SM3BranchL(up, t, s) == Child(s, Nearest(up, t[s].exp))
SM3BranchB(up, t, s) == Child(s, FirstBit(up, t[s].exp, SUBEXP_B))
SM3BranchU(up, t, s) == Child(s, Nearest(up, Occupied(t, s)))

\* The keys of a leaf are kept in order,
SM3Leaf(up, K) == NearestKey(up, K)

\* and so are those of an immediate, which may be just one.
SM3Immed(up, K) == IF Cardinality(K) = 1 THEN CHOOSE k \in K : TRUE ELSE NearestKey(up, K)

\* A digit is found in the bitmap, and put into the Index.
SM3LeafB1U(up, K) ==
    LET d == FirstBit(up, {k[1] : k \in K}, SUBEXP_L)
    IN  CHOOSE k \in K : k[1] = d

\* cJ1_JPFULLPOPU1 has no keys: the first digit there is, under s.
SM3FullPop(up, s) == [m \in Level |-> IF m = 1 THEN Limit(~up)[1] ELSE s[2][m]]

\* The first key, in the direction of the search, under slot s.
FindLimit(up, t, s) ==
    LET SM3[u \in Slots] ==
            CASE t[u].type = "BRANCH_L" -> SM3[SM3BranchL(up, t, u)]
              [] t[u].type = "BRANCH_B" -> SM3[SM3BranchB(up, t, u)]
              [] t[u].type = "BRANCH_U" -> SM3[SM3BranchU(up, t, u)]
              [] t[u].type = "LEAF_B1U" -> SM3LeafB1U(up, t[u].keys)
              [] t[u].type = "FULLPOPU1" -> SM3FullPop(up, u)
              [] t[u].type = "LEAF" -> SM3Leaf(up, t[u].keys)
              [] OTHER -> SM3Immed(up, t[u].keys)
    IN  SM3[s]

-----------------------------------------------------------------------------
(* SM2Backtrack: the digit of another way out of the branch, if any *)

SM2BranchL(up, t, s, d) ==
    LET D == Ahead(up, t[s].exp, d) IN IF D = {} THEN {} ELSE {Nearest(up, D)}

SM2BranchB(up, t, s, d) == NearestBit(up, t[s].exp, d, SUBEXP_B)

SM2BranchU(up, t, s, d) ==
    LET D == Ahead(up, Occupied(t, s), d) IN IF D = {} THEN {} ELSE {Nearest(up, D)}

Way(up, t, s, d) ==
    CASE t[s].type = "BRANCH_L" -> SM2BranchL(up, t, s, d)
      [] t[s].type = "BRANCH_B" -> SM2BranchB(up, t, s, d)
      [] t[s].type = "BRANCH_U" -> SM2BranchU(up, t, s, d)

\* Faulty: gives up when the branch one level up has no other way.
BacktrackOnce(up, t, k, l) ==
    LET s == Slot(k, l)
    IN  IF l > RootLevel THEN {}
        ELSE {FindLimit(up, t, Child(s, d)) : d \in Way(up, t, s, k[l])}

(***************************************************************************)
(* The branches of the history from level l up, until one has a way beyond *)
(* the digit of k.  With no history left there is no key.                  *)
(***************************************************************************)
Backtrack(up, t, k, l) ==
    LET SM2[m \in l..(RootLevel + 1)] ==
            IF m > RootLevel THEN {}
            ELSE LET s == Slot(k, m)
                     D == Way(up, t, s, k[m])
                 IN  IF D = {} THEN SM2[m + 1]
                     ELSE {FindLimit(up, t, Child(s, d)) : d \in D}
    IN  SM2[l]

-----------------------------------------------------------------------------
(* SM1Get: how a case of it ends *)

On(k) == [to |-> "SM1Get", at |-> k]
Back(l) == [to |-> "SM2Backtrack", at |-> l]
Limits(s) == [to |-> "SM3Findlimit", at |-> s]
Is(k) == [to |-> "found", at |-> k]

(***************************************************************************)
(* The branch at level l has the digit of k, or another beyond it; or the  *)
(* search goes back one level up, not to this branch.                      *)
(***************************************************************************)
SM1BranchL(up, t, k, l) ==
    LET D == t[Slot(k, l)].exp
        E == Ahead(up, D, k[l])
    IN  CASE k[l] \in D -> On(k)
          [] k[l] \notin D /\ E # {} -> Limits(Child(Slot(k, l), Nearest(up, E)))
          [] OTHER -> Back(l + 1)

SM1BranchB(up, t, k, l) ==
    LET D == t[Slot(k, l)].exp
        E == NearestBit(up, D, k[l], SUBEXP_B)
    IN  CASE k[l] \in D -> On(k)
          [] k[l] \notin D /\ E # {} -> Limits(Child(Slot(k, l), Nearest(up, E)))
          [] OTHER -> Back(l + 1)

SM1BranchU(up, t, k, l) ==
    LET s == Slot(k, l)
        E == {d \in Ahead(up, Digit, k[l]) : t[Child(s, d)].type # "NULL"}
    IN  CASE t[Child(s, k[l])].type # "NULL" -> On(k)
          [] t[Child(s, k[l])].type = "NULL" /\ E # {} -> Limits(Child(s, Nearest(up, E)))
          [] OTHER -> Back(l + 1)

\* The digits of the nearest key beyond the place of k are copied into the Index.
SM1Beyond(up, K, k) == Is(NearestKey(up, {j \in K : Beyond(up, k, j)}))

\* SM1LeafLImm: k is there, or the place n it would have has a key beyond it.
SM1LeafLImm(up, K, k, l, n) ==
    CASE k \in K -> Is(k)
      [] k \notin K /\ (IF up THEN n < Cardinality(K) ELSE n > 0) -> SM1Beyond(up, K, k)
      [] OTHER -> Back(l + 1)

\* The search of a leaf gives the place of k,
SM1Leaf(up, K, k, l) == SM1LeafLImm(up, K, k, l, Rank(k, K))

\* that of an immediate too, and a single key makes it 0 or 1.
SM1Immed(up, K, k, l) ==
    SM1LeafLImm(up, K, k, l,
                IF Cardinality(K) = 1 THEN (IF \E j \in K : Less(j, k) THEN 1 ELSE 0)
                ELSE Rank(k, K))

SM1LeafB1U(up, K, k) ==
    LET D == {j[1] : j \in K}
        E == NearestBit(up, D, k[1], SUBEXP_L)
    IN  CASE k[1] \in D -> Is(k)
          [] k[1] \notin D /\ E # {} -> Is([k EXCEPT ![1] = Nearest(up, E)])
          [] OTHER -> Back(2)

SM1At(up, t, k, l) ==
    LET J == t[Slot(k, l)]
    IN  CASE J.type = "BRANCH_L" -> SM1BranchL(up, t, k, l)
          [] J.type = "BRANCH_B" -> SM1BranchB(up, t, k, l)
          [] J.type = "BRANCH_U" -> SM1BranchU(up, t, k, l)
          [] J.type = "LEAF_B1U" -> SM1LeafB1U(up, J.keys, k)
          [] J.type = "FULLPOPU1" -> Is(k)
          [] J.type = "LEAF" -> SM1Leaf(up, J.keys, k, l)
          [] OTHER -> SM1Immed(up, J.keys, k, l)

\* In a LEAF8 there is no history: without a key beyond the place there is none.
Leaf8Search(up, K, k) ==
    IF k \in K THEN {k}
    ELSE LET B == {j \in K : Beyond(up, k, j)}
         IN  IF B = {} THEN {} ELSE {NearestKey(up, B)}

\* The search for k, or for the nearest key beyond it.
Search(up, t, k) ==
    LET SM1[l \in Level] ==
            LET o == SM1At(up, t, k, l)
            IN  CASE o.to = "SM1Get" -> SM1[l - 1]
                  [] o.to = "SM2Backtrack" -> Backtrack(up, t, k, o.at)
                  [] o.to = "SM3Findlimit" -> {FindLimit(up, t, o.at)}
                  [] o.to = "found" -> {o.at}
    IN  IF t[RootSlot].type = "LEAF" THEN Leaf8Search(up, t[RootSlot].keys, k)
        ELSE SM1[RootLevel]

\* JudyLNext (up) and JudyLPrev.
Neighbour(up, t, k) == IF k = Limit(up) THEN {} ELSE Search(up, t, Step(up, k))

\* JudyLFirst (up) and JudyLLast.
FirstFrom(up, t, k) == IF JudyLGet(t, k) THEN {k} ELSE Neighbour(up, t, k)

=============================================================================
