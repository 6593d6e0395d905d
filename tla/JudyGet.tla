------------------------------- MODULE JudyGet -------------------------------
(***************************************************************************)
(* The two compilations of JudyGet.c.  JudyLGet/Judy1Test, what callers    *)
(* get, is also the test JudyLIns makes before it inserts: it finds the    *)
(* part of a Leaf1 or Leaf2 to search by adding up the octants of          *)
(* jp_subLeafPops.  j__udyLGet/j__udy1Test, the test JudyLDel makes,       *)
(* searches leaves whole.                                                  *)
(***************************************************************************)
EXTENDS JudyTree

CONSTANT KEYS_PER_WORD      \* keys in a word of a Leaf2 (4)

ASSUME WordAssumption == KEYS_PER_WORD \in Nat \ {0}

-----------------------------------------------------------------------------
(* JudyLGet, a case of its switch each *)

\* Faulty: counts the octant of the key among those before it.
SubLeafStartsPast(J, l, k) == SumBefore(J.sums, (k[l] \div OCTANT) + 1)

\* Where the keys of the octant of k start in the leaf.
SubLeafStart(J, l, k) == SumBefore(J.sums, k[l] \div OCTANT)

\* The search of places P of the leaf comes on k.
At(J, k, P) == k \in J.keys /\ Rank(k, J.keys) \in P

\* A Leaf1 is searched in the octant alone (an octant of no keys has no place).
InLeaf1(J, k) ==
    LET start == SubLeafStart(J, 1, k)
    IN  J.type = "LEAF" /\ At(J, k, start..(start + J.sums[k[1] \div OCTANT] - 1))

(***************************************************************************)
(* In a Leaf2 the search reads whole words, so it sees the neighbours of   *)
(* its octant that share a word with it; a single key is compared alone.   *)
(***************************************************************************)
InLeaf2(J, k) ==
    LET start == SubLeafStart(J, 2, k)
        pop == J.sums[k[2] \div OCTANT]
        down(r) == (r \div KEYS_PER_WORD) * KEYS_PER_WORD
    IN  /\ J.type = "LEAF"
        /\ At(J, k, IF pop > 1
                    THEN down(start)..(down(start + pop - 1) + KEYS_PER_WORD - 1)
                    ELSE start..(start + pop - 1))

InLeaf3To7(J, k) == J.type = "LEAF" /\ k \in J.keys
InLeaf8(J, k) == J.type = "LEAF" /\ k \in J.keys
InLeafB1U(J, k) == J.type = "LEAF_B1U" /\ k \in J.keys
InFullPop(J, k) == J.type = "FULLPOPU1" /\ k \in J.keys
InImmed01(J, k) == J.type = "IMMED" /\ J.keys = {k}
InImmed(J, k) == J.type = "IMMED" /\ Cardinality(J.keys) > 1 /\ k \in J.keys

(***************************************************************************)
(* The way down is that of JudyTree once more in this compilation: a       *)
(* search in jbl_Expanse, a bit and the count of those before it, or the   *)
(* JP at the digit.                                                        *)
(***************************************************************************)
DownL(J, d) == J.type = "BRANCH_L" /\ d \in J.exp
DownB(J, d) == J.type = "BRANCH_B" /\ d \in SubExp(J.exp, d)
DownU(J) == J.type = "BRANCH_U"

WalksTo(t, k, l) ==
    \A m \in (l + 1)..RootLevel :
        LET J == t[Slot(k, m)]
        IN  DownL(J, k[m]) \/ DownB(J, k[m]) \/ DownU(J)

JudyLGet(t, k) ==
    \E l \in Level :
        LET J == t[Slot(k, l)]
        IN  /\ WalksTo(t, k, l)
            /\ \/ l = 1 /\ (InLeaf1(J, k) \/ InLeafB1U(J, k) \/ InFullPop(J, k))
               \/ l = 2 /\ InLeaf2(J, k)
               \/ l \in 3..(RootLevel - 1) /\ InLeaf3To7(J, k)
               \/ l = RootLevel /\ InLeaf8(J, k)
               \/ InImmed01(J, k)
               \/ InImmed(J, k)

-----------------------------------------------------------------------------
(* j__udyLGet *)

WholeLeaf(J, k) == J.type = "LEAF" /\ k \in J.keys

(***************************************************************************)
(* When the bit is not set the case does not end: Judy1 runs on into the   *)
(* next one, JPFULLPOPU1, and answers that the key is there; JudyL into    *)
(* the one for an immediate of one key, whose test the JP does not pass.   *)
(***************************************************************************)
RunsOn(J, k) == J.type = "LEAF_B1U" /\ (k \in J.keys \/ ~JUDYL)

WholeFullPop(J, k) == J.type = "FULLPOPU1" /\ k \in J.keys
WholeImmed(J, k) == J.type = "IMMED" /\ k \in J.keys

j__udyLGet(t, k) ==
    \E l \in Level :
        LET J == t[Slot(k, l)]
        IN  /\ Reaches(t, k, l)
            /\ \/ WholeLeaf(J, k)
               \/ RunsOn(J, k)
               \/ WholeFullPop(J, k)
               \/ WholeImmed(J, k)

=============================================================================
