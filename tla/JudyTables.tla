----------------------------- MODULE JudyTables -----------------------------
(***************************************************************************)
(* The program that writes the size tables of a build, JudyTables.c: for   *)
(* each kind of leaf the words malloc'ed for n keys, a size malloc serves  *)
(* well, and the place of the value area among them.  A leaf whose words   *)
(* stay the same grows in place, its values where they are.  Nothing is    *)
(* scaled down: these are the tables of the library.                       *)
(***************************************************************************)
EXTENDS Integers, Sequences

CONSTANT Tables     \* the calls of GenTable: its arguments

TERMINATOR == 999
BPW == 8

VARIABLES
    table,          \* the arguments of GenTable
    pc,             \* "sizes", "groups": its two loops; "exit", "done"
    Index,          \* keys, up in the first loop and down in the second
    PAllocSizes,    \* place in AllocSizes
    Words,          \* keys -> words malloc'ed
    Offset,         \* keys -> first word of the value area
    LastWords       \* value area of the group the second loop is in

vars == <<table, pc, Index, PAllocSizes, Words, Offset, LastWords>>

-----------------------------------------------------------------------------
(* Sizes *)

\* Faulty: a last word that is not full is not counted.
ROUNDDOWN(bytes, offsetWords) == (bytes \div BPW) + offsetWords

ROUNDUP(bytes, offsetWords) == ((bytes + BPW - 1) \div BPW) + offsetWords

\* The words of n keys with their values, and of the keys alone.
OWord(T, n) == ROUNDUP((T.IndexBytes + T.ValueBytes) * n, T.OffsetWords)
IWord(T, n) == ROUNDUP(T.IndexBytes * n, T.OffsetWords)

\* From place a on, the first size for w words.
IsFit(T, a, b, w) ==
    /\ b \in a..Len(T.AllocSizes) /\ T.AllocSizes[b] >= w
    /\ \A c \in a..(b - 1) : T.AllocSizes[c] < w

\* BPW is 8 and values are words; the last size is no size.
ASSUME TablesAssumption ==
    \A T \in Tables :
        /\ T.IndexBytes \in Nat \ {0} /\ T.LeafSize \in Nat \ {0}
        /\ T.ValueBytes \in {0, BPW} /\ T.OffsetWords \in {0, 1}
        /\ T.AllocSizes \in Seq(Nat) /\ Len(T.AllocSizes) > 0
        /\ T.AllocSizes[Len(T.AllocSizes)] = TERMINATOR

\* There is a size for all but the largest leaf, and that one is no TERMINATOR.
ASSUME SizesAssumption ==
    \A T \in Tables :
        /\ OWord(T, T.LeafSize) < TERMINATOR
        /\ \E b \in 1..(Len(T.AllocSizes) - 1) : T.AllocSizes[b] >= OWord(T, T.LeafSize - 1)

-----------------------------------------------------------------------------
(* GenTable *)

Init ==
    /\ table \in Tables
    /\ pc = "sizes"
    /\ Index = 1
    /\ PAllocSizes = 1
    /\ Words = [n \in 0..(table.LeafSize + 1) |-> 0]
    /\ Offset = [n \in 0..table.LeafSize |-> 0]
    /\ LastWords = TERMINATOR

(***************************************************************************)
(* The next size malloc has, but never more than the largest leaf needs;   *)
(* with no size left the program gives up.                                 *)
(***************************************************************************)
NextSize ==
    /\ pc = "sizes" /\ Index < table.LeafSize
    /\ \E b \in 1..Len(table.AllocSizes) :
        LET size == table.AllocSizes[b]
            max == OWord(table, table.LeafSize)
        IN  /\ IsFit(table, PAllocSizes, b, OWord(table, Index))
            /\ PAllocSizes' = b
            /\ pc' = IF size = TERMINATOR THEN "exit" ELSE pc
            /\ Words' = [Words EXCEPT ![Index] = IF size < max THEN size ELSE max]
    /\ Offset' = [Offset EXCEPT ![Index] = IWord(table, Index)]
    /\ Index' = Index + 1
    /\ UNCHANGED <<table, LastWords>>

\* The largest leaf is as large as it need be.
LastSize ==
    /\ pc = "sizes" /\ Index = table.LeafSize
    /\ Words' = [Words EXCEPT ![Index] = OWord(table, Index)]
    /\ Offset' = [Offset EXCEPT ![Index] = IWord(table, Index)]
    /\ pc' = "groups"
    /\ UNCHANGED <<table, Index, PAllocSizes, LastWords>>

\* Faulty: every leaf keeps the value area right after its keys.
GroupAlone ==
    /\ pc = "groups" /\ Index > 0
    /\ LastWords' = Offset[Index]
    /\ Index' = Index - 1
    /\ UNCHANGED <<table, pc, PAllocSizes, Words, Offset>>

(***************************************************************************)
(* Downward, a leaf takes the value area of the one above it as long as    *)
(* its values fit into its words from there on; else it starts a group.    *)
(***************************************************************************)
Group ==
    /\ pc = "groups" /\ Index > 0
    /\ IF LastWords > Words[Index] - Index
       THEN LastWords' = Offset[Index] /\ UNCHANGED Offset
       ELSE Offset' = [Offset EXCEPT ![Index] = LastWords] /\ UNCHANGED LastWords
    /\ Index' = Index - 1
    /\ UNCHANGED <<table, pc, PAllocSizes, Words>>

\* The table is written with a 0 after it, and Offset if there are values.
Written ==
    /\ pc = "groups" /\ Index = 0
    /\ pc' = "done"
    /\ UNCHANGED <<table, Index, PAllocSizes, Words, Offset, LastWords>>

GenTable == NextSize \/ LastSize \/ Group \/ Written

Spec == Init /\ [][GenTable]_vars

-----------------------------------------------------------------------------
(* The calls of main, with the maxima of JudyL.h and Judy1.h *)

Leaf(name, bytes, max, value, sizes) ==
    [name |-> name, IndexBytes |-> bytes, LeafSize |-> max, ValueBytes |-> value,
     OffsetWords |-> 1, AllocSizes |-> sizes]

\* JP subarrays and value areas of immediates: no word before, and no values.
Array(name, bytes, max, sizes) ==
    [Leaf(name, bytes, max, 0, sizes) EXCEPT !.OffsetWords = 0]

AllocSizesL ==
    <<3, 5, 7, 9, 13, 19, 27, 37, 51, 73, 101, 145, 203, 289, 321, 576, TERMINATOR>>

\* cJL_LEAF2_MAXPOP1 and above: what J_L_MAXB bytes hold, beside one word.
MaxPop1L(l) == (289 * BPW - BPW) \div (l + BPW)

JudyLTables ==
    {Array("BranchBJP", 16, 64, AllocSizesL), Array("LeafV", 8, 8, AllocSizesL),
     Leaf("Leaf1", 1, 128, BPW, AllocSizesL), Leaf("Leaf2", 2, MaxPop1L(2), BPW, AllocSizesL),
     Leaf("Leaf3", 4, MaxPop1L(3), BPW, AllocSizesL), Leaf("Leaf4", 4, MaxPop1L(4), BPW, AllocSizesL),
     Leaf("Leaf5", 8, MaxPop1L(5), BPW, AllocSizesL), Leaf("Leaf6", 8, MaxPop1L(6), BPW, AllocSizesL),
     Leaf("Leaf7", 8, MaxPop1L(7), BPW, AllocSizesL), Leaf("Leaf8", 8, MaxPop1L(8), BPW, AllocSizesL)}

AllocSizes1 ==
    <<3, 5, 7, 9, 11, 13, 17, 21, 27, 33, 41, 51, 65, 77, 93, 109, 129, 153, 181, 215, 255,
      303, 357, 425, TERMINATOR>>

Judy1Tables ==
    {Array("BranchBJP", 16, 64, AllocSizes1),
     Leaf("Leaf2", 2, 255, 0, AllocSizes1), Leaf("Leaf3", 4, 253, 0, AllocSizes1),
     Leaf("Leaf4", 4, 233, 0, AllocSizes1), Leaf("Leaf5", 8, 222, 0, AllocSizes1),
     Leaf("Leaf6", 8, 214, 0, AllocSizes1), Leaf("Leaf7", 8, 180, 0, AllocSizes1),
     Leaf("Leaf8", 8, 152, 0, AllocSizes1)}

-----------------------------------------------------------------------------
(* Properties *)

(***************************************************************************)
(* The words of a leaf hold its keys and, from the value area on, its      *)
(* values, and the keys end before the values start: a write to any key or *)
(* value of a leaf stays in it.                                            *)
(***************************************************************************)
ObjectFits ==
    pc = "done" =>
        \A n \in 1..table.LeafSize :
            LET keys == table.IndexBytes * n + BPW * table.OffsetWords
            IN  /\ keys + table.ValueBytes * n <= BPW * Words[n]
                /\ table.ValueBytes # 0 =>
                      keys <= BPW * Offset[n] /\ Offset[n] + n <= Words[n]

(***************************************************************************)
(* A leaf that grows in place keeps its values where they are: where the   *)
(* words are the same, so is the value area.  A full leaf never does, for  *)
(* the 0 after the table.                                                  *)
(***************************************************************************)
GrowsInPlace ==
    pc = "done" =>
        \A n \in 1..table.LeafSize :
            Words[n] = Words[n + 1] =>
                n < table.LeafSize /\ (table.ValueBytes # 0 => Offset[n] = Offset[n + 1])

=============================================================================
