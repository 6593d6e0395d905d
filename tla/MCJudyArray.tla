----------------------------- MODULE MCJudyArray -----------------------------
(***************************************************************************)
(* Small instances of JudyArray: keys of three digits, five values of a    *)
(* digit, and maxima so low that eight keys take the array through every   *)
(* kind of leaf and branch.                                                *)
(***************************************************************************)
EXTENDS JudyArray

K(a, b, c) == <<c, b, a>>

\* A whole expanse at level 1, a second octant at level 2, neighbours above.
MCIndex == {K(0,0,c) : c \in Digit} \cup {K(0,2,0), K(1,0,0), K(2,0,0)}

\* Enough for leaves, bitmaps and immediates to move their value areas.
MCIndexFew == {K(0,0,0), K(0,0,1), K(0,0,2), K(0,0,3), K(1,0,0)}

\* The same with a root of three digits: a branch of every kind there.
MCIndexRoot == MCIndexFew \cup {K(2,0,0)}

\* Enough for every branch too, with room for failures in between.
MCIndexMost == MCIndex \ {K(0,0,4)}

\* Level 1, 2, 3: a leaf of level 2 may splay into a bitmap at once.
MCLeafMax == <<3, 4, 4>>
MCLeafMaxLow == <<3, 3, 3>>
MCImmedMaxL == <<2, 1, 1>>
MCImmedMaxWide == <<3, 1, 1>>
MCImmedMax1 == <<2, 2, 2>>

\* Malloc'ed words: rounded up so that some growth happens in place.
MCLeafWords == << <<2, 2, 3, 3, 4>>, <<2, 3, 3, 5, 5>>, <<2, 3, 3, 5, 5>> >>
MCJVWords == <<2, 2, 4, 4, 4>>
MCJVWordsRound == <<2, 4, 4, 4, 4>>
MCBJPWords == <<2, 2, 4, 4, 4>>

=============================================================================
