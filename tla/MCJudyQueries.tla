---------------------------- MODULE MCJudyQueries ----------------------------
(***************************************************************************)
(* The instances of MCJudyArray with keys to ask about: some that may be   *)
(* in the array, the ends of the key space, and gaps of each level.        *)
(***************************************************************************)
EXTENDS MCJudyArray, JudyQueries

\* A whole expanse at level 1, and octants and groups apart above it.
MCIndexApart ==
    {K(0,0,c) : c \in Digit} \cup {K(0,3,0), K(1,0,0), K(3,0,0)}

MCProbe ==
    {K(0,0,0), K(0,0,2), K(0,0,4), K(0,1,0), K(0,3,0), K(0,4,3), K(1,0,0), K(2,0,1), K(4,4,4)}

MCStored == <<1, 2, 3>>

\* Three values of a digit: a whole expanse of two digits, and a key before it.
MCIndexFull == {K(1,b,c) : b \in Digit, c \in Digit} \cup {K(0,2,2)}
MCProbeFull == {K(0,0,0), K(0,2,1), K(0,2,2), K(1,0,0), K(1,1,0), K(1,2,1), K(2,0,1), K(2,2,2)}
MCLeafMaxFull == <<2, 2, 2>>
MCImmedMaxFull == <<2, 1, 1>>
MCLeafWordsFull == << <<2, 2, 3>>, <<2, 3, 3>>, <<2, 3, 3>> >>
MCWordsFull == <<2, 2, 4>>

\* Leaves of levels 2 and 3 with a word for a key, and the end of an expanse of level 2.
MCStoredWide == <<1, 3, 3>>
MCIndexEdge == {K(0,0,0), K(1,4,3), K(1,4,4), K(2,0,0), K(3,0,0)}
MCProbeEdge == {K(0,0,0), K(1,4,3), K(1,4,4), K(2,0,0), K(3,0,0)}

=============================================================================
