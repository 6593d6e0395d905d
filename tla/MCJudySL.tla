------------------------------ MODULE MCJudySL ------------------------------
(***************************************************************************)
(* Words of two characters and strings of up to four: shared words, words  *)
(* that end a string, strings that fill their words exactly, and a string  *)
(* that is another's prefix.                                               *)
(***************************************************************************)
EXTENDS JudySL

\* The strings "a", "aa", "aabb", "aaba", "b".
MCStrings == {<<1>>, <<1, 1>>, <<1, 1, 2, 2>>, <<1, 1, 2, 1>>, <<2>>}

=============================================================================
