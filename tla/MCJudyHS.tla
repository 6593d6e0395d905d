------------------------------ MODULE MCJudyHS ------------------------------
(***************************************************************************)
(* Words of two bytes, an empty string and four of three words that all    *)
(* have the same hash, because 1 * 31 + 0 = 0 * 31 + 31.  The others part  *)
(* from the first in the last word, the second and the first.              *)
(***************************************************************************)
EXTENDS JudyHS

MCStrings == {<<>>,
    <<1, 0, 1, 0, 1, 0>>, <<1, 0, 1, 0, 0, 31>>, <<1, 0, 0, 31, 1, 0>>, <<0, 31, 1, 0, 1, 0>>}

=============================================================================
