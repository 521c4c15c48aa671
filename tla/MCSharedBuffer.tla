--------------------------- MODULE MCSharedBuffer ---------------------------
(* SharedBuffer for TLC.                                                   *)
EXTENDS SharedBuffer, TLC

\* One byte, two bytes, as many as the region has, and one more.
MCPayloads == {<<1>>, <<2>>, <<1, 2>>, <<1, 2, 1>>, <<1, 2, 1, 2>>}

\* Threads of one side are interchangeable.
Symmetric == Permutations(Writers) \cup Permutations(Readers)
=============================================================================
