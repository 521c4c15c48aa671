--------------------------- MODULE MCIntrusiveHeap ---------------------------
(* IntrusiveHeap for TLC.                                                  *)
EXTENDS IntrusiveHeap, TLC

\* Elements are interchangeable.
Symmetric == Permutations(Elements)
=============================================================================
