---------------------- MODULE MCLazilyDeallocatedDeque ----------------------
(* LazilyDeallocatedDeque for TLC.                                         *)
EXTENDS LazilyDeallocatedDeque

\* Deques are interchangeable, and so are elements.
Symmetric == Permutations(Deques) \cup Permutations(T)
=============================================================================
