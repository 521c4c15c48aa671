---------------------------- MODULE MCThreadPool ----------------------------
(* ThreadPool for TLC.                                                     *)
EXTENDS ThreadPool, TLC

\* Workers are interchangeable, and so are clients (safety runs only).
Symmetric == Permutations(Workers) \cup Permutations(Clients)
=============================================================================
