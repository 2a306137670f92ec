------------------------------- MODULE MCProxy -------------------------------
(***************************************************************************)
(* Proxy for TLC.                                                          *)
(***************************************************************************)
EXTENDS Proxy, TLC

BackAndForth == {-1, 1}
Symmetry == Permutations(Threads) \cup Permutations(Inodes) \cup Permutations(Paths)
=============================================================================
