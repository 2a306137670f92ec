------------------------------- MODULE MCTrfo -------------------------------
(***************************************************************************)
(* Trfo for TLC.                                                           *)
(***************************************************************************)
EXTENDS Trfo, TLC

Symmetry == Permutations(Clients) \cup Permutations(Sessions) \cup Permutations(Paths)
=============================================================================
