----------------------------- MODULE MCController -----------------------------
(* Instance of Controller for TLC.                                         *)
EXTENDS Controller, TLC

Symmetry == Permutations(Peers) \cup Permutations(Pieces)
===============================================================================
