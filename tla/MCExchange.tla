------------------------------ MODULE MCExchange ------------------------------
(* Instances of Exchange for TLC.                                          *)
EXTENDS Exchange, TLC

CONSTANTS p1, p2

Symmetry == Permutations(Pieces)
================================================================================
