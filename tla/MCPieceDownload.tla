---------------------------- MODULE MCPieceDownload ----------------------------
(* Instances of PieceDownload for TLC.                                     *)
EXTENDS PieceDownload, TLC

Symmetry == Permutations(Pieces)
================================================================================
