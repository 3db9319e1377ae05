-------------------------------- MODULE MCSwarm --------------------------------
(* Instances of Swarm for TLC.                                             *)
EXTENDS Swarm, TLC

CONSTANTS n1, n2, p1, p2

\* Both peers have everything: pieces are requested twice in the end game.
AllHave == [n \in Peers |-> Pieces]

\* One peer has everything, the others have one piece.
OneHasOne == [n \in Peers |-> IF n = n1 THEN Pieces ELSE {p1}]

\* Sound where RemoteHas is AllHave.
Symmetry == Permutations(Peers) \cup Permutations(Pieces)
================================================================================
