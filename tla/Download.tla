------------------------------- MODULE Download -------------------------------
(***************************************************************************)
(* What a download looks like from outside: pieces are stored, a stored    *)
(* piece is counted as finished, and the download is complete exactly when *)
(* the last piece is counted.  Nothing is ever undone.  Module Swarm       *)
(* implements this.                                                        *)
(***************************************************************************)
CONSTANT Pieces

VARIABLES
  stored,    \* pieces on disk
  finished,  \* pieces that are counted and announced
  complete

Init ==
  /\ finished \subseteq Pieces
  /\ stored = finished
  /\ complete = (finished = Pieces)

Store(p) ==
  /\ p \notin stored
  /\ stored' = stored \cup {p}
  /\ UNCHANGED <<finished, complete>>

Count(p) ==
  /\ p \in stored \ finished
  /\ finished' = finished \cup {p}
  /\ complete' = (finished' = Pieces)
  /\ UNCHANGED stored

Next == \E p \in Pieces : Store(p) \/ Count(p)

Spec == Init /\ [][Next]_<<stored, finished, complete>>

===============================================================================
