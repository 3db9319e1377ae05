------------------------------- MODULE MCStorage -------------------------------
(* Instances of Storage for TLC.                                           *)
EXTENDS Storage

CONSTANTS w1, w2

T(lengths, pieceLength, blockSize) ==
  [lengths |-> lengths, pieceLength |-> pieceLength, blockSize |-> blockSize]

\* A piece in three files and a last piece of one whole block; a file that ends
\* with a piece, and a last piece with a short block; an empty file first, and a
\* piece boundary within a file; a block across files; one file; a piece length
\* that is not a multiple of the block size.
Layouts == {T(<<1, 1, 4>>, 4, 2), T(<<4, 3>>, 4, 2), T(<<0, 5>>, 2, 2),
            T(<<3, 5>>, 4, 2), T(<<7>>, 2, 1), T(<<5>>, 3, 2)}

Symmetry == Permutations(Writers)
================================================================================
