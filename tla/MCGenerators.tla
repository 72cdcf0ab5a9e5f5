--------------------------- MODULE MCGenerators ---------------------------
(* A small instance of Generators for TLC.                                 *)
EXTENDS Generators

CONSTANTS g1, g2, burst

TwoGenerators == {g1, g2}
OneBurst == {burst}

(* None, one, and more than is granted.                                    *)
SomeCounts == {0, 1, MaxBatch + 1}
=============================================================================
