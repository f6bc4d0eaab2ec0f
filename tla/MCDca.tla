------------------------------- MODULE MCDca -------------------------------
(* A finite instance of Dca. *)
EXTENDS Memory, TLC

CONSTANTS a1, a2, b1, b2, b3

(* Blocks are alike, and so are arrays. *)
MCSymmetry == Permutations({a1, a2}) \cup Permutations({b1, b2, b3})

=============================================================================
