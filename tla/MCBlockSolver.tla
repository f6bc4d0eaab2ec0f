--------------------------- MODULE MCBlockSolver ---------------------------
(* Finite instances of BlockSolver. *)
EXTENDS BlockSolver

(* No solution; one in the clipped last range; two in different ranges of *)
(* the last timestamp.                                                    *)
MCTargets ==
  {{}, {<<Timestamp, NonceMax>>},
   {<<Timestamp + T, 0>>, <<Timestamp + T, NonceMax>>}}

(* None on the command line, or one that no header here has. *)
MCArgs == {NoTarget, {<<Timestamp, 1>>}}

=============================================================================
