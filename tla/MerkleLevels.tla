---------------------------- MODULE MerkleLevels ----------------------------
(***************************************************************************)
(* What a Merkle root is, level by level and with no buffer: each level is *)
(* the pair hashes of the level below, whose last hash is paired with      *)
(* itself when there is no other, and the level of one hash is the root.   *)
(***************************************************************************)
EXTENDS Naturals

CONSTANTS
  Counts,           \* how many transactions there may be
  Tx(_),            \* Tx(j): the id of transaction j, from 0 on
  PairHash(_, _),   \* the double SHA-256 of two hashes one after the other
  Zero              \* no root yet

VARIABLES size,     \* the number of hashes of this level
          level,    \* the hashes of this level, from 0 on
          root,
          state     \* "open", "root" or "error"

vars == <<size, level, root, state>>

Half(n) == (n + 1) \div 2

(* The level above the first n hashes of f. *)
Parents(f, n) ==
  [j \in 0..(Half(n) - 1) |->
     PairHash(f[2 * j], f[IF 2 * j + 1 < n THEN 2 * j + 1 ELSE 2 * j])]

Init ==
  /\ size \in Counts
  /\ level = [j \in 0..(size - 1) |-> Tx(j)]
  /\ root = Zero
  /\ state = "open"

Ascend ==
  /\ state = "open" /\ size > 1
  /\ size' = Half(size)
  /\ level' = Parents(level, size)
  /\ UNCHANGED <<root, state>>

Take ==
  /\ state = "open" /\ size = 1
  /\ root' = level[0] /\ state' = "root"
  /\ UNCHANGED <<size, level>>

(* No transaction, no root. *)
Refuse ==
  /\ state = "open" /\ size = 0
  /\ state' = "error"
  /\ UNCHANGED <<size, level, root>>

Next == Ascend \/ Take \/ Refuse

Spec == Init /\ [][Next]_vars

=============================================================================
