----------------------------- MODULE MerkleRoot -----------------------------
(***************************************************************************)
(* bc_merkle_root (src/apps/bclib/bc_merkle_root.c) and the caller that    *)
(* reads its result (src/apps/bcapp/main_block_template_parser.c).         *)
(*                                                                         *)
(* The first round reads the transaction ids and writes op, a buffer of    *)
(* half their number and two more; the other rounds read op and write op.  *)
(* The two more, at ext, hold the last hash of a round with an odd number  *)
(* of hashes twice, to be paired with itself.  Indices are those of the    *)
(* code, from 0 on.                                                        *)
(***************************************************************************)
EXTENDS Naturals

CONSTANTS
  Counts,           \* nu_dca_size(txids)
  Tx(_),            \* Tx(j): txids[j]
  PairHash(_, _),   \* bc_hash32_pair_hash
  Zero,             \* what memset leaves in op, and the root before it is read
  Junk              \* what new memory holds

ASSUME CountsAssumption == Counts \subseteq Nat

VARIABLES
  count,    \* the number of the transactions
  itx,      \* the number of the hashes of this round
  ip,       \* where they are: "txids" or "op"
  op,       \* the buffer
  i,        \* the index of the inner loop
  pc,       \* "start", "round", "pairs", "done", "error", "read", "aborted" or
            \* "crashed"
  root,     \* the caller's merkle_root
  level     \* history: the hashes of this round as it began

vars == <<count, itx, ip, op, i, pc, root, level>>

Half(n) == (n + 1) \div 2
Odd(n) == n % 2

txids == [j \in 0..(count - 1) |-> Tx(j)]

(* const size_t ext = otx *)
ext == Half(count)

(* op has otx + 2 elements. *)
Cells == 0..(ext + 1)

(* ip[j] *)
Input(j) == IF ip = "txids" THEN txids[j] ELSE op[j]

Init ==
  /\ count \in Counts
  /\ itx = count /\ ip = "txids" /\ op = <<>> /\ i = 0
  /\ pc = "start"
  /\ root = Zero
  /\ level = txids

(* The test for an empty list, the buffer and its memset.  Without memory  *)
(* for the buffer the process ends, at the latest in memset.               *)
Start ==
  /\ pc = "start"
  /\ \/ itx < 1 /\ pc' = "error" /\ op' = op
     \/ itx >= 1 /\ pc' = "aborted" /\ op' = op
     \/ /\ itx >= 1 /\ pc' = "round"
        /\ op' = [j \in Cells |-> IF j < ext THEN Zero ELSE Junk]
  /\ UNCHANGED <<count, itx, ip, i, root, level>>

(* Mutant: off by one. *)
KeptEarly(n) == n - 2

(* The index of the hash that has no partner. *)
Kept(n) == n - 1

(* The head of the while loop: with an odd itx, op[ext] = op[ext + 1] =    *)
(* ip[itx - 1].                                                            *)
BeginRound ==
  /\ pc = "round" /\ itx > 1
  /\ op' = IF Odd(itx) = 1
             THEN [op EXCEPT ![ext] = Input(Kept(itx)),
                             ![ext + 1] = Input(Kept(itx))]
             ELSE op
  /\ i' = 0
  /\ pc' = "pairs"
  /\ UNCHANGED <<count, itx, ip, root, level>>

(* Mutant: one pair less, whether itx is odd or not. *)
PairsShort(n) == Half(n) - 1

(* otx - odd, the bound of the inner loop *)
Pairs(n) == Half(n) - Odd(n)

HashPair ==
  /\ pc = "pairs" /\ i < Pairs(itx)
  /\ op' = [op EXCEPT ![i] = PairHash(Input(2 * i), Input(2 * i + 1))]
  /\ i' = i + 1
  /\ UNCHANGED <<count, itx, ip, pc, root, level>>

(* Mutant: the extra hash is not written. *)
HashedLastNot(n) == op

(* op after the hash of the two cells at ext *)
HashedLast(n) ==
  IF Odd(n) = 1
    THEN [op EXCEPT ![Half(n) - 1] = PairHash(op[ext], op[ext + 1])]
    ELSE op

(* itx = otx *)
NextSize(n) == Half(n)

(* The end of the inner loop: the hash without a partner, ip = op and      *)
(* itx = otx.                                                              *)
EndRound ==
  /\ pc = "pairs" /\ i >= Pairs(itx)
  /\ op' = HashedLast(itx)
  /\ ip' = "op"
  /\ itx' = NextSize(itx)
  /\ level' = [j \in 0..(itx' - 1) |-> op'[j]]
  /\ pc' = "round"
  /\ UNCHANGED <<count, i, root>>

(* op[0] = ip[0], which matters when there was no round. *)
Finish ==
  /\ pc = "round" /\ itx = 1
  /\ op' = [op EXCEPT ![0] = Input(0)]
  /\ pc' = "done"
  /\ UNCHANGED <<count, itx, ip, i, root, level>>

(* The caller drops the result and reads nu_dca_data(&mr_tmp_arr)[0]; after *)
(* an error the array has no memory.                                       *)
ReadRoot ==
  /\ \/ pc = "done" /\ root' = op[0] /\ pc' = "read"
     \/ pc = "error" /\ root' = root /\ pc' = "crashed"
  /\ UNCHANGED <<count, itx, ip, op, i, level>>

Ended == pc \in {"read", "aborted", "crashed"} /\ UNCHANGED vars

Next ==
  \/ Start \/ BeginRound \/ HashPair \/ EndRound \/ Finish \/ ReadRoot
  \/ Ended

Spec == Init /\ [][Next]_vars
-----------------------------------------------------------------------------
(* Properties *)

(* Every variable has its type, and the buffer its size (proved, and not   *)
(* checked by the run).                                                    *)
TypeOK ==
  /\ count \in Counts
  /\ itx \in 0..count
  /\ ip \in {"txids", "op"}
  /\ pc \in {"start", "round", "pairs", "done", "error", "read", "aborted",
             "crashed"}
  /\ i \in 0..ext
  /\ pc \in {"round", "pairs", "done", "read"} => DOMAIN op = 0..(ext + 1)
  /\ DOMAIN level = 0..(itx - 1)

(* A round that reads and writes the same buffer does not overwrite what   *)
(* it has still to read: the inputs behind the pairs hashed so far are     *)
(* those the round began with, below ext, and the one that an odd round    *)
(* puts aside is safe at ext, in the cells that no pair is written to.     *)
UnreadIntact ==
  pc = "pairs" =>
    /\ itx <= (IF ip = "txids" THEN count ELSE ext)
    /\ \A j \in (2 * i)..(2 * Pairs(itx) - 1) : Input(j) = level[j]
    /\ Odd(itx) = 1 =>
         op[ext] = level[itx - 1] /\ op[ext + 1] = level[itx - 1]

(* The Merkle tree, by height: node j of height h is the hash of its two   *)
(* children, or of one child twice at the end of an odd row.               *)
Width[h \in 0..count] == IF h = 0 THEN count ELSE Half(Width[h - 1])

Node[h \in 0..count] ==
  [j \in 0..(Width[h] - 1) |->
     IF h = 0 THEN Tx(j)
     ELSE PairHash(Node[h - 1][2 * j],
                   Node[h - 1][IF 2 * j + 1 = Width[h - 1]
                                 THEN 2 * j ELSE 2 * j + 1])]

(* What the caller reads is the root of the tree, for every number of      *)
(* transactions; only an empty list has none.                              *)
RootOfTree ==
  /\ pc = "read" =>
       \E h \in 0..count :
         Width[h] = 1 /\ (\A g \in 0..(h - 1) : Width[g] > 1) /\ root = Node[h][0]
  /\ pc = "crashed" => count = 0

(* The abstract computation, which sees a round when it ends. *)
Levels == INSTANCE MerkleLevels
  WITH size <- itx, level <- level, root <- IF pc = "done" THEN op[0] ELSE root,
       state <- IF pc \in {"done", "read"} THEN "root"
                ELSE IF pc \in {"error", "crashed"} THEN "error" ELSE "open"

(* Each round turns the level it began with into the next one, although it *)
(* reads and writes one buffer, and the root is the level of one hash.     *)
ImplementsLevels == Levels!Spec

=============================================================================
