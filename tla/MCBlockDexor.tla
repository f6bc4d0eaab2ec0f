---------------------------- MODULE MCBlockDexor ----------------------------
(* A finite instance of BlockDexor: fields of one byte and a key of three,  *)
(* so that blocks begin at every byte of the key.                          *)
EXTENDS BlockDexor

Block(body, n, segwit, ins) ==
  [size |-> HeaderSize + Len(body), body |-> body, txns |-> n,
   segwit |-> segwit, ins |-> ins]

(* 2: the version of a transaction.  No transaction; one with three inputs; *)
(* one with the marker and two inputs; a wrong flag; numbers of two bytes,  *)
(* below and from 2^15 on; a number of four bytes; a size that is too small *)
(* for a block, for this one, or too large.                                 *)
MCBlocks ==
  {Block(<<0>>, 0, FALSE, 0),
   Block(<<1, 2, 3>>, 1, FALSE, 3),
   Block(<<1, 2, 0, 1, 2>>, 1, TRUE, 2),
   Block(<<1, 2, 0, 7>>, 1, TRUE, 0),
   Block(<<253, 0, 1, 2, 3>>, 256, FALSE, 3),
   Block(<<253, 0, 128, 2, 253, 1, 1>>, 2^15, FALSE, 257),
   Block(<<254, 0, 0, 1, 0, 2, 3>>, 2^16, FALSE, 3),
   Block(<<1, 2, 253, 0, 128>>, 1, FALSE, 2^15)}
    \cup {[Block(<<1, 2, 3>>, 1, FALSE, 3) EXCEPT !.size = n] : n \in {1, 3, 6}}

MCFiles == {<<>>} \cup {<<b>> : b \in MCBlocks} \cup (MCBlocks \X MCBlocks)

=============================================================================
