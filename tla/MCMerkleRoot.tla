---------------------------- MODULE MCMerkleRoot ----------------------------
(* A finite instance of MerkleRoot: the hashes are terms, so two of them   *)
(* are equal only when they were computed alike.                           *)
EXTENDS MerkleRoot

MCTx(j) == <<"tx", j>>
MCPairHash(l, r) == <<"hash", l, r>>
MCCounts == 0..17

=============================================================================
