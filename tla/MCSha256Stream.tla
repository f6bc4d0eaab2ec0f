--------------------------- MODULE MCSha256Stream ---------------------------
(* A finite instance of Sha256Stream: blocks of 4 bytes, 2 of them for the *)
(* length.                                                                 *)
EXTENDS Sha256Stream

=============================================================================
