----------------------------- MODULE MCBcClient -----------------------------
(* A finite instance of BcClient: a header of 2 + 1 bytes. *)
EXTENDS BcClient

MCPayload ==
  [k \in Kinds |-> CASE k = "version" -> 2
                     [] k \in {"oldVersion", "inv"} -> 1
                     [] OTHER -> 0]

=============================================================================
