---------------------------- MODULE MCFindNonce ----------------------------
(* A finite instance of FindNonce: three jobs, eight nonces, hashes of two *)
(* bytes.                                                                  *)
EXTENDS FindNonce, Sequences

MCHashes == [1..2 -> 0..2]

A == <<0, 1>>
T == <<1, 1>>
C == <<0, 2>>
D == <<1, 0>>

(* The hashes of the headers with nonce 0, 1, ... and the target T. *)
MCCall(min, max, s) ==
  [min |-> min, max |-> max, target |-> T, nonce |-> 1,
   hash |-> [n \in Nonces |-> s[n + 1]]]

(* No solution; one in the remainder of the last job; one in two jobs; one *)
(* outside of the range; too few nonces for the jobs.                      *)
MCInputs ==
  {MCCall(0, 7, <<A, C, D, A, C, D, C, A>>),
   MCCall(0, 7, <<A, C, D, A, C, D, C, T>>),
   MCCall(0, 7, <<A, T, D, C, T, A, A, D>>),
   MCCall(1, 5, <<T, A, C, D, A, D, T, T>>),
   MCCall(2, 3, <<A, A, A, T, A, A, A, A>>)}

(* i256_compare agrees with the order of the numbers, i256_le with `<=`. *)
Value(h) == h[1] + 256 * h[2]

ASSUME CompareAssumption ==
  \A l, r \in MCHashes :
    /\ i256_compare(l, r) <= 0 <=> Value(l) <= Value(r)
    /\ i256_compare(l, r) = -i256_compare(r, l)

=============================================================================
