----------------------------- MODULE GrowArray -----------------------------
(***************************************************************************)
(* What a dynamic contiguous array promises its user: a sequence that can  *)
(* be appended to, written in place and emptied.  Capacity, allocation and *)
(* the place of the elements in memory do not show, and a call that fails  *)
(* changes nothing.  An array that was asked for more than memory can hold *)
(* may be lost; it stays lost until it is released.                        *)
(***************************************************************************)
EXTENDS Naturals, Sequences

CONSTANTS Arrays,   \* the arrays of the program
          Values,   \* what an element can be
          Lost      \* in place of the elements of an array that is lost

VARIABLES contents, \* contents[a]: the elements of array a, or Lost
          ret       \* whether the last call returned "data" or "null"

vars == <<contents, ret>>

Init == contents = [a \in Arrays |-> <<>>] /\ ret = "data"

(* A call replaces the elements of one array by s. *)
Becomes(a, s) == contents' = [contents EXCEPT ![a] = s] /\ ret' = "data"

(* New elements come after the old ones, which keep their values. *)
AppendTo(a) ==
  /\ contents[a] # Lost /\ contents'[a] # Lost
  /\ Len(contents[a]) <= Len(contents'[a])
  /\ \A i \in DOMAIN contents[a] : contents'[a][i] = contents[a][i]
  /\ Becomes(a, contents'[a])

Write(a) ==
  /\ contents[a] # Lost
  /\ \E i \in DOMAIN contents[a], v \in Values :
       Becomes(a, [contents[a] EXCEPT ![i] = v])

Empty(a) == Becomes(a, <<>>)

Lose(a) == Becomes(a, Lost)

(* Creation, a change of capacity, and every call that fails. *)
Keep == UNCHANGED contents /\ ret' \in {"data", "null"}

Next == Keep \/ \E a \in Arrays : AppendTo(a) \/ Write(a) \/ Empty(a) \/ Lose(a)

Spec == Init /\ [][Next]_vars

=============================================================================
