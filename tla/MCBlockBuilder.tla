--------------------------- MODULE MCBlockBuilder ---------------------------
(* A finite instance of BlockBuilder: bytes of two digits of two values,   *)
(* so that the forms of a varint change at 1, 15 and 255; hashes of two    *)
(* bytes.                                                                  *)
EXTENDS BlockBuilder

(* A hash of two bytes, of a sum that depends on the positions; it is     *)
(* added up in halves, as TLC's stack is not deep.                         *)
MCHash256(s) ==
  LET sum[first, last \in 1..Len(s)] ==
        IF first = last THEN (s[first] + 1) * (1 + (first % 7))
        ELSE LET middle == (first + last) \div 2
             IN  sum[first, middle] + sum[middle + 1, last]
  IN  U(2, sum[1, Len(s)])

Bytes(n, b) == [k \in 1..n |-> b]

In(n) == [txid |-> <<1, 2>>, vout |-> 255, script |-> Bytes(n, 3), sequence |-> 255]
Out(n) == [amount |-> 312, script |-> Bytes(n, 1)]

MCTx(flags, ins, outs, witness) ==
  [version |-> 1, marker |-> 0, flags |-> flags, ins |-> ins, outs |-> outs,
   witness |-> witness, lock_time |-> 0]

(* main's: one input, one output, one witness of one field. *)
Coinbase ==
  MCTx(1, <<[In(4) EXCEPT !.txid = ZeroHash]>>, <<Out(1)>>, <<<<Bytes(32, 0)>>>>)

(* Witnesses of no, too few, as many and too many items; no inputs.  Sizes *)
(* on both sides of each form of a varint.                                 *)
MCTxs ==
  {Coinbase, MCTx(0, Coinbase.ins, Coinbase.outs, Coinbase.witness)}
    \cup {MCTx(1, <<In(n), In(0)>>, <<>>, <<<<>>, <<Bytes(1, 0), Bytes(n, 2)>>>>) :
            n \in {0, 1, 14, 15, 16}}
    \cup {MCTx(0, <<In(0)>>, <<Out(n)>>, <<>>) : n \in {0, 13, 254, 255, 256}}
    \cup {MCTx(1, <<In(1), In(1)>>, <<Out(0)>>, <<v, w>>) :
            v \in {<<>>, <<Bytes(1, 1), Bytes(2, 1)>>},
            w \in {<<Bytes(1, 1)>>, <<Bytes(1, 1), <<>>, <<>>>>}}
    \cup {MCTx(1, <<In(0)>>, <<>>, <<<<Bytes(1, 1), <<>>>>>>)}
    \cup {MCTx(1, <<In(1), In(1)>>, <<Out(0)>>, <<<<Bytes(1, 1), <<>>, <<>>>>, <<>>>>)}
    \cup {MCTx(f, <<>>, <<Out(2)>>, <<>>) : f \in {0, 1}}
    \cup {[Coinbase EXCEPT !.marker = 1]}

Arg(name, number, digits) == [name |-> name, number |-> number, digits |-> digits]
Pb == Arg("-pb", 0, <<0, 0, 1>>)
Bits == Arg("-bits", 0, <<0, 1, 0, 0, 1>>)
Time == Arg("-time", 0, <<0, 0, 0, 0, 1>>)
Obin == Arg("-obin", 0, <<0, 0, 1, 0, 0>>)
Ohex == Arg("-ohex", 0, <<0, 0, 0, 1, 0>>)
Hash == Arg("0111", 111, <<0, 1, 1, 1>>)
Linked == Arg("./0111", 0, <<0, 1, 1, 1>>)
Long == Arg("101101", 45, <<1, 0, 1, 1, 0, 1>>)

MCArgVectors ==
  {<<>>, <<Obin, Hash, Ohex, Hash>>, <<Pb, Hash, Obin, Hash, Ohex, Hash>>,
   <<Obin, Linked, Ohex, Hash>>, <<Obin, Long, Ohex, Hash>>, <<Obin, Hash, Obin, Long>>,
   <<Bits, Hash, Time, Long, Ohex, Long, Pb, Long>>, <<Pb, Pb>>, <<Pb, Bits, Obin, Pb>>,
   <<Time, Long, Bits>>, <<Hash>>}

(* Two of the paths lead to one file. *)
MCFileAt(path) == IF path = "./0111" THEN "0111" ELSE path

(* Nothing, a quarter, or all is written. *)
MCStops(n) == {0, n \div 4, n}

=============================================================================
