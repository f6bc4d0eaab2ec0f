----------------------- MODULE TemplateBuilderProofs -----------------------
(***************************************************************************)
(* Proofs about TemplateParser, for all templates and for all texts that   *)
(* fread may leave of them, and about BlockBuilder, for all transactions,  *)
(* arguments and sizes of digits and hashes.                               *)
(***************************************************************************)
EXTENDS TemplateParser, BlockBuilder, SequenceTheorems, FiniteSetTheorems,
  WellFoundedInduction, TLAPS

(* The lexemes of the templates, the word that is cut off, and no word. *)
Lexeme ==
  {"cut", ""} \cup UNION {ToSet(File(t)) : t \in Templates}

ASpan == [beg : Nat, end : Nat]

AView == [data : ASpan, txid : ASpan, hash : ASpan]

AHeader ==
  [hash_prev_block : Lexeme, hash_merkle_root : Seq(Lexeme),
   timestamp : Lexeme, bits : Lexeme]

TypeOK ==
  /\ template \in Templates
  /\ text \in Seq(Lexeme)
  /\ tmp \in Nat
  /\ tx_arr \in Seq(AView)
  /\ root \in Seq(Lexeme)
  /\ block \in AHeader \cup {<<>>}
  /\ pc \in {"load", "tag", "scan", "root", "fields", "failed", "aborted", "crashed",
             "undefined", "done"}

(* All views so far lie between the beginning of the text and the place    *)
(* the scan has come to, and in the text.                                  *)
SpansIn ==
  \A j \in 1..Len(tx_arr) : \A s \in Spans(tx_arr[j]) :
    /\ 0 < s.beg /\ s.beg <= s.end
    /\ s.end <= tmp /\ s.end <= Len(text) + 1

(* Each view has moved the scan on, which does not leave the text by more  *)
(* than the NUL: there are fewer views than lexemes.                       *)
ScanInv ==
  /\ pc \in {"load", "tag"} => tx_arr = <<>> /\ tmp = 0
  /\ pc = "scan" => Len(tx_arr) + 1 < tmp
  /\ tx_arr # <<>> => Len(tx_arr) < Len(text) /\ tmp <= Len(text) + 1

Inv == TypeOK /\ SpansIn /\ ScanInv /\ ViewsApart
-----------------------------------------------------------------------------
(***************************************************************************)
(* The text of a template                                                  *)
(*                                                                         *)
(* Induction on a set of naturals, functions defined by recursion, and     *)
(* what FlattenSeq makes of a sequence of sequences.                       *)
(***************************************************************************)

(* A set with 0 and every successor up to m has all up to m.               *)
LEMMA Induction ==
  ASSUME NEW T, NEW m \in Nat, 0 \in T,
         \A n \in 1..m : n - 1 \in T => n \in T
  PROVE  0..m \subseteq T
  <1> DEFINE Out == {n \in 0..m : n \notin T}
  <1>1. ASSUME NEW o \in Out
        PROVE  FALSE
    <2>1. Out \subseteq Nat /\ Out # {}
      BY <1>1
    <2>2. PICK n \in Out : \A k \in Out : ~ (<<k, n>> \in OpToRel(<, Nat))
      BY <2>1, WFMin, NatLessThanWellFounded
    <2>3. n \in 1..m /\ n \notin T
      OBVIOUS
    <2>4. n - 1 \in 0..m /\ n - 1 \in Nat /\ n \in Nat /\ n - 1 < n
      BY <2>3
    <2>5. n - 1 \in Out
      BY <2>3, <2>4
    <2>6. /\ <<n - 1, n>> \in Nat \X Nat
          /\ <<n - 1, n>>[1] = n - 1 /\ <<n - 1, n>>[2] = n
      BY <2>4
    <2>7. <<n - 1, n>> \in OpToRel(<, Nat)
      BY <2>4, <2>6 DEF OpToRel
    <2> QED
      BY <2>2, <2>5, <2>7
  <1> QED
    BY <1>1

(* f begins with a, each value being made of the one before by G. *)
Chain(f, V, a, m, G) ==
  f \in [0..m -> V] /\ f[0] = a /\ \A n \in 1..m : f[n] = G[n][f[n - 1]]

(* A recursion over 1..m has a function that follows it.                   *)
LEMMA ChainExists ==
  ASSUME NEW V, NEW a \in V, NEW m \in Nat, NEW G \in [1..m -> [V -> V]]
  PROVE  \E f : Chain(f, V, a, m, G)
  <1> DEFINE UpTo(n) == \E f \in [0..n -> V] :
                          f[0] = a /\ \A k \in 1..n : f[k] = G[k][f[k - 1]]
             T == {n \in 0..m : UpTo(n)}
  <1>1. 0 \in T
    <2> DEFINE f == [n \in 0..0 |-> a]
    <2>1. f \in [0..0 -> V] /\ f[0] = a /\ \A k \in 1..0 : f[k] = G[k][f[k - 1]]
      OBVIOUS
    <2> HIDE DEF f
    <2>2. UpTo(0)
      BY <2>1
    <2> QED
      BY <2>2
  <1>2. ASSUME NEW n \in 1..m, n - 1 \in T
        PROVE  n \in T
    <2>1. PICK g \in [0..(n - 1) -> V] :
            g[0] = a /\ \A k \in 1..(n - 1) : g[k] = G[k][g[k - 1]]
      BY <1>2
    <2> DEFINE f == [k \in 0..n |-> IF k = n THEN G[n][g[n - 1]] ELSE g[k]]
    <2>2. n - 1 \in 0..(n - 1) /\ g[n - 1] \in V
      OBVIOUS
    <2>3. G[n] \in [V -> V]
      OBVIOUS
    <2>4. G[n][g[n - 1]] \in V
      BY <2>2, <2>3
    <2>5. f \in [0..n -> V]
      BY <2>4
    <2>6. \A k \in 0..(n - 1) : f[k] = g[k]
      OBVIOUS
    <2>7. f[n] = G[n][g[n - 1]]
      OBVIOUS
    <2> HIDE DEF f
    <2>8. f[0] = a
      BY <2>1, <2>6
    <2>9. ASSUME NEW k \in 1..n
          PROVE  f[k] = G[k][f[k - 1]]
      <3>1. k - 1 \in 0..(n - 1) /\ f[k - 1] = g[k - 1]
        BY <2>6
      <3>2. CASE k = n
        BY <3>1, <3>2, <2>7
      <3>3. CASE k # n
        <4>1. k \in 1..(n - 1) /\ k \in 0..(n - 1)
          BY <3>3
        <4>2. f[k] = g[k] /\ g[k] = G[k][g[k - 1]]
          BY <4>1, <2>1, <2>6
        <4> QED
          BY <4>2, <3>1
      <3> QED
        BY <3>2, <3>3
    <2>10. UpTo(n)
      BY <2>5, <2>8, <2>9
    <2> QED
      BY <2>10
  <1> HIDE DEF T
  <1>3. 0..m \subseteq T
    BY <1>1, <1>2, Induction
  <1>4. m \in T
    BY <1>3
  <1> QED
    BY <1>4 DEF T, Chain

(* The signs, of which the proofs only need that they are no tags, and     *)
(* what a file is made of.                                                 *)
Comma == ","
Open == "["
Close == "]"
Transactions == "transactions"

Piece == STRING \cup {Comma, Open, Close, Transactions}

Text == Seq(Piece)

(* The parts of s joined one after another, up to all of them.             *)
Joins(f, s, V) ==
  /\ f \in [0..Len(s) -> V] /\ f[0] = <<>>
  /\ \A n \in 1..Len(s) : f[n] = f[n - 1] \o s[n]
  /\ FlattenSeq(s) = f[Len(s)]

(* The partial joins of s, which end in FlattenSeq(s).                     *)
LEMMA JoinsExist ==
  ASSUME NEW S, NEW s \in Seq(Seq(S))
  PROVE  \E f : Joins(f, s, Seq(S))
  <1> DEFINE m == Len(s)
             V == Seq(S)
             G == [n \in 1..m |-> [v \in V |-> v \o s[n]]]
  <1>1. m \in Nat /\ \A n \in 1..m : s[n] \in V
    BY LenProperties, ElementOfSeq
  <1>2. \A v, w \in V : v \o w \in V
    BY ConcatProperties
  <1>3. <<>> \in V /\ \A v \in V : <<>> \o v = v
    BY ConcatEmptySeq
  <1> HIDE DEF m, V
  <1>4. G \in [1..m -> [V -> V]]
    BY <1>1, <1>2
  <1>5. \A n \in 1..m : \A v \in V : G[n][v] = v \o s[n]
    OBVIOUS
  <1> HIDE DEF G
  <1>6. PICK f : Chain(f, V, <<>>, m, G)
    BY <1>1, <1>3, <1>4, ChainExists
  <1>7. \A n \in 1..m : f[n - 1] \in V /\ f[n] = f[n - 1] \o s[n]
    <2> SUFFICES ASSUME NEW n \in 1..m PROVE f[n - 1] \in V /\ f[n] = f[n - 1] \o s[n]
      OBVIOUS
    <2>1. n - 1 \in 0..m
      BY <1>1
    <2>2. f[n - 1] \in V /\ f[n] = G[n][f[n - 1]]
      BY <2>1, <1>6 DEF Chain
    <2>3. G[n][f[n - 1]] = f[n - 1] \o s[n]
      BY ONLY <1>5, <2>2, n \in 1..m
    <2> QED
      BY <2>2, <2>3
  <1>8. f \in [0..m -> V] /\ f[0] = <<>>
    BY <1>6 DEF Chain
  <1>9. FlattenSeq(s) = f[m]
    <2>1. CASE m = 0
      <3>1. s = <<>>
        BY <2>1, EmptySeq DEF m
      <3>2. FlattenSeq(s) = s
        BY <2>1 DEF FlattenSeq, m
      <3> QED
        BY <2>1, <3>1, <3>2, <1>8
    <2>2. CASE m # 0
      <3> DEFINE IsFlat(g) == g = [i \in 1..m |-> IF i = 1 THEN s[i] ELSE g[i - 1] \o s[i]]
                 h == CHOOSE g : IsFlat(g)
      <3>1. IsFlat([i \in 1..m |-> f[i]])
        <4> DEFINE g == [i \in 1..m |-> f[i]]
        <4>1. ASSUME NEW i \in 1..m
              PROVE  f[i] = IF i = 1 THEN s[i] ELSE g[i - 1] \o s[i]
          <5>1. CASE i = 1
            <6>3. 1 \in 1..m /\ 1 - 1 = 0
              BY <5>1
            <6>4. f[1] = f[1 - 1] \o s[1]
              BY <1>7, <6>3
            <6>1. f[1] = <<>> \o s[1]
              BY <1>8, <6>3, <6>4
            <6>2. s[1] \in V
              BY <5>1, <1>1
            <6> QED
              BY <5>1, <6>1, <6>2, <1>3
          <5>2. CASE i # 1
            <6>1. i - 1 \in 1..m
              BY <1>1, <5>2
            <6> QED
              BY <5>2, <6>1, <1>7
          <5> QED
            BY <5>1, <5>2
        <4> QED
          BY <4>1
      <3>2. IsFlat(h)
        BY <3>1
      <3>3. FlattenSeq(s) = h[m]
        BY <2>2 DEF FlattenSeq, m
      <3> HIDE DEF h
      <3> DEFINE T == {n \in 0..m : n = 0 \/ h[n] = f[n]}
      <3>4. 0 \in T
        BY <1>1
      <3>5. ASSUME NEW n \in 1..m, n - 1 \in T
            PROVE  n \in T
        <4>1. n \in 0..m
          BY <1>1
        <4>2. h[n] = IF n = 1 THEN s[n] ELSE h[n - 1] \o s[n]
          BY <3>2
        <4>3. CASE n = 1
          <5>3. 1 \in 1..m /\ 1 - 1 = 0
            BY <4>3
          <5>4. f[1] = f[1 - 1] \o s[1] /\ s[1] \in V
            BY <1>1, <1>7, <5>3
          <5>1. f[1] = <<>> \o s[1] /\ s[1] \in V
            BY <1>8, <5>3, <5>4
          <5>2. h[1] = f[1]
            BY <4>2, <4>3, <5>1, <1>3
          <5> QED
            BY <4>1, <4>3, <5>2
        <4>4. CASE n # 1
          <5>1. n - 1 # 0
            BY <1>1, <4>4
          <5>2. h[n - 1] = f[n - 1]
            BY <3>5, <5>1
          <5>3. h[n] = f[n]
            BY <4>2, <4>4, <5>2, <1>7
          <5> QED
            BY <4>1, <5>3
        <4> QED
          BY <4>3, <4>4
      <3> HIDE DEF T
      <3>6. 0..m \subseteq T
        BY <1>1, <3>4, <3>5, Induction
      <3>7. m \in T
        BY <1>1, <3>6
      <3> QED
        BY <2>2, <3>3, <3>7 DEF T
    <2> QED
      BY <2>1, <2>2
  <1>10. Joins(f, s, V)
    BY <1>7, <1>8, <1>9 DEF Joins, m, V
  <1> QED
    BY <1>10 DEF V

(* Where the parts of s lie in FlattenSeq(s): part n behind place o[n - 1]. *)
IsOffset(o, s) ==
  /\ o \in [0..Len(s) -> Nat] /\ o[0] = 0
  /\ \A n \in 1..Len(s) : o[n] = o[n - 1] + Len(s[n])
  /\ FlattenSeq(s) \in Text /\ Len(FlattenSeq(s)) = o[Len(s)]
  /\ \A n \in 1..Len(s) : \A k \in 1..Len(s[n]) : FlattenSeq(s)[o[n - 1] + k] = s[n][k]
  /\ \A n \in 1..Len(s) : o[n] <= o[Len(s)]
  /\ \A q \in 1..o[Len(s)] : \E n \in 1..Len(s) : \E k \in 1..Len(s[n]) : q = o[n - 1] + k

Offset(s) == CHOOSE o : IsOffset(o, s)

(* Every sequence of texts has its offsets.                                *)
LEMMA OffsetFacts ==
  ASSUME NEW s \in Seq(Text)
  PROVE  IsOffset(Offset(s), s)
  <1>1. PICK f : Joins(f, s, Text)
    BY JoinsExist DEF Text
  <1> DEFINE m == Len(s)
             o == [n \in 0..m |-> Len(f[n])]
  <1>2. m \in Nat /\ \A n \in 1..m : s[n] \in Text
    BY LenProperties, ElementOfSeq
  <1>3. /\ f \in [0..m -> Text] /\ f[0] = <<>>
        /\ \A n \in 1..m : f[n] = f[n - 1] \o s[n]
        /\ FlattenSeq(s) = f[m]
    BY <1>1 DEF Joins
  <1> HIDE DEF m
  <1>4. \A n \in 0..m : f[n] \in Text /\ Len(f[n]) \in Nat
    BY <1>3, LenProperties DEF Text
  <1>5. o \in [0..m -> Nat] /\ \A n \in 0..m : o[n] = Len(f[n])
    BY <1>4
  <1> HIDE DEF o
  <1>6. o[0] = 0
    BY <1>2, <1>3, <1>5, EmptySeq
  <1>7. ASSUME NEW n \in 1..m
        PROVE  /\ n - 1 \in 0..m /\ n \in 0..m /\ Len(s[n]) \in Nat
               /\ o[n - 1] \in Nat /\ o[n] \in Nat /\ o[n] = o[n - 1] + Len(s[n])
               /\ \A q \in 1..o[n - 1] : f[n][q] = f[n - 1][q]
               /\ \A k \in 1..Len(s[n]) : f[n][o[n - 1] + k] = s[n][k]
    <2>1. n - 1 \in 0..m /\ n \in 0..m
      BY <1>2
    <2>2. s[n] \in Text /\ f[n - 1] \in Text /\ f[n] = f[n - 1] \o s[n]
      BY <1>2, <1>3, <1>4, <2>1
    <2>3. o[n - 1] = Len(f[n - 1]) /\ o[n] = Len(f[n])
      BY <1>5, <2>1
    <2>4. Len(f[n - 1]) \in Nat /\ Len(s[n]) \in Nat
      BY <2>2, LenProperties DEF Text
    <2> DEFINE a == f[n - 1]
               b == s[n]
    <2>5. a \in Text /\ b \in Text /\ Len(a) \in Nat /\ Len(b) \in Nat /\ f[n] = a \o b
      BY <2>2, <2>4
    <2> HIDE DEF a, b
    <2>6. /\ Len(a \o b) = Len(a) + Len(b)
          /\ \A q \in 1..(Len(a) + Len(b)) :
               (a \o b)[q] = IF q <= Len(a) THEN a[q] ELSE b[q - Len(a)]
      BY <2>5, ConcatProperties DEF Text
    <2>7. \A q \in 1..Len(a) : (a \o b)[q] = a[q]
      BY <2>5, <2>6
    <2>8. ASSUME NEW k \in 1..Len(b)
          PROVE  (a \o b)[Len(a) + k] = b[k]
      <3>1. /\ Len(a) + k \in 1..(Len(a) + Len(b)) /\ ~(Len(a) + k <= Len(a))
            /\ Len(a) + k - Len(a) = k
        BY <2>5
      <3> QED
        BY <2>6, <3>1
    <2>9. Len(a) = o[n - 1] /\ Len(a \o b) = o[n] /\ a = f[n - 1] /\ b = s[n]
      BY <2>3, <2>5 DEF a, b
    <2>13. Len(a) + Len(b) \in Nat /\ Len(a \o b) = Len(a) + Len(b)
      BY <2>5, <2>6
    <2>10. /\ Len(s[n]) \in Nat /\ o[n - 1] \in Nat /\ o[n] \in Nat
           /\ o[n] = o[n - 1] + Len(s[n])
      BY ONLY <2>5, <2>9, <2>13
    <2>11. \A q \in 1..o[n - 1] : f[n][q] = f[n - 1][q]
      BY <2>5, <2>7, <2>9
    <2>12. \A k \in 1..Len(s[n]) : f[n][o[n - 1] + k] = s[n][k]
      BY <2>5, <2>8, <2>9
    <2> QED
      BY <2>1, <2>10, <2>11, <2>12
  <1> DEFINE Right(n) ==
               /\ \A j \in 1..n : o[j] <= o[n]
               /\ \A j \in 1..n : \A k \in 1..Len(s[j]) : f[n][o[j - 1] + k] = s[j][k]
               /\ \A q \in 1..o[n] : \E j \in 1..n : \E k \in 1..Len(s[j]) : q = o[j - 1] + k
             T == {n \in 0..m : Right(n)}
  <1>8. 0 \in T
    <2>1. 0 \in 0..m /\ \A q \in 1..o[0] : FALSE
      BY <1>2, <1>6
    <2>2. \A q \in 1..0 : FALSE
      OBVIOUS
    <2> QED
      BY <2>1, <2>2
  <1>9. ASSUME NEW n \in 1..m, n - 1 \in T
        PROVE  n \in T
    <2>1. Right(n - 1)
      BY <1>9
    <2>2. /\ n - 1 \in 0..m /\ n \in 0..m /\ Len(s[n]) \in Nat
          /\ o[n - 1] \in Nat /\ o[n] \in Nat /\ o[n] = o[n - 1] + Len(s[n])
          /\ \A q \in 1..o[n - 1] : f[n][q] = f[n - 1][q]
          /\ \A k \in 1..Len(s[n]) : f[n][o[n - 1] + k] = s[n][k]
      BY <1>7
    <2>3. n \in Nat /\ n > 0 /\ n \in 1..n
      BY <1>2
    <2>4. ASSUME NEW j \in 1..n
          PROVE  o[j] <= o[n]
      <3>1. CASE j = n
        BY <2>2, <3>1
      <3>2. CASE j # n
        <4>1. j \in 1..(n - 1) /\ j \in 0..m
          BY <1>2, <2>3, <3>2
        <4>2. o[j] <= o[n - 1] /\ o[j] \in Nat
          BY <2>1, <4>1, <1>5
        <4> QED
          BY <2>2, <4>2
      <3> QED
        BY <3>1, <3>2
    <2>5. ASSUME NEW j \in 1..n, NEW k \in 1..Len(s[j])
          PROVE  f[n][o[j - 1] + k] = s[j][k]
      <3>1. CASE j = n
        BY <2>2, <3>1
      <3>2. CASE j # n
        <4>1. j \in 1..(n - 1) /\ j \in 1..m
          BY <1>2, <2>3, <3>2
        <4>2. /\ o[j - 1] \in Nat /\ o[j] = o[j - 1] + Len(s[j]) /\ Len(s[j]) \in Nat
              /\ o[j] \in Nat
          BY <1>7, <4>1
        <4>3. o[j] <= o[n - 1]
          BY <2>1, <4>1
        <4>4. o[j - 1] + k \in 1..o[n - 1]
          <5> DEFINE u == o[j - 1]
                     c == Len(s[j])
                     x == o[j]
                     y == o[n - 1]
          <5>1. u \in Nat /\ c \in Nat /\ x = u + c /\ x <= y /\ y \in Nat /\ k \in 1..c
            BY <2>2, <4>2, <4>3
          <5> HIDE DEF u, c, x, y
          <5>2. u + k \in 1..y
            BY ONLY <5>1
          <5> QED
            BY <5>2 DEF u, y
        <4>5. f[n - 1][o[j - 1] + k] = s[j][k]
          BY <2>1, <4>1
        <4> QED
          BY <2>2, <4>4, <4>5
      <3> QED
        BY <3>1, <3>2
    <2>6. ASSUME NEW q \in 1..o[n]
          PROVE  \E j \in 1..n : \E k \in 1..Len(s[j]) : q = o[j - 1] + k
      <3>1. CASE q <= o[n - 1]
        <4>1. q \in 1..o[n - 1]
          BY <2>2, <3>1
        <4>2. PICK j \in 1..(n - 1) : \E k \in 1..Len(s[j]) : q = o[j - 1] + k
          BY <2>1, <4>1
        <4>3. j \in 1..n
          BY <2>3
        <4> QED
          BY <4>2, <4>3
      <3>2. CASE ~(q <= o[n - 1])
        <4>1. q - o[n - 1] \in 1..Len(s[n]) /\ q = o[n - 1] + (q - o[n - 1])
          BY <2>2, <3>2
        <4> QED
          BY <2>3, <4>1
      <3> QED
        BY <3>1, <3>2
    <2>7. Right(n)
      BY <2>4, <2>5, <2>6
    <2> QED
      BY <2>2, <2>7
  <1> HIDE DEF T
  <1>10. 0..m \subseteq T
    BY <1>2, <1>8, <1>9, Induction
  <1>11. m \in T
    BY <1>2, <1>10
  <1>12. Right(m)
    BY <1>11 DEF T
  <1>13. \A n \in 1..m : o[n] = o[n - 1] + Len(s[n])
    BY <1>7
  <1>14. m \in 0..m
    BY <1>2
  <1>15. f[m] \in Text /\ Len(f[m]) = o[m]
    BY <1>4, <1>5, <1>14
  <1>16. IsOffset(o, s)
    BY <1>3, <1>5, <1>6, <1>12, <1>13, <1>15 DEF IsOffset, m
  <1> QED
    BY <1>16 DEF Offset

(* The lexemes of one pair. *)
Lexed(pair) == <<pair.key>> \o pair.val \o <<",">>

(* l begins with x and v, and holds nothing but those and y.               *)
Framed(l, x, v, y) ==
  /\ l \in Text /\ Len(l) \in Nat
  /\ Len(l) >= 2 /\ l[1] = x
  /\ l[2] = IF v = <<>> THEN y ELSE v[1]
  /\ \A k \in 1..Len(l) : l[k] \in {x, y} \cup ToSet(v)

(* A sequence of one, a text and one more is framed.                       *)
LEMMA FramedFacts ==
  ASSUME NEW x \in Piece, NEW v \in Text, NEW y \in Piece
  PROVE  Framed(<<x>> \o v \o <<y>>, x, v, y)
  <1> DEFINE a == <<x>>
             c == <<y>>
             w == a \o v
  <1>1. /\ a \in Text /\ c \in Text /\ Len(a) = 1 /\ Len(c) = 1
        /\ a[1] = x /\ c[1] = y
    BY DEF Text
  <1>2. Len(v) \in Nat /\ (v = <<>> <=> Len(v) = 0) /\ \A k \in 1..Len(v) : v[k] \in ToSet(v)
    BY EmptySeq, LenProperties DEF ToSet, Text
  <1> HIDE DEF a, c
  <1>3. /\ w \in Text /\ Len(w) = 1 + Len(v)
        /\ \A k \in 1..(1 + Len(v)) : w[k] = IF k <= 1 THEN a[k] ELSE v[k - 1]
    <2>1. /\ w \in Text /\ Len(w) = Len(a) + Len(v)
          /\ \A k \in 1..(Len(a) + Len(v)) : w[k] = IF k <= Len(a) THEN a[k] ELSE v[k - Len(a)]
      BY <1>1, ConcatProperties DEF Text
    <2> HIDE DEF w
    <2> QED
      BY ONLY <1>1, <2>1
  <1> HIDE DEF w
  <1> DEFINE l == w \o c
  <1>4. /\ l \in Text /\ Len(l) = 2 + Len(v)
        /\ \A k \in 1..(2 + Len(v)) : l[k] = IF k <= 1 + Len(v) THEN w[k] ELSE c[k - (1 + Len(v))]
    <2>1. Len(w) \in Nat /\ Len(w) + Len(c) = 2 + Len(v)
      BY <1>1, <1>2, <1>3
    <2>2. /\ l \in Text /\ Len(l) = Len(w) + Len(c)
          /\ \A k \in 1..(Len(w) + Len(c)) : l[k] = IF k <= Len(w) THEN w[k] ELSE c[k - Len(w)]
      BY <1>1, <1>3, ConcatProperties DEF Text
    <2> HIDE DEF l
    <2> QED
      BY ONLY <1>1, <1>3, <2>1, <2>2
  <1>5. <<x>> \o v \o <<y>> = l
    BY DEF w, a, c
  <1> HIDE DEF l
  <1>7. l[1] = x
    <2>1. 1 \in 1..(2 + Len(v)) /\ 1 <= 1 + Len(v) /\ 1 \in 1..(1 + Len(v))
      BY <1>2
    <2> QED
      BY <1>1, <1>3, <1>4, <2>1
  <1>8. l[2] = IF v = <<>> THEN y ELSE v[1]
    <2>1. 2 \in 1..(2 + Len(v))
      BY <1>2
    <2>2. CASE Len(v) = 0
      <3>1. l[2] = c[2 - (1 + Len(v))] /\ 2 - (1 + Len(v)) = 1
        BY <1>4, <2>1, <2>2
      <3> QED
        BY <1>1, <1>2, <2>2, <3>1
    <2>3. CASE Len(v) # 0
      <3>1. 2 <= 1 + Len(v) /\ 2 \in 1..(1 + Len(v))
        BY <1>2, <2>3
      <3>2. l[2] = w[2] /\ w[2] = v[2 - 1]
        BY <1>3, <1>4, <2>1, <3>1
      <3> QED
        BY <1>2, <2>3, <3>2
    <2> QED
      BY <2>2, <2>3
  <1>9. ASSUME NEW k \in 1..(2 + Len(v))
        PROVE  l[k] \in {x, y} \cup ToSet(v)
    <2>1. CASE k <= 1 + Len(v)
      <3>1. k \in 1..(1 + Len(v)) /\ l[k] = w[k]
        BY <1>2, <1>4, <2>1
      <3>2. CASE k = 1
        BY <1>7, <3>2
      <3>3. CASE k # 1
        <4>1. ~(k <= 1) /\ k - 1 \in 1..Len(v)
          BY <1>2, <3>1, <3>3
        <4>2. l[k] = v[k - 1]
          BY <1>3, <3>1, <4>1
        <4> QED
          BY <1>2, <4>1, <4>2
      <3> QED
        BY <3>2, <3>3
    <2>2. CASE ~(k <= 1 + Len(v))
      <3>1. k - (1 + Len(v)) = 1
        BY <1>2, <2>2
      <3>2. l[k] = c[1]
        BY <1>4, <2>2, <3>1
      <3> QED
        BY <1>1, <3>2
    <2> QED
      BY <2>1, <2>2
  <1>10. Len(l) \in Nat /\ Len(l) >= 2
    BY <1>2, <1>4
  <1>11. \A k \in 1..Len(l) : l[k] \in {x, y} \cup ToSet(v)
    BY <1>4, <1>9
  <1>12. Framed(l, x, v, y)
    BY <1>4, <1>7, <1>8, <1>10, <1>11 DEF Framed
  <1> QED
    BY <1>5, <1>12

(* The key of a pair, then its value if there is one, then a comma.        *)
LEMMA LexedFacts ==
  ASSUME NEW pair \in APair
  PROVE  /\ Lexed(pair) \in Text /\ Len(Lexed(pair)) \in Nat
         /\ Len(Lexed(pair)) >= 2 /\ Lexed(pair)[1] = pair.key
         /\ Lexed(pair)[2] = IF pair.val = <<>> THEN Comma ELSE pair.val[1]
         /\ \A k \in 1..Len(Lexed(pair)) :
              Lexed(pair)[k] \in {pair.key, Comma} \cup ToSet(pair.val)
  <1> DEFINE v == pair.val
  <1>1. pair.key \in STRING /\ v \in Seq(STRING)
    BY DEF APair
  <1> HIDE DEF v
  <1>4. STRING \subseteq Piece /\ Comma \in Piece
    BY DEF Piece
  <1>5. Len(v) \in Nat /\ v = [k \in 1..Len(v) |-> v[k]] /\ \A k \in 1..Len(v) : v[k] \in Piece
    BY <1>1, <1>4, LenProperties, ElementOfSeq
  <1>6. [k \in 1..Len(v) |-> v[k]] \in Seq(Piece)
    BY <1>5, IsASeq
  <1>2. pair.key \in Piece /\ Comma \in Piece /\ pair.val \in Text
    BY <1>1, <1>4, <1>5, <1>6 DEF v, Text
  <1>3. Lexed(pair) = <<pair.key>> \o pair.val \o <<Comma>>
    BY DEF Lexed, Comma
  <1>7. Framed(Lexed(pair), pair.key, pair.val, Comma)
    BY <1>2, <1>3, FramedFacts
  <1> QED
    BY <1>7 DEF Framed

(* What pairs are as a text: nothing but their keys, values and commas,    *)
(* each key with the first lexeme of its value behind it.                  *)
LEMMA LexemesFacts ==
  ASSUME NEW pairs \in Seq(APair)
  PROVE  /\ Lexemes(pairs) \in Text /\ Len(Lexemes(pairs)) \in Nat
         /\ \A q \in 1..Len(Lexemes(pairs)) : \E n \in 1..Len(pairs) :
              Lexemes(pairs)[q] \in {pairs[n].key, Comma} \cup ToSet(pairs[n].val)
         /\ \A n \in 1..Len(pairs) : \E q \in 1..Len(Lexemes(pairs)) :
              /\ q + 1 <= Len(Lexemes(pairs)) /\ Lexemes(pairs)[q] = pairs[n].key
              /\ Lexemes(pairs)[q + 1] = IF pairs[n].val = <<>> THEN Comma ELSE pairs[n].val[1]
  <1> DEFINE m == Len(pairs)
             s == [j \in 1..m |-> Lexed(pairs[j])]
             l == FlattenSeq(s)
  <1>1. m \in Nat /\ \A n \in 1..m : pairs[n] \in APair
    BY LenProperties, ElementOfSeq
  <1>2. \A n \in 1..m : Lexed(pairs[n]) \in Text
    BY <1>1, LexedFacts
  <1>3. Lexemes(pairs) = l
    BY DEF Lexemes, Lexed
  <1> HIDE DEF l, m
  <1>4. s \in Seq(Text) /\ Len(s) = m
    BY <1>1, <1>2, IsASeq
  <1>5. \A n \in 1..m : s[n] = Lexed(pairs[n])
    OBVIOUS
  <1> HIDE DEF s
  <1> DEFINE o == Offset(s)
  <1>6. IsOffset(o, s)
    BY <1>4, OffsetFacts
  <1> HIDE DEF o
  <1>7. /\ o \in [0..m -> Nat] /\ l \in Text /\ Len(l) = o[m] /\ o[m] \in Nat
        /\ \A n \in 1..m : o[n] = o[n - 1] + Len(s[n]) /\ o[n] <= o[m]
        /\ \A n \in 1..m : \A k \in 1..Len(s[n]) : l[o[n - 1] + k] = s[n][k]
        /\ \A q \in 1..o[m] : \E n \in 1..m : \E k \in 1..Len(s[n]) : q = o[n - 1] + k
    BY <1>1, <1>4, <1>6 DEF IsOffset, l
  <1>8. ASSUME NEW q \in 1..o[m]
        PROVE  \E n \in 1..m : l[q] \in {pairs[n].key, Comma} \cup ToSet(pairs[n].val)
    <2>1. PICK n \in 1..m : \E k \in 1..Len(s[n]) : q = o[n - 1] + k
      BY <1>7
    <2>2. PICK k \in 1..Len(s[n]) : q = o[n - 1] + k
      BY <2>1
    <2>3. l[q] = s[n][k]
      BY <1>7, <2>2
    <2>4. l[q] = Lexed(pairs[n])[k] /\ k \in 1..Len(Lexed(pairs[n]))
      BY <1>5, <2>2, <2>3
    <2>5. pairs[n] \in APair
      BY <1>1
    <2> QED
      BY <2>4, <2>5, LexedFacts
  <1>9. ASSUME NEW n \in 1..m
        PROVE  \E q \in 1..o[m] :
                 /\ q + 1 <= o[m] /\ l[q] = pairs[n].key
                 /\ l[q + 1] = IF pairs[n].val = <<>> THEN Comma ELSE pairs[n].val[1]
    <2> DEFINE x == Lexed(pairs[n])
               b == o[n - 1]
    <2>1. /\ Len(x) \in Nat /\ Len(x) >= 2 /\ x[1] = pairs[n].key
          /\ x[2] = IF pairs[n].val = <<>> THEN Comma ELSE pairs[n].val[1]
      BY <1>1, LexedFacts
    <2>2. n - 1 \in 0..m /\ n \in 0..m
      BY <1>1
    <2>3. /\ b \in Nat /\ b + Len(x) <= o[m] /\ \A k \in 1..Len(x) : l[b + k] = x[k]
      <3>1. b \in Nat
        BY <1>7, <2>2
      <3>2. o[n] = b + Len(x) /\ o[n] <= o[m]
        BY <1>5, <1>7
      <3>3. \A k \in 1..Len(x) : l[b + k] = x[k]
        BY <1>5, <1>7
      <3> QED
        BY <3>1, <3>2, <3>3
    <2> HIDE DEF x, b
    <2>4. b + 1 \in 1..o[m] /\ (b + 1) + 1 <= o[m] /\ (b + 1) + 1 = b + 2
      BY <1>7, <2>1, <2>3
    <2>5. 1 \in 1..Len(x) /\ 2 \in 1..Len(x)
      BY <2>1
    <2>6. l[b + 1] = x[1] /\ l[b + 2] = x[2]
      BY <2>3, <2>5
    <2>7. l[b + 1] = pairs[n].key
          /\ l[(b + 1) + 1] = IF pairs[n].val = <<>> THEN Comma ELSE pairs[n].val[1]
      BY <2>1, <2>4, <2>6
    <2> QED
      BY <2>4, <2>7
  <1> QED
    BY <1>3, <1>7, <1>8, <1>9 DEF m

(* Two texts, one behind the other.                                        *)
LEMMA Glue ==
  ASSUME NEW a \in Text, NEW b \in Text
  PROVE  /\ a \o b \in Text /\ Len(a \o b) = Len(a) + Len(b)
         /\ Len(a) \in Nat /\ Len(b) \in Nat
         /\ \A k \in 1..Len(a) : (a \o b)[k] = a[k]
         /\ \A k \in 1..Len(b) : (a \o b)[Len(a) + k] = b[k]
  <1>1. Len(a) \in Nat /\ Len(b) \in Nat
    BY LenProperties DEF Text
  <1>2. /\ a \o b \in Text /\ Len(a \o b) = Len(a) + Len(b)
        /\ \A q \in 1..(Len(a) + Len(b)) :
             (a \o b)[q] = IF q <= Len(a) THEN a[q] ELSE b[q - Len(a)]
    BY ConcatProperties DEF Text
  <1>3. \A k \in 1..Len(a) : (a \o b)[k] = a[k]
    BY <1>1, <1>2
  <1>4. ASSUME NEW k \in 1..Len(b)
        PROVE  (a \o b)[Len(a) + k] = b[k]
    <2>1. /\ Len(a) + k \in 1..(Len(a) + Len(b)) /\ ~(Len(a) + k <= Len(a))
          /\ Len(a) + k - Len(a) = k
      BY <1>1
    <2> QED
      BY <1>2, <2>1
  <1> QED
    BY <1>1, <1>2, <1>3, <1>4

(* f is five parts, one behind the other. *)
Glued(f, a, b, c, d, e) ==
  /\ f \in Text
  /\ Len(f) = Len(a) + Len(b) + Len(c) + Len(d) + Len(e)
  /\ \A k \in 1..Len(a) : f[k] = a[k]
  /\ \A k \in 1..Len(b) : f[Len(a) + k] = b[k]
  /\ \A k \in 1..Len(c) : f[Len(a) + Len(b) + k] = c[k]
  /\ \A k \in 1..Len(d) : f[Len(a) + Len(b) + Len(c) + k] = d[k]
  /\ \A k \in 1..Len(e) : f[Len(a) + Len(b) + Len(c) + Len(d) + k] = e[k]

(* Five texts, one behind the other.                                       *)
LEMMA GlueFive ==
  ASSUME NEW a \in Text, NEW b \in Text, NEW c \in Text, NEW d \in Text, NEW e \in Text,
         NEW f, f = a \o b \o c \o d \o e
  PROVE  Glued(f, a, b, c, d, e)
  <1> DEFINE g == a \o b
             h == g \o c
             j == h \o d
  <1>1. /\ g \in Text /\ Len(g) = Len(a) + Len(b) /\ Len(a) \in Nat /\ Len(b) \in Nat
        /\ \A k \in 1..Len(a) : g[k] = a[k]
        /\ \A k \in 1..Len(b) : g[Len(a) + k] = b[k]
    BY Glue
  <1> HIDE DEF g
  <1>2. /\ h \in Text /\ Len(h) = Len(g) + Len(c) /\ Len(c) \in Nat
        /\ \A k \in 1..Len(g) : h[k] = g[k]
        /\ \A k \in 1..Len(c) : h[Len(g) + k] = c[k]
    BY <1>1, Glue
  <1> HIDE DEF h
  <1>3. /\ j \in Text /\ Len(j) = Len(h) + Len(d) /\ Len(d) \in Nat
        /\ \A k \in 1..Len(h) : j[k] = h[k]
        /\ \A k \in 1..Len(d) : j[Len(h) + k] = d[k]
    BY <1>2, Glue
  <1> HIDE DEF j
  <1>4. f = j \o e
    BY DEF g, h, j
  <1>12. j \in Text
    BY <1>3
  <1>5. /\ f \in Text /\ Len(f) = Len(j) + Len(e) /\ Len(e) \in Nat
        /\ \A k \in 1..Len(j) : f[k] = j[k]
        /\ \A k \in 1..Len(e) : f[Len(j) + k] = e[k]
    BY <1>12, <1>4, Glue
  <1>6. ASSUME NEW k \in 1..Len(a)
        PROVE  f[k] = a[k]
    <2>1. k \in 1..Len(g) /\ k \in 1..Len(h) /\ k \in 1..Len(j)
      BY <1>1, <1>2, <1>3
    <2> QED
      BY <1>1, <1>2, <1>3, <1>5, <2>1
  <1>7. ASSUME NEW k \in 1..Len(b)
        PROVE  f[Len(a) + k] = b[k]
    <2> DEFINE q == Len(a) + k
    <2>1. q \in 1..Len(g) /\ q \in 1..Len(h) /\ q \in 1..Len(j)
      BY <1>1, <1>2, <1>3
    <2>2. g[q] = b[k]
      BY <1>1
    <2> HIDE DEF q
    <2>3. f[q] = b[k]
      BY <1>2, <1>3, <1>5, <2>1, <2>2
    <2> QED
      BY <2>3 DEF q
  <1>8. ASSUME NEW k \in 1..Len(c)
        PROVE  f[Len(a) + Len(b) + k] = c[k]
    <2> DEFINE q == Len(a) + Len(b) + k
    <2>1. q \in 1..Len(h) /\ q \in 1..Len(j)
      BY <1>1, <1>2, <1>3
    <2>2. h[q] = c[k]
      BY <1>1, <1>2
    <2> HIDE DEF q
    <2>3. f[q] = c[k]
      BY <1>3, <1>5, <2>1, <2>2
    <2> QED
      BY <2>3 DEF q
  <1>9. ASSUME NEW k \in 1..Len(d)
        PROVE  f[Len(a) + Len(b) + Len(c) + k] = d[k]
    <2> DEFINE q == Len(a) + Len(b) + Len(c) + k
    <2>1. q \in 1..Len(j)
      BY <1>1, <1>2, <1>3
    <2>2. j[q] = d[k]
      BY <1>1, <1>2, <1>3
    <2> HIDE DEF q
    <2>3. f[q] = d[k]
      BY <1>5, <2>1, <2>2
    <2> QED
      BY <2>3 DEF q
  <1>10. \A k \in 1..Len(e) : f[Len(a) + Len(b) + Len(c) + Len(d) + k] = e[k]
    BY <1>1, <1>2, <1>3, <1>5
  <1>11. Len(f) = Len(a) + Len(b) + Len(c) + Len(d) + Len(e)
    BY <1>1, <1>2, <1>3, <1>5
  <1> QED
    BY <1>5, <1>6, <1>7, <1>8, <1>9, <1>10, <1>11 DEF Glued

Parts(t) == [j \in 1..Len(t.txs) |-> Lexemes(t.txs[j])]

(* Where transaction j of t ends in the file; where the first one begins,  *)
(* for 0: at the bracket.                                                  *)
TxEnd(t, j) == Len(Lexemes(t.head)) + 2 + Offset(Parts(t))[j]

(* The file is the head, a key and a bracket, the transactions one behind  *)
(* the other, a bracket and a comma, and the tail.                         *)
LEMMA FileFacts ==
  ASSUME NEW t \in Templates
  PROVE  LET m == Len(t.txs)
             h == Len(Lexemes(t.head))
         IN  /\ t.head \in Seq(APair) /\ t.tail \in Seq(APair) /\ m \in Nat /\ h \in Nat
             /\ \A j \in 1..m : t.txs[j] \in Seq(APair)
             /\ File(t) \in Text /\ TxEnd(t, 0) = h + 2
             /\ \A k \in 1..h : File(t)[k] = Lexemes(t.head)[k]
             /\ File(t)[h + 1] = Transactions /\ File(t)[h + 2] = Open
             /\ \A j \in 0..m : TxEnd(t, j) \in Nat
             /\ \A j \in 1..m :
                  /\ TxEnd(t, j) = TxEnd(t, j - 1) + Len(Lexemes(t.txs[j]))
                  /\ TxEnd(t, j) <= TxEnd(t, m)
                  /\ \A k \in 1..Len(Lexemes(t.txs[j])) :
                       File(t)[TxEnd(t, j - 1) + k] = Lexemes(t.txs[j])[k]
             /\ Len(File(t)) = TxEnd(t, m) + 2 + Len(Lexemes(t.tail))
             /\ File(t)[TxEnd(t, m) + 1] = Close /\ File(t)[TxEnd(t, m) + 2] = Comma
             /\ \A k \in 1..Len(Lexemes(t.tail)) :
                  File(t)[TxEnd(t, m) + 2 + k] = Lexemes(t.tail)[k]
  <1> DEFINE m == Len(t.txs)
             hd == Lexemes(t.head)
             x == <<Transactions, Open>>
             s == Parts(t)
             b == FlattenSeq(s)
             y == <<Close, Comma>>
             tl == Lexemes(t.tail)
             f == File(t)
             o == Offset(s)
             h == Len(hd)
  <1>1. t.head \in Seq(APair) /\ t.tail \in Seq(APair) /\ t.txs \in Seq(Seq(APair))
    BY TemplatesAssumption
  <1>2. m \in Nat /\ \A j \in 1..m : t.txs[j] \in Seq(APair)
    BY <1>1, LenProperties, ElementOfSeq
  <1>3. hd \in Text /\ tl \in Text /\ h \in Nat /\ Len(tl) \in Nat
    BY <1>1, LexemesFacts
  <1>4. \A j \in 1..m : Lexemes(t.txs[j]) \in Text /\ Len(Lexemes(t.txs[j])) \in Nat
    BY <1>2, LexemesFacts
  <1>5. s \in Seq(Text) /\ Len(s) = m /\ \A j \in 1..m : s[j] = Lexemes(t.txs[j])
    <2>1. s = [j \in 1..m |-> Lexemes(t.txs[j])]
      BY DEF Parts
    <2> HIDE DEF s, m
    <2> QED
      BY <1>2, <1>4, <2>1, IsASeq
  <1>6. IsOffset(o, s)
    BY <1>5, OffsetFacts
  <1>7. x \in Text /\ y \in Text /\ Len(x) = 2 /\ Len(y) = 2
        /\ x[1] = Transactions /\ x[2] = Open /\ y[1] = Close /\ y[2] = Comma
    BY DEF Text, Piece
  <1>8. f = hd \o x \o b \o y \o tl
    BY DEF File, Parts, Transactions, Open, Close, Comma
  <1>9. \A j : TxEnd(t, j) = h + 2 + o[j]
    BY DEF TxEnd
  <1> HIDE DEF m, hd, x, s, y, tl, f, o
  <1>10. /\ o \in [0..m -> Nat] /\ o[0] = 0 /\ b \in Text /\ Len(b) = o[m] /\ o[m] \in Nat
         /\ \A j \in 1..m : o[j] = o[j - 1] + Len(s[j]) /\ o[j] <= o[m]
         /\ \A j \in 1..m : \A k \in 1..Len(s[j]) : b[o[j - 1] + k] = s[j][k]
    BY <1>2, <1>5, <1>6 DEF IsOffset
  <1> HIDE DEF b
  <1>20. Glued(f, hd, x, b, y, tl)
    BY <1>3, <1>7, <1>8, <1>10, GlueFive
  <1>11. /\ f \in Text
         /\ Len(f) = Len(hd) + Len(x) + Len(b) + Len(y) + Len(tl)
         /\ \A k \in 1..Len(hd) : f[k] = hd[k]
         /\ \A k \in 1..Len(x) : f[Len(hd) + k] = x[k]
         /\ \A k \in 1..Len(b) : f[Len(hd) + Len(x) + k] = b[k]
         /\ \A k \in 1..Len(y) : f[Len(hd) + Len(x) + Len(b) + k] = y[k]
         /\ \A k \in 1..Len(tl) : f[Len(hd) + Len(x) + Len(b) + Len(y) + k] = tl[k]
    BY <1>20 DEF Glued
  <1> DEFINE e == h + 2 + o[m]
  <1>12. /\ e \in Nat /\ Len(hd) + Len(x) = h + 2 /\ Len(hd) + Len(x) + Len(b) = e
         /\ Len(hd) + Len(x) + Len(b) + Len(y) = e + 2
    BY <1>3, <1>7, <1>10
  <1>13. 1 \in 1..Len(x) /\ 2 \in 1..Len(x) /\ 1 \in 1..Len(y) /\ 2 \in 1..Len(y)
    BY <1>7
  <1>14. f[h + 1] = Transactions /\ f[h + 2] = Open
    BY <1>7, <1>11, <1>13
  <1>15. f[e + 1] = Close /\ f[e + 2] = Comma
    BY <1>7, <1>11, <1>12, <1>13
  <1>16. Len(f) = e + 2 + Len(tl) /\ \A k \in 1..Len(tl) : f[e + 2 + k] = tl[k]
    BY <1>11, <1>12
  <1> HIDE DEF e
  <1>17. ASSUME NEW j \in 1..m
         PROVE  /\ TxEnd(t, j) = TxEnd(t, j - 1) + Len(s[j])
                /\ TxEnd(t, j) <= TxEnd(t, m)
                /\ \A k \in 1..Len(s[j]) : f[TxEnd(t, j - 1) + k] = s[j][k]
    <2>1. j - 1 \in 0..m /\ j \in 0..m
      BY <1>2
    <2>2. o[j - 1] \in Nat /\ o[j] \in Nat /\ o[j] = o[j - 1] + Len(s[j]) /\ o[j] <= o[m]
          /\ Len(s[j]) \in Nat
      BY <1>4, <1>5, <1>10, <2>1
    <2>3. ASSUME NEW k \in 1..Len(s[j])
          PROVE  f[h + 2 + o[j - 1] + k] = s[j][k]
      <3> DEFINE q == o[j - 1] + k
      <3>1. q \in 1..Len(b) /\ h + 2 + o[j - 1] + k = h + 2 + q
        <4> DEFINE u == o[j - 1]
                   w == o[j]
                   z == o[m]
                   g == Len(s[j])
        <4>1. /\ u \in Nat /\ w \in Nat /\ w = u + g /\ w <= z /\ g \in Nat /\ k \in 1..g
              /\ z \in Nat /\ h \in Nat
          BY <1>3, <1>10, <2>2
        <4> HIDE DEF u, w, z, g
        <4>2. u + k \in 1..z /\ h + 2 + u + k = h + 2 + (u + k)
          BY ONLY <4>1
        <4> QED
          BY <1>10, <4>2 DEF u, z
      <3>2. b[q] = s[j][k]
        BY <1>10
      <3> HIDE DEF q
      <3>3. f[h + 2 + q] = b[q]
        BY <1>11, <1>12, <3>1
      <3> QED
        BY <3>1, <3>2, <3>3
    <2>4. /\ TxEnd(t, j) = h + 2 + o[j] /\ TxEnd(t, j - 1) = h + 2 + o[j - 1]
          /\ TxEnd(t, m) = h + 2 + o[m]
      BY <1>9
    <2>5. TxEnd(t, j) = TxEnd(t, j - 1) + Len(s[j]) /\ TxEnd(t, j) <= TxEnd(t, m)
      <3> DEFINE u == o[j - 1]
                 w == o[j]
                 z == o[m]
                 g == Len(s[j])
      <3>1. /\ u \in Nat /\ w \in Nat /\ w = u + g /\ w <= z /\ g \in Nat
            /\ z \in Nat /\ h \in Nat
        BY <1>3, <1>10, <2>2
      <3> HIDE DEF u, w, z, g
      <3>2. h + 2 + w = h + 2 + u + g /\ h + 2 + w <= h + 2 + z
        BY ONLY <3>1
      <3> QED
        BY <2>4, <3>2 DEF u, w, z, g
    <2>6. \A k \in 1..Len(s[j]) : f[TxEnd(t, j - 1) + k] = s[j][k]
      BY <2>3, <2>4
    <2> QED
      BY <2>5, <2>6
  <1>18. \A j \in 0..m : TxEnd(t, j) \in Nat
    BY <1>3, <1>9, <1>10
  <1>19. TxEnd(t, m) = e /\ TxEnd(t, 0) = h + 2
    BY <1>3, <1>9, <1>10 DEF e
  <1>21. \A j \in 1..m :
           /\ TxEnd(t, j) = TxEnd(t, j - 1) + Len(Lexemes(t.txs[j]))
           /\ TxEnd(t, j) <= TxEnd(t, m)
           /\ \A k \in 1..Len(Lexemes(t.txs[j])) :
                f[TxEnd(t, j - 1) + k] = Lexemes(t.txs[j])[k]
    BY <1>5, <1>17
  <1>22. /\ f \in Text /\ h \in Nat /\ TxEnd(t, 0) = h + 2
         /\ (\A k \in 1..h : f[k] = hd[k])
         /\ f[h + 1] = Transactions /\ f[h + 2] = Open
         /\ Len(f) = TxEnd(t, m) + 2 + Len(tl)
         /\ f[TxEnd(t, m) + 1] = Close /\ f[TxEnd(t, m) + 2] = Comma
         /\ \A k \in 1..Len(tl) : f[TxEnd(t, m) + 2 + k] = tl[k]
    <2>1. f \in Text /\ h \in Nat
      BY <1>3, <1>11
    <2>2. \A k \in 1..h : f[k] = hd[k]
      BY <1>11 DEF h
    <2> QED
      BY <1>14, <1>15, <1>16, <1>19, <2>1, <2>2
  <1> QED
    BY <1>1, <1>2, <1>18, <1>21, <1>22 DEF m, hd, f, tl, h

(* The head of a file ends before its transactions do. *)
LEMMA HeadFirst ==
  ASSUME NEW t \in Templates
  PROVE  /\ TxEnd(t, Len(t.txs)) \in Nat
         /\ TxEnd(t, Len(t.txs)) >= Len(Lexemes(t.head)) + 2
  <1> DEFINE s == Parts(t)
             c == Len(t.txs)
             h == Len(Lexemes(t.head))
  <1>1. c \in Nat /\ h \in Nat
    BY FileFacts
  <1>2. c \in 0..c /\ 0 \in 0..c
    BY <1>1
  <1>3. TxEnd(t, c) \in Nat
    BY <1>2, FileFacts
  <1>4. Offset(s)[c] \in Nat
    <2>1. s \in Seq(Text) /\ Len(s) = c
      <3>1. \A j \in 1..c : Lexemes(t.txs[j]) \in Text
        BY FileFacts, LexemesFacts
      <3>2. s = [j \in 1..c |-> Lexemes(t.txs[j])]
        BY DEF Parts
      <3> HIDE DEF s, c
      <3> QED
        BY <1>1, <3>1, <3>2, IsASeq
    <2>2. IsOffset(Offset(s), s)
      BY <2>1, OffsetFacts
    <2> QED
      BY <1>2, <2>1, <2>2 DEF IsOffset
  <1> QED
    BY <1>1, <1>3, <1>4 DEF TxEnd

(* Every file is a text.                                                   *)
LEMMA FileText == \A t \in Templates : File(t) \in Text
  BY FileFacts

-----------------------------------------------------------------------------
(* What the helpers return *)

LEMMA MinFacts ==
  ASSUME NEW S, S \subseteq Nat, S # {}
  PROVE  Min(S) \in S /\ \A x \in S : Min(S) <= x
  <1>1. PICK x \in S : \A y \in S : ~ (<<y, x>> \in OpToRel(<, Nat))
    BY WFMin, NatLessThanWellFounded
  <1>2. ASSUME NEW y \in S
        PROVE  x <= y
    <2>1. x \in Nat /\ y \in Nat
      OBVIOUS
    <2>2. ASSUME y < x
          PROVE  <<y, x>> \in OpToRel(<, Nat)
      <3>1. <<y, x>> \in Nat \X Nat /\ <<y, x>>[1] = y /\ <<y, x>>[2] = x
        BY <2>1
      <3> QED
        BY <2>2, <3>1 DEF OpToRel
    <2>3. ~ (y < x)
      BY <1>1, <2>2
    <2> QED
      BY <2>1, <2>3
  <1> QED
    BY <1>2 DEF Min

LEMMA PlacesFacts ==
  ASSUME text \in Seq(Lexeme), NEW p \in Nat, NEW tag, Places(p, tag) # {}
  PROVE  Min(Places(p, tag)) \in p..Len(text)
  <1>1. Places(p, tag) \subseteq Nat
    BY LenProperties DEF Places
  <1>2. Min(Places(p, tag)) \in Places(p, tag)
    BY <1>1, MinFacts
  <1> QED
    BY <1>2 DEF Places

(* A value lies behind the place from which it was looked for, and inside  *)
(* the text.                                                               *)
LEMMA FindFacts ==
  ASSUME text \in Seq(Lexeme), NEW p \in Nat, NEW tag
  PROVE  /\ Find(p, tag) \in ASpan
         /\ Find(p, tag) # NoSpan =>
              /\ p < Find(p, tag).beg
              /\ Find(p, tag).beg <= Find(p, tag).end
              /\ Find(p, tag).end <= Len(text) + 1
  <1>1. Len(text) \in Nat
    BY LenProperties
  <1>2. CASE Places(p, tag) = {}
    BY <1>2 DEF Find, NoSpan, ASpan
  <1>3. CASE Places(p, tag) # {}
    <2> DEFINE k == Min(Places(p, tag))
    <2>1. k \in p..Len(text)
      BY <1>3, PlacesFacts
    <2>2. Find(p, tag) = Value(k)
      BY <1>3 DEF Find
    <2> HIDE DEF k
    <2>3. CASE k < Len(text) /\ text[k + 1] # ","
      <3>1. Value(k) = [beg |-> k + 1, end |-> k + 2]
        BY <2>3 DEF Value
      <3>2. Value(k).beg = k + 1 /\ Value(k).end = k + 2
        BY <3>1
      <3>5. k < Len(text)
        BY ONLY <2>3
      <3>3. k \in Nat /\ p <= k /\ k < Len(text)
        BY <1>1, <2>1, <3>5
      <3>4. Value(k) \in ASpan
        BY <3>1, <3>3 DEF ASpan
      <3> QED
        BY <1>1, <2>2, <3>2, <3>3, <3>4
    <2>4. CASE ~(k < Len(text) /\ text[k + 1] # ",")
      <3>1. Value(k) = [beg |-> k + 1, end |-> k + 1]
        BY <2>4 DEF Value
      <3> QED
        BY <1>1, <2>1, <2>2, <3>1 DEF ASpan
    <2> QED
      BY <2>3, <2>4
  <1> QED
    BY <1>2, <1>3

LEMMA MaxFacts ==
  ASSUME NEW a \in Nat, NEW b \in Nat, NEW c \in Nat, NEW d \in Nat
  PROVE  /\ Max({a, b, c, d}) \in {a, b, c, d}
         /\ \A x \in {a, b, c, d} : x <= Max({a, b, c, d})
  <1>1. \E x \in {a, b, c, d} : \A y \in {a, b, c, d} : x >= y
    OBVIOUS
  <1>2. /\ Max({a, b, c, d}) \in {a, b, c, d}
        /\ \A y \in {a, b, c, d} : Max({a, b, c, d}) >= y
    BY <1>1 DEF Max
  <1> QED
    BY <1>2

(* What a view that is added is: behind the place where the scan was, and  *)
(* before the one where it goes on.                                        *)
LEMMA ViewFacts ==
  ASSUME TypeOK, NoSpan \notin Spans(View(tmp))
  PROVE  /\ View(tmp) \in AView
         /\ After(View(tmp)) \in Nat /\ tmp < After(View(tmp))
         /\ tmp <= Len(text) => After(View(tmp)) <= Len(text) + 1
         /\ After(View(tmp)) = tmp \/ \E s \in Spans(View(tmp)) : After(View(tmp)) = s.end
         /\ \A s \in Spans(View(tmp)) :
              /\ tmp < s.beg /\ s.beg <= s.end
              /\ s.end <= Len(text) + 1 /\ s.end <= After(View(tmp))
  <1> DEFINE v == View(tmp)
  <1>1. text \in Seq(Lexeme) /\ tmp \in Nat /\ Len(text) \in Nat
    BY LenProperties DEF TypeOK
  <1>2. v = [data |-> Find(tmp, "data"), txid |-> Find(tmp, "txid"),
             hash |-> Find(tmp, "hash")]
    BY DEF View
  <1>3. /\ v.data = Find(tmp, "data") /\ v.txid = Find(tmp, "txid")
        /\ v.hash = Find(tmp, "hash")
    BY <1>2
  <1>4. v \in AView
    BY <1>1, <1>2, FindFacts DEF AView
  <1> HIDE DEF v
  <1>5. \A s \in Spans(v) : /\ s \in ASpan /\ tmp < s.beg /\ s.beg <= s.end
                            /\ s.end <= Len(text) + 1
    <2>1. v.data # NoSpan /\ v.txid # NoSpan /\ v.hash # NoSpan
      BY DEF Spans, v
    <2>2. \A s \in {v.data} : s \in ASpan /\ tmp < s.beg /\ s.beg <= s.end /\ s.end <= Len(text) + 1
      BY <1>1, <1>3, <2>1, FindFacts
    <2>3. \A s \in {v.txid} : s \in ASpan /\ tmp < s.beg /\ s.beg <= s.end /\ s.end <= Len(text) + 1
      BY <1>1, <1>3, <2>1, FindFacts
    <2>4. \A s \in {v.hash} : s \in ASpan /\ tmp < s.beg /\ s.beg <= s.end /\ s.end <= Len(text) + 1
      BY <1>1, <1>3, <2>1, FindFacts
    <2> QED
      BY <2>2, <2>3, <2>4 DEF Spans
  <1>6. After(v) = Max({tmp, v.data.end, v.txid.end, v.hash.end})
    <2>1. {s.end : s \in Spans(v)} = {v.data.end, v.txid.end, v.hash.end}
      BY DEF Spans
    <2>2. {tmp} \cup {s.end : s \in Spans(v)} = {tmp, v.data.end, v.txid.end, v.hash.end}
      BY <2>1
    <2> QED
      BY <2>2 DEF After
  <1>7. v.data \in Spans(v) /\ v.txid \in Spans(v) /\ v.hash \in Spans(v)
    BY DEF Spans
  <1> DEFINE a == v.data.end
             b == v.txid.end
             c == v.hash.end
             m == After(v)
  <1>8. /\ a \in Nat /\ b \in Nat /\ c \in Nat
        /\ tmp < a /\ a <= Len(text) + 1 /\ b <= Len(text) + 1 /\ c <= Len(text) + 1
    BY <1>1, <1>5, <1>7 DEF ASpan
  <1>10. \A s \in Spans(v) : s.end \in {a, b, c}
    BY DEF Spans
  <1>12. m = Max({tmp, a, b, c})
    BY <1>6
  <1> HIDE DEF a, b, c, m
  <1>9. m \in {tmp, a, b, c} /\ \A x \in {tmp, a, b, c} : x <= m
    BY <1>1, <1>8, <1>12, MaxFacts
  <1>11. /\ m \in Nat /\ tmp < m /\ (tmp <= Len(text) => m <= Len(text) + 1)
         /\ \A s \in Spans(v) : s.end <= m
    BY <1>1, <1>8, <1>9, <1>10
  <1>13. m = tmp \/ \E s \in Spans(v) : m = s.end
    BY <1>7, <1>9 DEF a, b, c
  <1> QED
    BY <1>4, <1>5, <1>11, <1>13 DEF v, m

(* Only what lies in the text is read through a span.                      *)
LEMMA WordFacts ==
  ASSUME text \in Seq(Lexeme), NEW span \in ASpan,
         span.beg < span.end => 0 < span.beg /\ span.end <= Len(text) + 1
  PROVE  Word(span) \in Lexeme
  <1>1. Len(text) \in Nat /\ span.beg \in Nat /\ span.end \in Nat
    BY LenProperties DEF ASpan
  <1>2. CASE span.beg < span.end
    <2>1. span.beg \in 1..Len(text)
      BY <1>1, <1>2
    <2>2. text[span.beg] \in Lexeme
      BY <2>1, ElementOfSeq
    <2> QED
      BY <1>2, <2>2 DEF Word
  <1>3. CASE ~ (span.beg < span.end)
    <2>1. Word(span) = ""
      BY <1>3 DEF Word
    <2>2. "" \in Lexeme
      BY DEF Lexeme
    <2> QED
      BY <2>1, <2>2
  <1> QED
    BY <1>2, <1>3

LEMMA FieldFacts ==
  ASSUME text \in Seq(Lexeme), NEW tag
  PROVE  Word(Field(tag)) \in Lexeme
  <1>1. /\ Find(1, tag) \in ASpan
        /\ Find(1, tag) # NoSpan =>
             /\ 1 < Find(1, tag).beg
             /\ Find(1, tag).end <= Len(text) + 1
    BY FindFacts
  <1>2. CASE Find(1, tag) = NoSpan
    <2>1. Find(1, tag).beg = 0 /\ Find(1, tag).end = 0
      BY <1>2 DEF NoSpan
    <2>2. Word(Find(1, tag)) \in Lexeme
      BY <1>1, <2>1, WordFacts
    <2> QED
      BY <2>2 DEF Field
  <1>3. CASE Find(1, tag) # NoSpan
    <2>1. /\ 0 < Find(1, tag).beg
          /\ Find(1, tag).end <= Len(text) + 1
      BY <1>1, <1>3 DEF ASpan
    <2>2. Word(Find(1, tag)) \in Lexeme
      BY <1>1, <2>1, WordFacts
    <2> QED
      BY <2>2 DEF Field
  <1> QED
    BY <1>2, <1>3

(* Appending adds one element and keeps the others.                        *)
LEMMA AppendFacts ==
  ASSUME NEW S, NEW s \in Seq(S), NEW e \in S
  PROVE  /\ Append(s, e) \in Seq(S)
         /\ Len(Append(s, e)) = Len(s) + 1
         /\ Append(s, e)[Len(s) + 1] = e
         /\ \A j \in 1..Len(s) : Append(s, e)[j] = s[j]
  BY AppendProperties

(* Whatever fread leaves is a text.                                        *)
LEMMA LoadedFacts ==
  ASSUME template \in Templates, NEW t \in Loaded
  PROVE  t \in Seq(Lexeme)
  <1> DEFINE f == File(template)
  <1>7. f \in Seq(Piece)
    BY FileText DEF Text
  <1>8. Len(f) \in Nat /\ DOMAIN f = 1..Len(f) /\ f = [k \in 1..Len(f) |-> f[k]]
    BY <1>7, LenProperties
  <1>9. ASSUME NEW k \in 1..Len(f)
        PROVE  f[k] \in Lexeme
    <2>1. f[k] \in ToSet(f)
      BY <1>8 DEF ToSet
    <2> QED
      BY <2>1 DEF Lexeme
  <1>1. f \in Seq(Lexeme)
    <2>1. [k \in 1..Len(f) |-> f[k]] \in Seq(Lexeme)
      BY <1>8, <1>9, IsASeq
    <2> QED
      BY <1>8, <2>1
  <1>2. Len(f) \in Nat
    BY <1>8
  <1> HIDE DEF f
  <1>3. ASSUME NEW i \in Nat, i <= Len(f)
        PROVE  SubSeq(f, 1, i) \in Seq(Lexeme)
    BY <1>1, <1>2, <1>3, SubSeqProperties
  <1>4. CASE t \in {SubSeq(f, 1, i) : i \in 1..Len(f)}
    BY <1>2, <1>3, <1>4
  <1>5. CASE t \in {Append(SubSeq(f, 1, i), "cut") : i \in 0..(Len(f) - 1)}
    <2>1. PICK i \in 0..(Len(f) - 1) : t = Append(SubSeq(f, 1, i), "cut")
      BY <1>5
    <2>2. SubSeq(f, 1, i) \in Seq(Lexeme)
      BY <1>2, <1>3
    <2>3. "cut" \in Lexeme
      BY DEF Lexeme
    <2>4. Append(SubSeq(f, 1, i), "cut") \in Seq(Lexeme)
      BY <2>2, <2>3, AppendFacts
    <2> QED
      BY <2>1, <2>4
  <1>6. t \in {SubSeq(f, 1, i) : i \in 1..Len(f)}
          \cup {Append(SubSeq(f, 1, i), "cut") : i \in 0..(Len(f) - 1)}
    BY DEF Loaded, f
  <1> QED
    BY <1>4, <1>5, <1>6
-----------------------------------------------------------------------------
(* The steps *)

LEMMA InitInv == Init => Inv
  <1> SUFFICES ASSUME Init
               PROVE  Inv
    OBVIOUS
  <1>1. Len(tx_arr) = 0 /\ tx_arr = <<>>
    BY EmptySeq DEF Init
  <1>2. TypeOK
    BY EmptySeq DEF Init, TypeOK
  <1>3. SpansIn
    BY <1>1 DEF SpansIn
  <1>4. ScanInv
    BY <1>1 DEF Init, ScanInv
  <1>5. ViewsApart
    BY <1>1 DEF ViewsApart
  <1> QED
    BY <1>2, <1>3, <1>4, <1>5 DEF Inv

(* Before the scan there are no views.                                     *)
LEMMA LoadStep == Inv /\ Load => Inv'
  <1> SUFFICES ASSUME Inv, Load
               PROVE  Inv'
    OBVIOUS
  <1>1. TypeOK /\ pc = "load" /\ tx_arr = <<>> /\ tmp = 0 /\ tx_arr' = tx_arr /\ tmp' = tmp
    BY DEF Inv, ScanInv, Load
  <1>2. Len(tx_arr') = 0 /\ tx_arr' = <<>>
    BY <1>1, EmptySeq
  <1>3. text' \in Seq(Lexeme) /\ pc' \in {"tag", "failed", "aborted", "crashed", "undefined"}
    BY <1>1, LoadedFacts DEF Load, TypeOK
  <1>4. TypeOK'
    BY <1>1, <1>3 DEF TypeOK, Load
  <1>5. SpansIn'
    BY <1>2 DEF SpansIn
  <1>6. ScanInv'
    BY <1>1, <1>2, <1>3 DEF ScanInv
  <1>7. ViewsApart'
    BY <1>2 DEF ViewsApart
  <1> QED
    BY <1>4, <1>5, <1>6, <1>7 DEF Inv

LEMMA FindTransactionsStep == Inv /\ FindTransactions => Inv'
  <1> SUFFICES ASSUME Inv, FindTransactions
               PROVE  Inv'
    OBVIOUS
  <1>1. /\ TypeOK /\ pc = "tag" /\ tx_arr = <<>> /\ tmp = 0
        /\ UNCHANGED <<template, text, tx_arr, root, block>>
    BY DEF Inv, ScanInv, FindTransactions
  <1>2. Len(tx_arr') = 0 /\ tx_arr' = <<>>
    BY <1>1, EmptySeq
  <1>3. \/ pc' = "failed" /\ tmp' \in Nat
        \/ pc' = "scan" /\ tmp' \in Nat /\ 1 < tmp'
    <2>1. CASE Places(1, "transactions") = {}
      BY <1>1, <2>1 DEF FindTransactions
    <2>2. CASE Places(1, "transactions") # {}
      <3>1. text \in Seq(Lexeme) /\ Len(text) \in Nat
        BY <1>1, LenProperties DEF TypeOK
      <3>2. Min(Places(1, "transactions")) \in 1..Len(text)
        BY <2>2, <3>1, PlacesFacts
      <3>3. pc' = "scan" /\ tmp' = Min(Places(1, "transactions")) + 1
        BY <2>2 DEF FindTransactions
      <3> QED
        BY <3>1, <3>2, <3>3
    <2> QED
      BY <2>1, <2>2
  <1>4. TypeOK'
    BY <1>1, <1>3 DEF TypeOK
  <1>5. SpansIn'
    BY <1>2 DEF SpansIn
  <1>6. ScanInv'
    BY <1>2, <1>3 DEF ScanInv
  <1>7. ViewsApart'
    BY <1>2 DEF ViewsApart
  <1> QED
    BY <1>4, <1>5, <1>6, <1>7 DEF Inv

(* What a step keeps that leaves the text, the place and the views alone.  *)
LEMMA SameViews ==
  ASSUME Inv, UNCHANGED <<text, tmp, tx_arr>>,
         pc' \notin {"load", "tag", "scan"}
  PROVE  SpansIn' /\ ScanInv' /\ ViewsApart'
  <1>1. SpansIn'
    BY DEF Inv, SpansIn
  <1>2. ScanInv'
    BY DEF Inv, ScanInv
  <1>3. ViewsApart'
    BY DEF Inv, ViewsApart
  <1> QED
    BY <1>1, <1>2, <1>3

(* A turn of the loop that adds a view.                                    *)
LEMMA AddStep ==
  ASSUME Inv, pc = "scan", tmp <= Len(text), NoSpan \notin Spans(View(tmp)),
         tx_arr' = Append(tx_arr, View(tmp)), tmp' = After(View(tmp)), pc' = pc,
         UNCHANGED <<template, text, root, block>>
  PROVE  /\ Inv'
         /\ tmp < tmp' /\ tmp' <= Len(text) + 1
  <1> DEFINE v == View(tmp)
  <1>1. TypeOK /\ SpansIn /\ ScanInv /\ ViewsApart
    BY DEF Inv
  <1>2. /\ text \in Seq(Lexeme) /\ tmp \in Nat /\ Len(text) \in Nat
        /\ tx_arr \in Seq(AView) /\ Len(tx_arr) \in Nat
    BY <1>1, LenProperties DEF TypeOK
  <1>3. /\ v \in AView
        /\ tmp' \in Nat /\ tmp < tmp' /\ tmp' <= Len(text) + 1
        /\ \A s \in Spans(v) :
             /\ tmp < s.beg /\ s.beg <= s.end
             /\ s.end <= Len(text) + 1 /\ s.end <= tmp'
    BY <1>1, ViewFacts
  <1> HIDE DEF v
  <1>4. tx_arr' = Append(tx_arr, v)
    BY DEF v
  <1>5. /\ tx_arr' \in Seq(AView)
        /\ Len(tx_arr') = Len(tx_arr) + 1
        /\ tx_arr'[Len(tx_arr) + 1] = v
        /\ \A j \in 1..Len(tx_arr) : tx_arr'[j] = tx_arr[j]
    BY <1>2, <1>3, <1>4, AppendFacts
  <1>6. TypeOK'
    BY <1>1, <1>3, <1>5 DEF TypeOK
  <1>7. \A w \in AView : \A s \in Spans(w) : s.beg \in Nat /\ s.end \in Nat
    BY DEF AView, ASpan, Spans
  <1>8. \A j \in 1..Len(tx_arr) : tx_arr[j] \in AView
    BY <1>2, ElementOfSeq
  <1>9. text' = text
    OBVIOUS
  <1>10. SpansIn'
    <2> SUFFICES ASSUME NEW j \in 1..Len(tx_arr'), NEW s \in Spans(tx_arr'[j])
                 PROVE  /\ 0 < s.beg /\ s.beg <= s.end
                        /\ s.end <= tmp' /\ s.end <= Len(text) + 1
      BY <1>9, Zenon DEF SpansIn
    <2>1. CASE j \in 1..Len(tx_arr)
      <3>1. s \in Spans(tx_arr[j])
        BY <1>5, <2>1
      <3>2. s.beg \in Nat /\ s.end \in Nat
        BY <1>7, <1>8, <2>1, <3>1
      <3>3. /\ 0 < s.beg /\ s.beg <= s.end
            /\ s.end <= tmp /\ s.end <= Len(text) + 1
        BY <1>1, <2>1, <3>1 DEF SpansIn
      <3> QED
        BY <1>2, <1>3, <3>2, <3>3
    <2>2. CASE j = Len(tx_arr) + 1
      <3>1. s \in Spans(v)
        BY <1>5, <2>2
      <3>2. s.beg \in Nat /\ s.end \in Nat
        BY <1>3, <1>7, <3>1
      <3>3. /\ tmp < s.beg /\ s.beg <= s.end
            /\ s.end <= Len(text) + 1 /\ s.end <= tmp'
        BY <1>3, <3>1
      <3> QED
        BY <1>2, <1>3, <3>2, <3>3
    <2> QED
      BY <1>2, <1>5, <2>1, <2>2
  <1>11. ScanInv'
    <2>1. Len(tx_arr) + 1 < tmp
      BY <1>1 DEF ScanInv
    <2>2. /\ Len(tx_arr') + 1 < tmp' /\ Len(tx_arr') < Len(text)
          /\ tmp' <= Len(text) + 1
      BY <1>2, <1>3, <1>5, <2>1
    <2> QED
      BY <1>9, <2>2 DEF ScanInv
  <1>12. ViewsApart'
    <2>1. ASSUME NEW j \in 1..Len(tx_arr'), NEW s \in Spans(tx_arr'[j])
          PROVE  s.end <= Len(text) + 1
      BY <1>9, <1>10, <2>1 DEF SpansIn
    <2>2. ASSUME NEW j \in 1..Len(tx_arr'), NEW k \in 1..Len(tx_arr'), j < k,
                 NEW s \in Spans(tx_arr'[j]), NEW u \in Spans(tx_arr'[k])
          PROVE  s.end < u.beg
      <3>1. j \in 1..Len(tx_arr) /\ s \in Spans(tx_arr[j])
        BY <1>2, <1>5, <2>2
      <3>2. s.beg \in Nat /\ s.end \in Nat /\ s.end <= tmp
        BY <1>1, <1>7, <1>8, <3>1 DEF SpansIn
      <3>3. CASE k \in 1..Len(tx_arr)
        <4>1. u \in Spans(tx_arr[k])
          BY <1>5, <2>2, <3>3
        <4> QED
          BY <1>1, <2>2, <3>1, <3>3, <4>1 DEF ViewsApart
      <3>4. CASE k = Len(tx_arr) + 1
        <4>1. u \in Spans(v)
          BY <1>5, <2>2, <3>4
        <4>2. u.beg \in Nat /\ tmp < u.beg
          BY <1>3, <1>7, <4>1
        <4> QED
          BY <1>2, <3>2, <4>2
      <3> QED
        BY <1>2, <1>5, <3>3, <3>4
    <2> QED
      BY <1>9, <2>1, <2>2 DEF ViewsApart
  <1> QED
    BY <1>3, <1>6, <1>10, <1>11, <1>12 DEF Inv

LEMMA ScanTxStep ==
  ASSUME Inv, ScanTx
  PROVE  /\ Inv'
         /\ tx_arr' # tx_arr => tmp < tmp' /\ tmp' <= Len(text) + 1
  <1>1. TypeOK /\ tmp \in Nat /\ Len(text) \in Nat
    BY LenProperties DEF Inv, TypeOK
  <1>2. CASE /\ pc' = "root" /\ UNCHANGED <<tmp, tx_arr>>
             /\ UNCHANGED <<template, text, root, block>>
    <2>1. TypeOK'
      BY <1>1, <1>2 DEF TypeOK
    <2>2. SpansIn' /\ ScanInv' /\ ViewsApart'
      BY <1>2, SameViews
    <2> QED
      BY <1>2, <2>1, <2>2 DEF Inv
  <1>3. CASE /\ pc = "scan" /\ ~ (tmp > Len(text)) /\ NoSpan \notin Spans(View(tmp))
             /\ tx_arr' = Append(tx_arr, View(tmp)) /\ tmp' = After(View(tmp)) /\ pc' = pc
             /\ UNCHANGED <<template, text, root, block>>
    <2>1. tmp <= Len(text)
      BY <1>1, <1>3
    <2> QED
      BY <1>3, <2>1, AddStep
  <1> QED
    BY <1>2, <1>3, Zenon DEF ScanTx, Missing

(* The leaves are words of the text.                                       *)
LEMMA LeavesFacts ==
  ASSUME TypeOK, SpansIn
  PROVE  Leaves \in Seq(Lexeme)
  <1>1. text \in Seq(Lexeme) /\ tx_arr \in Seq(AView) /\ Len(tx_arr) \in Nat
    BY LenProperties DEF TypeOK
  <1>2. ASSUME NEW j \in 1..Len(tx_arr)
        PROVE  Leaf(tx_arr[j]) \in Lexeme
    <2>1. tx_arr[j] \in AView
      BY <1>1, ElementOfSeq
    <2>2. tx_arr[j].hash \in ASpan /\ tx_arr[j].hash \in Spans(tx_arr[j])
      BY <2>1 DEF AView, Spans
    <2>3. 0 < tx_arr[j].hash.beg /\ tx_arr[j].hash.end <= Len(text) + 1
      BY <2>2 DEF SpansIn
    <2>4. Word(tx_arr[j].hash) \in Lexeme
      BY <1>1, <2>2, <2>3, WordFacts
    <2> QED
      BY <2>4 DEF Leaf
  <1>3. [j \in 1..Len(tx_arr) |-> Leaf(tx_arr[j])] \in Seq(Lexeme)
    BY <1>1, <1>2, IsASeq
  <1> QED
    BY <1>3 DEF Leaves

LEMMA ReadRootStep == Inv /\ ReadRoot => Inv'
  <1> SUFFICES ASSUME Inv, ReadRoot
               PROVE  Inv'
    OBVIOUS
  <1>1. /\ TypeOK /\ SpansIn /\ pc' \in {"aborted", "crashed", "fields"}
        /\ (root' = root \/ root' = Leaves)
        /\ UNCHANGED <<template, text, tmp, tx_arr, block>>
    BY DEF Inv, ReadRoot
  <1>2. root' \in Seq(Lexeme)
    BY <1>1, LeavesFacts DEF TypeOK
  <1>3. TypeOK'
    BY <1>1, <1>2 DEF TypeOK
  <1>4. SpansIn' /\ ScanInv' /\ ViewsApart'
    BY <1>1, SameViews
  <1> QED
    BY <1>3, <1>4 DEF Inv

LEMMA ReadFieldsStep == Inv /\ ReadFields => Inv'
  <1> SUFFICES ASSUME Inv, ReadFields
               PROVE  Inv'
    OBVIOUS
  <1>1. /\ TypeOK /\ pc' \in {"aborted", "crashed", "done"}
        /\ UNCHANGED <<template, text, tmp, tx_arr, root>>
    BY DEF Inv, ReadFields
  <1>2. block' = block \/ block' =
          [hash_prev_block |-> Word(Field("previousblockhash")),
           hash_merkle_root |-> root,
           timestamp |-> Word(Field("mintime")),
           bits |-> Word(Field("bits"))]
    BY DEF ReadFields
  <1>3. text \in Seq(Lexeme) /\ root \in Seq(Lexeme)
    BY <1>1 DEF TypeOK
  <1>4. /\ Word(Field("previousblockhash")) \in Lexeme
        /\ Word(Field("mintime")) \in Lexeme
        /\ Word(Field("bits")) \in Lexeme
    BY <1>3, FieldFacts
  <1>5. block' \in AHeader \cup {<<>>}
    <2>1. CASE block' = block
      BY <1>1, <2>1 DEF TypeOK
    <2>2. CASE block' # block
      BY <1>2, <1>3, <1>4, <2>2 DEF AHeader
    <2> QED
      BY <2>1, <2>2
  <1>6. TypeOK'
    BY <1>1, <1>5 DEF TypeOK
  <1>7. SpansIn' /\ ScanInv' /\ ViewsApart'
    BY <1>1, SameViews
  <1> QED
    BY <1>6, <1>7 DEF Inv

LEMMA StutterStep == Inv /\ UNCHANGED vars => Inv'
  BY DEF Inv, TypeOK, SpansIn, ScanInv, ViewsApart, vars

LEMMA NextStep == Inv /\ [Next]_vars => Inv'
  BY LoadStep, FindTransactionsStep, ScanTxStep, ReadRootStep, ReadFieldsStep,
     StutterStep, Zenon DEF Next, Ended
-----------------------------------------------------------------------------
(***************************************************************************)
(* Regular texts                                                           *)
(***************************************************************************)

(* The views that there are have the words of the transactions.            *)
Matches ==
  \A j \in 1..Len(tx_arr) : \A tag \in Tags :
    Word(tx_arr[j][tag]) = ValueOf(template.txs[j], tag)

(* In a regular text, after so many views the scan is not beyond that many *)
(* transactions but for one lexeme, and no tag of theirs is left before it. *)
ExactInv ==
  Regular =>
    /\ pc = "scan" =>
         /\ Len(tx_arr) <= Len(template.txs) /\ Matches
         /\ tmp <= TxEnd(template, Len(tx_arr)) + 1
         /\ \A k \in tmp..TxEnd(template, Len(tx_arr)) : text[k] \notin Tags
    /\ pc \in {"root", "fields", "done"} =>
         Len(tx_arr) = Len(template.txs) /\ Matches

(* The root is that of the leaves, and what is printed is what is found.   *)
PrintInv ==
  /\ pc = "fields" => root = Leaves
  /\ pc = "done" =>
       block = [hash_prev_block |-> Word(Field("previousblockhash")),
                hash_merkle_root |-> Leaves,
                timestamp |-> Word(Field("mintime")),
                bits |-> Word(Field("bits"))]

(* A word that a text has once.                                            *)
Single(l, w) == Cardinality({k \in 1..Len(l) : l[k] = w}) = 1

(* A word that is single has one place.                                    *)
LEMMA Once ==
  ASSUME NEW l \in Text, NEW w, Single(l, w)
  PROVE  \E q \in 1..Len(l) : l[q] = w /\ \A r \in 1..Len(l) : l[r] = w => r = q
  <1> DEFINE S == {k \in 1..Len(l) : l[k] = w}
  <1>1. Len(l) \in Nat
    BY LenProperties DEF Text
  <1>2. IsFiniteSet(1..Len(l))
    BY <1>1, FS_Interval
  <1>3. IsFiniteSet(S) /\ Cardinality(S) = 1
    BY <1>2, FS_Subset DEF Single
  <1>4. PICK q : S = {q}
    BY <1>3, FS_Singleton
  <1>5. q \in S /\ \A r \in S : r = q
    BY <1>4
  <1> QED
    BY <1>5

(* A key with a value, as it is in the text.                               *)
LEMMA ValuedFacts ==
  ASSUME NEW pairs \in Seq(APair), NEW key, Valued(pairs, key)
  PROVE  \E q \in 1..Len(Lexemes(pairs)) :
           /\ q + 1 <= Len(Lexemes(pairs)) /\ Lexemes(pairs)[q] = key
           /\ Lexemes(pairs)[q + 1] = ValueOf(pairs, key)
           /\ ValueOf(pairs, key) # Comma
  <1> DEFINE n == CHOOSE j \in 1..Len(pairs) : pairs[j].key = key
  <1>1. DOMAIN pairs = 1..Len(pairs)
    BY LenProperties
  <1>2. PICK pair \in ToSet(pairs) : pair.key = key
    BY DEF Valued
  <1>3. PICK j \in 1..Len(pairs) : pairs[j] = pair
    BY <1>1, <1>2 DEF ToSet
  <1>4. n \in 1..Len(pairs) /\ pairs[n].key = key
    BY <1>2, <1>3
  <1>5. PairOf(pairs, key) = pairs[n]
    BY DEF PairOf
  <1> HIDE DEF n
  <1>6. /\ pairs[n].val # <<>> /\ ValueOf(pairs, key) = pairs[n].val[1]
        /\ ValueOf(pairs, key) # Comma
    <2>1. pairs[n].val # <<>> /\ ValueOf(pairs, key) = pairs[n].val[1]
      BY <1>5 DEF Valued, ValueOf
    <2>2. ValueOf(pairs, key) # Comma
      BY DEF Valued, Comma
    <2> QED
      BY <2>1, <2>2
  <1>7. PICK q \in 1..Len(Lexemes(pairs)) :
          /\ q + 1 <= Len(Lexemes(pairs)) /\ Lexemes(pairs)[q] = pairs[n].key
          /\ Lexemes(pairs)[q + 1] = IF pairs[n].val = <<>> THEN Comma ELSE pairs[n].val[1]
    BY <1>4, LexemesFacts
  <1> QED
    BY <1>4, <1>6, <1>7

(* No sign is a tag.                                                       *)
LEMMA TagFacts == \A tag \in Tags : tag # Comma /\ tag # Open /\ tag # Close
  BY DEF Tags, Comma, Open, Close

(* The tag is once between b and e, at q, in front of its value in tx.     *)
PlaceOf(tag, q, b, e, tx) ==
  /\ b < q /\ q + 1 <= e /\ text[q] = tag
  /\ \A r \in (b + 1)..e : text[r] = tag => r = q
  /\ text[q + 1] = ValueOf(tx, tag)
  /\ text[q + 1] # Comma

(* Each tag is once in a transaction of a regular text, in front of its    *)
(* value.                                                                  *)
LEMMA TagPlace ==
  ASSUME template \in Templates, Regular, NEW j \in 1..Len(template.txs), NEW tag \in Tags
  PROVE  \E q \in Nat :
           PlaceOf(tag, q, TxEnd(template, j - 1), TxEnd(template, j), template.txs[j])
  <1> DEFINE tx == template.txs[j]
             l == Lexemes(tx)
             b == TxEnd(template, j - 1)
             e == TxEnd(template, j)
  <1>1. /\ text = File(template) /\ tx \in ToSet(template.txs)
    <2>1. template.txs \in Seq(Seq(APair))
      BY TemplatesAssumption
    <2>2. DOMAIN template.txs = 1..Len(template.txs)
      BY <2>1, LenProperties
    <2> QED
      BY <2>2 DEF Regular, ToSet
  <1>2. Single(l, tag) /\ Valued(tx, tag)
    BY <1>1 DEF Regular, Single
  <1>3. /\ tx \in Seq(APair) /\ Len(template.txs) \in Nat /\ e = b + Len(l)
        /\ \A k \in 1..Len(l) : text[b + k] = l[k]
    BY <1>1, FileFacts
  <1>4. b \in Nat /\ e \in Nat
    <2>1. j - 1 \in 0..Len(template.txs) /\ j \in 0..Len(template.txs)
      BY <1>3
    <2> QED
      BY <2>1, FileFacts
  <1> HIDE DEF tx, b, e
  <1>5. l \in Text /\ Len(l) \in Nat
    BY <1>3, LexemesFacts
  <1>6. PICK q \in 1..Len(l) : q + 1 <= Len(l) /\ l[q] = tag /\ l[q + 1] = ValueOf(tx, tag)
                               /\ ValueOf(tx, tag) # Comma
    BY <1>2, <1>3, ValuedFacts
  <1> HIDE DEF l
  <1>7. PICK u \in 1..Len(l) : \A r \in 1..Len(l) : l[r] = tag => r = u
    BY <1>2, <1>5, Once
  <1>8. q = u
    BY <1>6, <1>7
  <1>9. ASSUME NEW r \in (b + 1)..e, text[r] = tag
        PROVE  r = b + q
    <2>1. r - b \in 1..Len(l) /\ b + (r - b) = r
      BY <1>3, <1>4, <1>5
    <2>2. l[r - b] = tag
      BY <1>3, <1>9, <2>1
    <2>3. r - b = q
      BY <1>7, <1>8, <2>1, <2>2
    <2> QED
      BY <1>4, <2>1, <2>3
  <1>10. /\ b + q \in Nat /\ b < b + q /\ b + q + 1 <= e /\ q + 1 \in 1..Len(l)
         /\ b + (q + 1) = b + q + 1
    BY <1>3, <1>4, <1>5, <1>6
  <1>11. text[b + q] = tag /\ text[b + q + 1] = ValueOf(tx, tag)
    BY <1>3, <1>6, <1>10
  <1>12. PlaceOf(tag, b + q, b, e, tx)
    BY <1>6, <1>9, <1>10, <1>11 DEF PlaceOf
  <1> QED
    BY <1>10, <1>12 DEF tx, b, e

(* Behind the transactions there is no tag. *)
LEMMA TailFree ==
  ASSUME template \in Templates, Regular,
         NEW k \in (TxEnd(template, Len(template.txs)) + 1)..Len(text)
  PROVE  text[k] \notin Tags
  <1> DEFINE e == TxEnd(template, Len(template.txs))
             l == Lexemes(template.tail)
  <1>1. text = File(template)
    BY DEF Regular
  <1>2. /\ Len(text) = e + 2 + Len(l) /\ text[e + 1] = Close /\ text[e + 2] = Comma
        /\ \A i \in 1..Len(l) : text[e + 2 + i] = l[i]
        /\ template.tail \in Seq(APair)
    BY <1>1, FileFacts
  <1>3. e \in Nat /\ Len(l) \in Nat
    <2>1. Len(template.txs) \in 0..Len(template.txs)
      BY FileFacts
    <2>2. e \in Nat
      BY <2>1, FileFacts
    <2> QED
      BY <1>2, <2>2, LexemesFacts
  <1>4. k \in (e + 1)..Len(text)
    OBVIOUS
  <1>5. ASSUME NEW i \in 1..Len(l)
        PROVE  l[i] \notin Tags
    <2>1. PICK n \in 1..Len(template.tail) :
            l[i] \in {template.tail[n].key, Comma} \cup ToSet(template.tail[n].val)
      BY <1>2, LexemesFacts
    <2>2. template.tail[n] \in ToSet(template.tail)
      <3>1. DOMAIN template.tail = 1..Len(template.tail)
        BY <1>2, LenProperties
      <3> QED
        BY <3>1 DEF ToSet
    <2>3. Tags \cap ({template.tail[n].key} \cup ToSet(template.tail[n].val)) = {}
      BY <2>2 DEF Regular
    <2> QED
      BY <2>1, <2>3, TagFacts
  <1> HIDE DEF e, l
  <1>6. k = e + 1 \/ k = e + 2 \/ (k - (e + 2) \in 1..Len(l) /\ e + 2 + (k - (e + 2)) = k)
    BY <1>2, <1>3, <1>4
  <1> QED
    BY <1>2, <1>5, <1>6, TagFacts

(* The first tag from p on is at q, with a value behind it. *)
FirstAt(p, tag, q) ==
  /\ q \in p..Len(text) /\ text[q] = tag
  /\ \A r \in p..Len(text) : r < q => text[r] # tag
  /\ q + 1 <= Len(text) /\ text[q + 1] # Comma

(* What the search from p on then answers. *)
FoundAt(p, tag, q) ==
  /\ Find(p, tag) = [beg |-> q + 1, end |-> q + 2]
  /\ Find(p, tag) # NoSpan
  /\ Word(Find(p, tag)) = text[q + 1]

(* What is found when the first place is known.                            *)
LEMMA FindAt ==
  ASSUME text \in Seq(Lexeme), NEW p \in Nat, NEW tag, NEW q, FirstAt(p, tag, q)
  PROVE  FoundAt(p, tag, q)
  <1>12. Len(text) \in Nat
    BY LenProperties
  <1>13. q \in p..Len(text) /\ text[q] = tag /\ q + 1 <= Len(text) /\ text[q + 1] # Comma
    BY DEF FirstAt
  <1>14. \A r \in p..Len(text) : r < q => text[r] # tag
    BY DEF FirstAt
  <1>1. Len(text) \in Nat /\ q \in Nat
    BY <1>12, <1>13
  <1>2. q \in Places(p, tag) /\ Places(p, tag) \subseteq Nat
    BY <1>1, <1>13 DEF Places
  <1> DEFINE m == Min(Places(p, tag))
  <1>3. m \in Places(p, tag) /\ m <= q
    BY <1>2, MinFacts
  <1> HIDE DEF m
  <1>4. m \in p..Len(text) /\ text[m] = tag /\ m \in Nat
    BY <1>2, <1>3 DEF Places
  <1>5. m = q
    BY <1>1, <1>3, <1>4, <1>14
  <1>6. Find(p, tag) = Value(q)
    BY <1>2, <1>5 DEF Find, m
  <1>7. Value(q) = [beg |-> q + 1, end |-> q + 2]
    <2>1. q < Len(text)
      BY <1>1, <1>13
    <2>2. text[q + 1] # ","
      BY <1>13 DEF Comma
    <2> QED
      BY ONLY <2>1, <2>2, Zenon DEF Value
  <1> DEFINE s == [beg |-> q + 1, end |-> q + 2]
  <1>8. s.beg = q + 1 /\ s.end = q + 2
    OBVIOUS
  <1>9. Find(p, tag) = s
    BY <1>6, <1>7
  <1> HIDE DEF s
  <1>10. s # NoSpan
    <2>1. s.beg # 0 /\ NoSpan.beg = 0
      BY <1>1, <1>8 DEF NoSpan
    <2> QED
      BY <2>1
  <1>11. Word(s) = text[q + 1]
    <2>1. s.beg < s.end /\ s.beg = q + 1
      BY <1>1, <1>8
    <2> QED
      BY ONLY <2>1, Zenon DEF Word
  <1> QED
    BY <1>9, <1>10, <1>11 DEF s, FoundAt

(* A view in a regular text: the tags of the next transaction are found.   *)
LEMMA NextView ==
  ASSUME Inv, Regular, pc = "scan", ExactInv, Len(tx_arr) < Len(template.txs)
  PROVE  LET m == Len(tx_arr)
             e == TxEnd(template, m + 1)
             v == View(tmp)
         IN  /\ m + 1 \in 1..Len(template.txs) /\ e + 1 <= Len(text) /\ tmp <= Len(text)
             /\ NoSpan \notin Spans(v)
             /\ \A tag \in Tags : Word(v[tag]) = ValueOf(template.txs[m + 1], tag)
             /\ e \in Nat /\ After(v) \in Nat /\ After(v) <= e + 1
             /\ \A k \in After(v)..e : text[k] \notin Tags
  <1> DEFINE m == Len(tx_arr)
             d == TxEnd(template, m)
             e == TxEnd(template, m + 1)
             v == View(tmp)
             z == TxEnd(template, Len(template.txs))
  <1>1. /\ TypeOK /\ template \in Templates /\ text \in Seq(Lexeme) /\ Len(text) \in Nat
        /\ tmp \in Nat /\ m \in Nat
    BY LenProperties DEF Inv, TypeOK
  <1>2. tmp <= d + 1 /\ \A k \in tmp..d : text[k] \notin Tags
    BY DEF ExactInv
  <1>3. /\ Len(template.txs) \in Nat /\ m + 1 \in 1..Len(template.txs)
        /\ m \in 0..Len(template.txs) /\ m + 1 - 1 = m
        /\ Len(template.txs) \in 0..Len(template.txs) /\ m + 1 \in 0..Len(template.txs)
    <2>1. Len(template.txs) \in Nat
      BY <1>1, FileFacts
    <2> QED
      BY <1>1, <2>1
  <1>4. d \in Nat /\ e \in Nat /\ z \in Nat /\ e <= z
    BY <1>1, <1>3, FileFacts
  <1>5. Len(text) >= z + 2
    <2>1. Len(File(template)) = z + 2 + Len(Lexemes(template.tail))
      BY <1>1, FileFacts
    <2>2. Len(Lexemes(template.tail)) \in Nat
      BY <1>1, FileFacts, LexemesFacts
    <2>3. text = File(template)
      BY DEF Regular
    <2> QED
      BY <1>4, <2>1, <2>2, <2>3
  <1>6. \A tag \in Tags : \E q \in Nat : PlaceOf(tag, q, d, e, template.txs[m + 1])
    <2> DEFINE j == m + 1
    <2>1. j \in 1..Len(template.txs) /\ j - 1 = m
      BY <1>3
    <2> HIDE DEF j
    <2>2. \A tag \in Tags : \E q \in Nat :
            PlaceOf(tag, q, TxEnd(template, j - 1), TxEnd(template, j), template.txs[j])
      BY <1>1, <2>1, TagPlace
    <2> QED
      BY <2>1, <2>2 DEF j
  <1> HIDE DEF m, d, e, z, v
  <1>7. ASSUME NEW tag \in Tags
        PROVE  \E q \in Nat :
                 /\ d < q /\ q + 1 <= e
                 /\ \A r \in (d + 1)..e : text[r] = tag => r = q
                 /\ Find(tmp, tag) = [beg |-> q + 1, end |-> q + 2]
                 /\ Find(tmp, tag) # NoSpan
                 /\ Word(Find(tmp, tag)) = ValueOf(template.txs[m + 1], tag)
    <2>1. PICK q \in Nat :
          /\ d < q /\ q + 1 <= e /\ text[q] = tag
          /\ \A r \in (d + 1)..e : text[r] = tag => r = q
          /\ text[q + 1] = ValueOf(template.txs[m + 1], tag)
          /\ text[q + 1] # Comma
      BY <1>6 DEF PlaceOf
    <2>2. q \in tmp..Len(text) /\ q + 1 <= Len(text)
      BY <1>1, <1>2, <1>4, <1>5, <2>1
    <2>3. ASSUME NEW r \in tmp..Len(text), r < q
          PROVE  text[r] # tag
      <3>1. CASE r <= d
        <4>1. r \in tmp..d
          BY <1>1, <1>4, <3>1
        <4> QED
          BY <1>2, <4>1
      <3>2. CASE ~(r <= d)
        <4>1. r \in (d + 1)..e /\ r # q
          BY <1>1, <1>4, <2>1, <2>3, <3>2
        <4> QED
          BY <2>1, <4>1
      <3> QED
        BY <3>1, <3>2
    <2>5. FirstAt(tmp, tag, q)
      BY <2>1, <2>2, <2>3 DEF FirstAt
    <2>4. /\ Find(tmp, tag) = [beg |-> q + 1, end |-> q + 2]
          /\ Find(tmp, tag) # NoSpan
          /\ Word(Find(tmp, tag)) = text[q + 1]
      <3>1. FoundAt(tmp, tag, q)
        BY <1>1, <2>5, FindAt
      <3> QED
        BY <3>1 DEF FoundAt
    <2> QED
      BY <2>1, <2>4
  <1>8. /\ v.data = Find(tmp, "data") /\ v.txid = Find(tmp, "txid") /\ v.hash = Find(tmp, "hash")
        /\ v["data"] = v.data /\ v["txid"] = v.txid /\ v["hash"] = v.hash
    BY DEF View, v
  <1>9. \A tag \in Tags : v[tag] = Find(tmp, tag)
    BY <1>8 DEF Tags
  <1>10. /\ \A s \in Spans(v) : \E tag \in Tags : s = Find(tmp, tag)
         /\ \A tag \in Tags : Find(tmp, tag) \in Spans(v)
    BY <1>8 DEF Spans, Tags
  <1>11. NoSpan \notin Spans(v)
    BY <1>7, <1>10
  <1>12. \A tag \in Tags : Word(v[tag]) = ValueOf(template.txs[m + 1], tag)
    BY <1>7, <1>9
  <1>13. /\ After(v) \in Nat /\ tmp < After(v)
         /\ After(v) = tmp \/ \E s \in Spans(v) : After(v) = s.end
         /\ \A s \in Spans(v) : s.end <= After(v)
    BY <1>1, <1>11, ViewFacts DEF v
  <1>14. \A s \in Spans(v) : s.end \in Nat /\ s.end <= e + 1
    <2> SUFFICES ASSUME NEW s \in Spans(v)
                 PROVE  s.end \in Nat /\ s.end <= e + 1
      OBVIOUS
    <2>1. PICK tag \in Tags : s = Find(tmp, tag)
      BY <1>10
    <2>2. PICK q \in Nat : q + 1 <= e /\ Find(tmp, tag) = [beg |-> q + 1, end |-> q + 2]
      BY <1>7
    <2>3. s.end = q + 2
      BY <2>1, <2>2
    <2> QED
      BY <1>4, <2>2, <2>3
  <1>15. After(v) <= e + 1
    BY <1>13, <1>14
  <1>16. ASSUME NEW k \in After(v)..e, NEW tag \in Tags, text[k] = tag
         PROVE  FALSE
    <2>1. PICK q \in Nat :
            /\ d < q /\ q + 1 <= e
            /\ \A r \in (d + 1)..e : text[r] = tag => r = q
            /\ Find(tmp, tag) = [beg |-> q + 1, end |-> q + 2]
      BY <1>7
    <2>2. Find(tmp, tag).end = q + 2
      BY <2>1
    <2>3. q + 2 <= After(v)
      BY <1>10, <1>13, <2>2
    <2>4. k \in (d + 1)..e /\ k # q
      BY <1>4, <1>13, <2>1, <2>3
    <2> QED
      BY <1>16, <2>1, <2>4
  <1>17. \A k \in After(v)..e : text[k] \notin Tags
    BY <1>16
  <1>18. e + 1 <= Len(text) /\ tmp <= Len(text)
    <2>1. d + 1 <= e
      <3>1. PICK q \in Nat : d < q /\ q + 1 <= e
        <4>1. "data" \in Tags
          BY DEF Tags
        <4> QED
          BY <1>6, <4>1 DEF PlaceOf
      <3> QED
        BY <1>4, <3>1
    <2> QED
      BY <1>1, <1>2, <1>4, <1>5, <2>1
  <1> QED
    BY <1>3, <1>4, <1>11, <1>12, <1>13, <1>15, <1>17, <1>18 DEF m, e, v

(* When all transactions have been viewed, no tag is left.                 *)
LEMMA NoMoreViews ==
  ASSUME Inv, Regular, pc = "scan", ExactInv, Len(tx_arr) = Len(template.txs)
  PROVE  NoSpan \in Spans(View(tmp))
  <1> DEFINE e == TxEnd(template, Len(template.txs))
  <1>1. /\ template \in Templates /\ tmp \in Nat /\ Len(text) \in Nat
    BY LenProperties DEF Inv, TypeOK
  <1>2. tmp <= e + 1 /\ \A k \in tmp..e : text[k] \notin Tags
    BY DEF ExactInv
  <1>3. e \in Nat
    <2>1. Len(template.txs) \in 0..Len(template.txs)
      BY <1>1, FileFacts
    <2> QED
      BY <1>1, <2>1, FileFacts
  <1>4. \A k \in (e + 1)..Len(text) : text[k] \notin Tags
    BY <1>1, TailFree
  <1> HIDE DEF e
  <1>5. ASSUME NEW k \in tmp..Len(text)
        PROVE  text[k] \notin Tags
    <2>1. k \in tmp..e \/ k \in (e + 1)..Len(text)
      BY <1>1, <1>3
    <2> QED
      BY <1>2, <1>4, <2>1
  <1>6. "data" \in Tags
    BY DEF Tags
  <1>7. Places(tmp, "data") = {}
    BY <1>5, <1>6 DEF Places
  <1>8. Find(tmp, "data") = NoSpan
    BY <1>7 DEF Find
  <1> QED
    BY <1>8 DEF View, Spans

(* What holds of the views holds when text and views stay.                 *)
LEMMA SameMatches ==
  ASSUME UNCHANGED <<template, text, tx_arr>>
  PROVE  (Regular' <=> Regular) /\ (Matches' <=> Matches)
         /\ \A t, j : TxEnd(t, j)' = TxEnd(t, j)
  BY DEF Regular, Matches, Word, TxEnd

(* The scan begins in front of the first transaction.                      *)
LEMMA FindTransactionsExact == Inv /\ FindTransactions => ExactInv'
  <1> SUFFICES ASSUME Inv, FindTransactions, Regular, pc' = "scan"
               PROVE  /\ Len(tx_arr') <= Len(template.txs) /\ Matches'
                      /\ tmp' <= TxEnd(template, Len(tx_arr')) + 1
                      /\ \A k \in tmp'..TxEnd(template, Len(tx_arr')) : text[k] \notin Tags
    <2>1. Inv /\ FindTransactions =>
            /\ pc' \in {"failed", "scan"} /\ template' = template /\ text' = text
            /\ UNCHANGED <<template, text, tx_arr>>
      BY DEF FindTransactions
    <2> QED
      BY <2>1, SameMatches DEF ExactInv
  <1> DEFINE h == Len(Lexemes(template.head))
             w == Transactions
  <1>1. /\ template \in Templates /\ text \in Seq(Lexeme) /\ Len(text) \in Nat
        /\ tx_arr' = <<>> /\ Len(tx_arr') = 0
        /\ tmp' = Min(Places(1, w)) + 1 /\ Places(1, w) # {}
    <2>1. tmp' = Min(Places(1, w)) + 1 /\ Places(1, w) # {} /\ pc = "tag" /\ tx_arr' = tx_arr
      BY DEF FindTransactions, Transactions
    <2> HIDE DEF w
    <2>2. tx_arr = <<>> /\ template \in Templates /\ text \in Seq(Lexeme)
      BY <2>1 DEF Inv, TypeOK, ScanInv
    <2> QED
      BY <2>1, <2>2, LenProperties, EmptySeq
  <1>2. /\ text = File(template) /\ h \in Nat /\ TxEnd(template, 0) = h + 2
        /\ template.head \in Seq(APair) /\ Len(template.txs) \in Nat
        /\ \A k \in 1..h : text[k] = Lexemes(template.head)[k]
        /\ text[h + 1] = w /\ text[h + 2] = Open
    BY <1>1, FileFacts DEF Regular
  <1>3. ASSUME NEW k \in 1..h
        PROVE  text[k] # w
    <2>1. PICK n \in 1..Len(template.head) :
            text[k] \in {template.head[n].key, Comma} \cup ToSet(template.head[n].val)
      BY <1>2, LexemesFacts
    <2>2. template.head[n] \in ToSet(template.head)
      <3>1. DOMAIN template.head = 1..Len(template.head)
        BY <1>2, LenProperties
      <3> QED
        BY <3>1 DEF ToSet
    <2>3. w \notin {template.head[n].key} \cup ToSet(template.head[n].val)
      BY <2>2 DEF Regular, Transactions
    <2>4. w # Comma
      BY DEF Transactions, Comma
    <2> QED
      BY <2>1, <2>3, <2>4
  <1> DEFINE m == Min(Places(1, w))
  <1>4. h + 1 <= Len(text)
    <2>1. /\ Len(text) = TxEnd(template, Len(template.txs)) + 2 + Len(Lexemes(template.tail))
          /\ template.tail \in Seq(APair)
      BY <1>1, <1>2, FileFacts
    <2>2. Len(Lexemes(template.tail)) \in Nat
      BY <2>1, LexemesFacts
    <2>3. TxEnd(template, Len(template.txs)) >= h + 2 /\ TxEnd(template, Len(template.txs)) \in Nat
      BY <1>1, HeadFirst
    <2> QED
      BY <1>2, <2>1, <2>2, <2>3
  <1>5. h + 1 \in Places(1, w) /\ Places(1, w) \subseteq Nat
    BY <1>2, <1>4 DEF Places
  <1>6. m \in Places(1, w) /\ m <= h + 1
    BY <1>5, MinFacts
  <1> HIDE DEF m
  <1>7. m \in 1..Len(text) /\ text[m] = w
    BY <1>6 DEF Places
  <1>8. m = h + 1
    <2>1. m \notin 1..h
      BY <1>3, <1>7
    <2> QED
      BY <1>1, <1>2, <1>6, <1>7, <2>1
  <1>9. tmp' = h + 2
    BY <1>1, <1>2, <1>8 DEF m
  <1>10. \A k \in tmp'..TxEnd(template, 0) : text[k] \notin Tags
    <2>1. \A k \in (h + 2)..(h + 2) : k = h + 2
      BY <1>2
    <2>2. text[h + 2] \notin Tags
      BY <1>2, TagFacts
    <2> QED
      BY <1>2, <1>9, <2>1, <2>2
  <1>11. Matches'
    BY <1>1 DEF Matches
  <1> QED
    BY <1>1, <1>2, <1>9, <1>10, <1>11

(* Each view takes one transaction, and the last turn finds none.          *)
LEMMA ScanTxExact == Inv /\ ExactInv /\ ScanTx => ExactInv'
  <1> SUFFICES ASSUME Inv, ExactInv, ScanTx, Regular
               PROVE  ExactInv'
    <2>1. ScanTx => (Regular' <=> Regular)
      BY DEF ScanTx, Regular
    <2> QED
      BY <2>1 DEF ExactInv
  <1> DEFINE m == Len(tx_arr)
             n == Len(template.txs)
  <1>1. /\ pc = "scan" /\ template' = template /\ text' = text
        /\ m <= n /\ Matches
    BY DEF ScanTx, ExactInv
  <1>2. /\ tx_arr \in Seq(AView) /\ m \in Nat /\ n \in Nat /\ TypeOK /\ tmp \in Nat
        /\ Len(text) \in Nat
    <2>1. template \in Templates /\ tx_arr \in Seq(AView) /\ TypeOK /\ tmp \in Nat
          /\ text \in Seq(Lexeme)
      BY DEF Inv, TypeOK
    <2>2. n \in Nat
      BY <2>1, FileFacts
    <2> QED
      BY <2>1, <2>2, LenProperties
  <1>3. CASE m = n
    <2>1. NoSpan \in Spans(View(tmp))
      BY <1>1, <1>3, NoMoreViews
    <2>2. pc' = "root" /\ tx_arr' = tx_arr
      BY <2>1 DEF ScanTx, Missing
    <2>3. Matches'
      BY <1>1, <2>2, SameMatches
    <2> QED
      BY <1>1, <1>3, <2>2, <2>3 DEF ExactInv
  <1>4. CASE m # n
    <2> DEFINE e == TxEnd(template, m + 1)
               v == View(tmp)
    <2>1. /\ m + 1 \in 1..n /\ e + 1 <= Len(text) /\ tmp <= Len(text)
          /\ NoSpan \notin Spans(v)
          /\ \A tag \in Tags : Word(v[tag]) = ValueOf(template.txs[m + 1], tag)
          /\ e \in Nat /\ After(v) \in Nat /\ After(v) <= e + 1
          /\ \A k \in After(v)..e : text[k] \notin Tags
      <3>1. m < n
        BY <1>1, <1>2, <1>4
      <3> QED
        BY <1>1, <3>1, NextView
    <2>2. tx_arr' = Append(tx_arr, v) /\ tmp' = After(v) /\ pc' = "scan"
      <3>1. ~(tmp > Len(text))
        BY <1>2, <2>1
      <3> QED
        BY <1>1, <2>1, <3>1 DEF ScanTx
    <2>3. v \in AView
      BY <1>2, <2>1, ViewFacts
    <2> HIDE DEF v, e
    <2>4. /\ Len(tx_arr') = m + 1 /\ tx_arr'[m + 1] = v
          /\ \A j \in 1..m : tx_arr'[j] = tx_arr[j]
      BY <1>2, <2>2, <2>3, AppendFacts
    <2>5. ASSUME NEW j \in 1..(m + 1), NEW tag \in Tags
          PROVE  Word(tx_arr'[j][tag]) = ValueOf(template.txs[j], tag)
      <3>1. CASE j = m + 1
        BY <2>1, <2>4, <3>1
      <3>2. CASE j # m + 1
        <4>1. j \in 1..m
          BY <1>2, <3>2
        <4> QED
          BY <1>1, <2>4, <4>1 DEF Matches
      <3> QED
        BY <3>1, <3>2
    <2>6. Matches'
      BY <1>1, <2>4, <2>5 DEF Matches, Word
    <2>7. TxEnd(template', Len(tx_arr')) = e
      BY <1>1, <2>4 DEF e
    <2>8. Len(tx_arr') <= Len(template'.txs)
      BY <1>1, <1>2, <2>1, <2>4
    <2> QED
      BY <1>1, <2>1, <2>2, <2>6, <2>7, <2>8 DEF ExactInv
  <1> QED
    BY <1>3, <1>4

(* Every step keeps ExactInv.                                              *)
LEMMA ExactStep == Inv /\ ExactInv /\ [Next]_vars => ExactInv'
  <1> SUFFICES ASSUME Inv, ExactInv, [Next]_vars
               PROVE  ExactInv'
    OBVIOUS
  <1>1. CASE Load
    BY <1>1 DEF Load, ExactInv
  <1>2. CASE FindTransactions
    BY <1>2, FindTransactionsExact
  <1>3. CASE ScanTx
    BY <1>3, ScanTxExact
  <1>4. CASE UNCHANGED <<template, text, tx_arr>> /\ pc \in {"root", "fields", "done"}
             /\ pc' # "scan"
    BY <1>4, SameMatches DEF ExactInv
  <1>5. CASE UNCHANGED vars
    BY <1>5 DEF vars, ExactInv, Regular, Matches, Word
  <1> QED
    BY <1>1, <1>2, <1>3, <1>4, <1>5 DEF Next, ReadRoot, ReadFields, Ended

(* Every step keeps PrintInv.                                              *)
LEMMA PrintStep == Inv /\ PrintInv /\ [Next]_vars => PrintInv'
  <1> SUFFICES ASSUME Inv, PrintInv, [Next]_vars
               PROVE  PrintInv'
    OBVIOUS
  <1>1. CASE pc' \notin {"fields", "done"}
    BY <1>1 DEF PrintInv
  <1>2. CASE ReadRoot
    <2>1. UNCHANGED <<text, tx_arr>> /\ pc' # "done" /\ (pc' = "fields" => root' = Leaves)
      BY <1>2 DEF ReadRoot
    <2>2. Leaves' = Leaves
      BY <2>1 DEF Leaves, Leaf, Word
    <2> QED
      BY <2>1, <2>2 DEF PrintInv
  <1>3. CASE ReadFields
    <2>1. /\ pc = "fields" /\ pc' # "fields" /\ UNCHANGED <<text, tx_arr, root>>
          /\ pc' = "done" =>
               block' = [hash_prev_block |-> Word(Field("previousblockhash")),
                         hash_merkle_root |-> root,
                         timestamp |-> Word(Field("mintime")),
                         bits |-> Word(Field("bits"))]
      BY <1>3 DEF ReadFields
    <2>2. root = Leaves
      BY <2>1 DEF PrintInv
    <2>3. Leaves' = Leaves
      BY <2>1 DEF Leaves, Leaf, Word
    <2>4. \A tag : Word(Field(tag))' = Word(Field(tag))
      BY <2>1 DEF Word, Field, Find, Places, Value
    <2> QED
      BY <2>1, <2>2, <2>3, <2>4 DEF PrintInv
  <1>4. CASE UNCHANGED vars
    <2>1. UNCHANGED <<text, tx_arr, root, block, pc>>
      BY <1>4 DEF vars
    <2>2. Leaves' = Leaves
      BY <2>1 DEF Leaves, Leaf, Word
    <2>3. \A tag : Word(Field(tag))' = Word(Field(tag))
      BY <2>1 DEF Word, Field, Find, Places, Value
    <2> QED
      BY <2>1, <2>2, <2>3 DEF PrintInv
  <1>5. CASE Load \/ FindTransactions \/ ScanTx
    <2>1. pc' \notin {"fields", "done"}
      BY <1>5 DEF Load, FindTransactions, ScanTx, Missing
    <2> QED
      BY <2>1, <1>1
  <1> QED
    BY <1>2, <1>3, <1>4, <1>5 DEF Next, Ended

(* A field that is named once is found where it stands, before or behind   *)
(* the transactions.                                                       *)
LEMMA FieldFound ==
  ASSUME Inv, Regular, NEW tag, Named(tag)
  PROVE  Word(Field(tag)) = Given(tag)
  <1> DEFINE hd == template.head
             tl == template.tail
             pairs == hd \o tl
             n == CHOOSE j \in 1..Len(pairs) : pairs[j].key = tag
             e == TxEnd(template, Len(template.txs))
  <1>1. /\ template \in Templates /\ text \in Seq(Lexeme) /\ Len(text) \in Nat
    BY LenProperties DEF Inv, TypeOK
  <1>2. /\ text = File(template) /\ hd \in Seq(APair) /\ tl \in Seq(APair)
        /\ text \in Text /\ Len(template.txs) \in Nat
    BY <1>1, FileFacts DEF Regular
  <1>3. Valued(pairs, tag) /\ Cardinality(Places(1, tag)) = 1
    BY DEF Named
  <1>4. /\ pairs \in Seq(APair) /\ Len(hd) \in Nat /\ Len(tl) \in Nat
        /\ Len(pairs) = Len(hd) + Len(tl) /\ DOMAIN pairs = 1..Len(pairs)
        /\ \A j \in 1..(Len(hd) + Len(tl)) :
             pairs[j] = IF j <= Len(hd) THEN hd[j] ELSE tl[j - Len(hd)]
    BY <1>2, ConcatProperties, LenProperties
  <1>5. n \in 1..Len(pairs) /\ pairs[n].key = tag
    <2>1. PICK pair \in ToSet(pairs) : pair.key = tag
      BY <1>3 DEF Valued
    <2>2. PICK j \in 1..Len(pairs) : pairs[j] = pair
      BY <1>4, <2>1 DEF ToSet
    <2> QED
      BY <2>1, <2>2
  <1>6. /\ Given(tag) = pairs[n].val[1] /\ pairs[n].val # <<>> /\ Given(tag) # Comma
    <2>1. Given(tag) = ValueOf(pairs, tag) /\ PairOf(pairs, tag) = pairs[n]
      BY DEF Given, PairOf
    <2> HIDE DEF n, pairs
    <2>2. ValueOf(pairs, tag) # Comma
      BY <1>3 DEF Valued, Comma
    <2>3. ValueOf(pairs, tag) = pairs[n].val[1] /\ pairs[n].val # <<>>
      BY <1>3, <2>1 DEF ValueOf, Valued
    <2> QED
      BY <2>1, <2>2, <2>3
  <1>7. /\ \A k \in 1..Len(Lexemes(hd)) : text[k] = Lexemes(hd)[k]
        /\ \A k \in 1..Len(Lexemes(tl)) : text[e + 2 + k] = Lexemes(tl)[k]
        /\ Len(text) = e + 2 + Len(Lexemes(tl))
        /\ e \in Nat
    <2>1. Len(template.txs) \in 0..Len(template.txs)
      BY <1>2
    <2> QED
      BY <1>1, <1>2, <2>1, FileFacts
  <1>8. Len(Lexemes(hd)) \in Nat /\ Len(Lexemes(tl)) \in Nat /\ Len(Lexemes(hd)) <= Len(text)
    <2>1. Len(Lexemes(hd)) \in Nat /\ Len(Lexemes(tl)) \in Nat
      BY <1>2, LexemesFacts
    <2>2. e >= Len(Lexemes(hd))
      BY <1>1, HeadFirst
    <2> QED
      BY <1>7, <2>1, <2>2
  <1> HIDE DEF n, hd, tl, e
  <1>9. \E k \in 1..Len(text) : /\ k + 1 <= Len(text) /\ text[k] = tag
                               /\ text[k + 1] = Given(tag)
    <2>1. CASE n <= Len(hd)
      <3>1. n \in 1..Len(hd) /\ pairs[n] = hd[n]
        BY <1>4, <1>5, <2>1
      <3>2. PICK q \in 1..Len(Lexemes(hd)) :
              /\ q + 1 <= Len(Lexemes(hd)) /\ Lexemes(hd)[q] = hd[n].key
              /\ Lexemes(hd)[q + 1] = IF hd[n].val = <<>> THEN Comma ELSE hd[n].val[1]
        BY <1>2, <3>1, LexemesFacts
      <3>3. q + 1 \in 1..Len(Lexemes(hd)) /\ q \in 1..Len(text) /\ q + 1 <= Len(text)
        BY <1>1, <1>8, <3>2
      <3>4. text[q] = tag /\ text[q + 1] = Given(tag)
        BY <1>5, <1>6, <1>7, <3>1, <3>2, <3>3
      <3> QED
        BY <3>3, <3>4
    <2>2. CASE ~(n <= Len(hd))
      <3> DEFINE j == n - Len(hd)
      <3>1. j \in 1..Len(tl) /\ pairs[n] = tl[j]
        BY <1>4, <1>5, <2>2
      <3> HIDE DEF j
      <3>2. PICK q \in 1..Len(Lexemes(tl)) :
              /\ q + 1 <= Len(Lexemes(tl)) /\ Lexemes(tl)[q] = tl[j].key
              /\ Lexemes(tl)[q + 1] = IF tl[j].val = <<>> THEN Comma ELSE tl[j].val[1]
        BY <1>2, <3>1, LexemesFacts
      <3> DEFINE k == e + 2 + q
      <3>3. /\ q + 1 \in 1..Len(Lexemes(tl)) /\ k \in 1..Len(text) /\ k + 1 <= Len(text)
            /\ k + 1 = e + 2 + (q + 1)
        BY <1>7, <1>8, <3>2
      <3>4. text[k] = Lexemes(tl)[q] /\ text[k + 1] = Lexemes(tl)[q + 1]
        BY <1>7, <3>3
      <3> HIDE DEF k
      <3>5. text[k] = tag /\ text[k + 1] = Given(tag)
        BY <1>5, <1>6, <3>1, <3>2, <3>4
      <3> QED
        BY <3>3, <3>5
    <2> QED
      BY <2>1, <2>2
  <1>10. PICK k \in 1..Len(text) : k + 1 <= Len(text) /\ text[k] = tag /\ text[k + 1] = Given(tag)
    BY <1>9
  <1>11. PICK u \in 1..Len(text) : \A r \in 1..Len(text) : text[r] = tag => r = u
    <2>1. Single(text, tag)
      BY <1>3 DEF Single, Places
    <2>2. \E u \in 1..Len(text) :
            text[u] = tag /\ \A r \in 1..Len(text) : text[r] = tag => r = u
      BY <1>2, <2>1, Once
    <2> QED
      BY <2>2
  <1>12. \A r \in 1..Len(text) : r < k => text[r] # tag
    <2>1. k = u
      BY <1>10, <1>11
    <2>2. \A r \in 1..Len(text) : r < k => r # k
      BY <1>1
    <2> QED
      BY <1>11, <2>1, <2>2
  <1>13. Word(Find(1, tag)) = text[k + 1]
    <2>1. FirstAt(1, tag, k)
      BY <1>6, <1>10, <1>12 DEF FirstAt
    <2>2. FoundAt(1, tag, k)
      BY <1>1, <2>1, FindAt
    <2> QED
      BY <2>2 DEF FoundAt
  <1> QED
    BY <1>10, <1>13 DEF Field

(* The leaves of a regular text are the hashes of its transactions.        *)
LEMMA LeavesExact ==
  ASSUME Len(tx_arr) = Len(template.txs), Matches
  PROVE  Leaves = [j \in 1..Len(template.txs) |-> ValueOf(template.txs[j], "hash")]
  <1>1. \A j \in 1..Len(tx_arr) : Leaf(tx_arr[j]) = ValueOf(template.txs[j], "hash")
    <2> SUFFICES ASSUME NEW j \in 1..Len(tx_arr)
                 PROVE  Leaf(tx_arr[j]) = ValueOf(template.txs[j], "hash")
      OBVIOUS
    <2>1. "hash" \in Tags
      BY DEF Tags
    <2>2. Word(tx_arr[j]["hash"]) = ValueOf(template.txs[j], "hash")
      BY <2>1 DEF Matches
    <2> QED
      BY <2>2 DEF Leaf
  <1> QED
    BY <1>1 DEF Leaves

-----------------------------------------------------------------------------
(* The theorems *)

(* The inductive invariant holds of every behaviour.                       *)
THEOREM Invariance == Spec => []Inv
  BY InitInv, NextStep, PTL DEF Spec

(* Every variable keeps its type: the words the program prints, and those  *)
(* it takes for the leaves of the tree, are read inside the text           *)
(* (main_block_template_parser.c), whatever part of the file was read.     *)
THEOREM TypeCorrect == Spec => []TypeOK
  <1>1. Inv => TypeOK
    BY DEF Inv
  <1> QED
    BY <1>1, Invariance, PTL

(* No piece of the text is used by two views: all of a view is behind all  *)
(* of the one before it and inside the text, for every template and every  *)
(* text, whole or cut off (json_blocktemplate_tx_scan).                    *)
THEOREM ViewsApartHolds == Spec => []ViewsApart
  <1>1. Inv => ViewsApart
    BY DEF Inv
  <1> QED
    BY <1>1, Invariance, PTL

(* Each view moves the scan on, and never beyond the NUL by more than one  *)
(* lexeme: the part of Ends that is a matter of safety.                    *)
ScanMovesOn ==
  [][tx_arr' # tx_arr => tmp < tmp' /\ tmp' <= Len(text) + 1]_vars

(* Each view of every behaviour moves the scan on.                         *)
THEOREM ScanMovesOnHolds == Spec => ScanMovesOn
  <1> DEFINE Moves == tx_arr' # tx_arr => tmp < tmp' /\ tmp' <= Len(text) + 1
  <1>1. ASSUME Inv, Next
        PROVE  Moves
    <2>1. CASE tx_arr' = tx_arr
      BY <2>1
    <2>2. CASE ScanTx
      BY <1>1, <2>2, ScanTxStep
    <2> QED
      BY <1>1, <2>1, <2>2
      DEF Next, Load, FindTransactions, ReadRoot, ReadFields, Ended, vars
  <1>2. Inv /\ [Next]_vars => [Moves]_vars
    BY <1>1
  <1> QED
    BY <1>2, Invariance, PTL DEF Spec, ScanMovesOn

(* There are fewer views than lexemes, so that the scan takes a number of  *)
(* turns that the length of the text bounds.                               *)
THEOREM FewViews == Spec => [](tx_arr # <<>> => Len(tx_arr) < Len(text))
  <1>1. Inv => (tx_arr # <<>> => Len(tx_arr) < Len(text))
    BY DEF Inv, ScanInv
  <1> QED
    BY <1>1, Invariance, PTL

(* Where the scan is: the NUL at most, also before the first view.         *)
PlaceIn == pc = "scan" => tmp <= Len(text) + 1

LEMMA PlaceStep == Inv /\ PlaceIn /\ [Next]_vars => PlaceIn'
  <1> SUFFICES ASSUME Inv, PlaceIn, [Next]_vars, pc' = "scan"
               PROVE  tmp' <= Len(text') + 1
    BY DEF PlaceIn
  <1>1. text \in Seq(Lexeme) /\ tmp \in Nat /\ Len(text) \in Nat
    BY LenProperties DEF Inv, TypeOK
  <1>2. CASE FindTransactions
    <2>1. /\ Places(1, "transactions") # {} /\ text' = text
          /\ tmp' = Min(Places(1, "transactions")) + 1
      BY <1>2 DEF FindTransactions
    <2>2. Min(Places(1, "transactions")) \in 1..Len(text)
      BY <1>1, <2>1, PlacesFacts
    <2> QED
      BY <1>1, <2>1, <2>2
  <1>3. CASE ScanTx
    <2>1. text' = text /\ pc = "scan"
      BY <1>3 DEF ScanTx
    <2>2. CASE tx_arr' # tx_arr
      BY <1>3, <2>1, <2>2, ScanTxStep
    <2>3. CASE tx_arr' = tx_arr
      <3>1. tmp' = tmp
        <4>1. CASE tx_arr' = Append(tx_arr, View(tmp)) /\ NoSpan \notin Spans(View(tmp))
          <5>1. View(tmp) \in AView /\ tx_arr \in Seq(AView) /\ Len(tx_arr) \in Nat
            BY <4>1, ViewFacts, LenProperties DEF Inv, TypeOK
          <5>2. Len(tx_arr') = Len(tx_arr) + 1
            BY <4>1, <5>1, AppendFacts
          <5> QED
            BY <2>3, <5>1, <5>2
        <4> QED
          BY <1>3, <4>1, Zenon DEF ScanTx
      <3> QED
        BY <2>1, <3>1 DEF PlaceIn
    <2> QED
      BY <2>2, <2>3
  <1>4. CASE UNCHANGED vars
    BY <1>4 DEF PlaceIn, vars
  <1> QED
    BY <1>2, <1>3, <1>4
    DEF Next, Load, ReadRoot, ReadFields, Ended

(* What is left to do: of the file, then of the text, a lexeme for each    *)
(* turn of the scan.                                                       *)
StepsLeft ==
  CASE pc = "load" -> Len(File(template)) + 4
    [] pc = "tag" -> Len(text) + 3
    [] pc = "scan" -> (Len(text) + 1 - tmp) + 3
    [] pc = "root" -> 2
    [] pc = "fields" -> 1
    [] OTHER -> 0

(* A text that is cut off is no longer than the file.                      *)
LEMMA LoadedShorter ==
  ASSUME template \in Templates, NEW t \in Loaded
  PROVE  Len(t) \in 0..Len(File(template))
  <1> DEFINE f == File(template)
  <1>1. f \in Seq(Piece) /\ Len(f) \in Nat
    BY FileText, LenProperties DEF Text
  <1>2. t \in {SubSeq(f, 1, i) : i \in 1..Len(f)}
          \cup {Append(SubSeq(f, 1, i), "cut") : i \in 0..(Len(f) - 1)}
    BY DEF Loaded
  <1> HIDE DEF f
  <1>3. ASSUME NEW i \in Nat, i <= Len(f)
        PROVE  SubSeq(f, 1, i) \in Seq(Piece) /\ Len(SubSeq(f, 1, i)) = i
    BY <1>1, <1>3, SubSeqProperties
  <1>4. CASE t \in {SubSeq(f, 1, i) : i \in 1..Len(f)}
    BY <1>1, <1>3, <1>4 DEF f
  <1>5. CASE t \in {Append(SubSeq(f, 1, i), "cut") : i \in 0..(Len(f) - 1)}
    <2>1. PICK i \in 0..(Len(f) - 1) : t = Append(SubSeq(f, 1, i), "cut")
      BY <1>5
    <2>2. i \in Nat /\ i <= Len(f) /\ i + 1 <= Len(f)
      BY <1>1
    <2>3. SubSeq(f, 1, i) \in Seq(Piece \cup {"cut"}) /\ Len(SubSeq(f, 1, i)) = i
      BY <1>3, <2>2
    <2>4. Len(t) = i + 1
      BY <2>1, <2>3, AppendFacts
    <2> QED
      BY <1>1, <2>2, <2>4 DEF f
  <1> QED
    BY <1>2, <1>4, <1>5

LEMMA FewerSteps ==
  ASSUME Inv, PlaceIn, Next, ~ UNCHANGED vars
  PROVE  StepsLeft' < StepsLeft /\ StepsLeft' \in Nat
  <1>1. /\ text \in Seq(Lexeme) /\ tmp \in Nat /\ Len(text) \in Nat
        /\ template \in Templates
    BY LenProperties DEF Inv, TypeOK
  <1>2. CASE Load
    <2>1. Len(File(template)) \in Nat
      BY <1>1, FileText, LenProperties DEF Text
    <2>2. pc = "load"
      BY <1>2 DEF Load
    <2>3. StepsLeft = Len(File(template)) + 4
      BY <2>2 DEF StepsLeft
    <2>4. CASE text' \in Loaded /\ pc' = "tag"
      <3>1. Len(text') \in 0..Len(File(template))
        BY <1>1, <2>4, LoadedShorter
      <3>2. StepsLeft' = Len(text') + 3
        BY <2>4 DEF StepsLeft
      <3> QED
        BY <2>1, <2>3, <3>1, <3>2
    <2>5. CASE pc' \in {"failed", "aborted", "crashed", "undefined"}
      <3>1. StepsLeft' = 0
        BY <2>5 DEF StepsLeft
      <3> QED
        BY <2>1, <2>3, <3>1
    <2> QED
      BY <1>2, <2>4, <2>5 DEF Load
  <1>3. CASE FindTransactions
    <2>1. pc = "tag" /\ text' = text
      BY <1>3 DEF FindTransactions
    <2>2. StepsLeft = Len(text) + 3
      BY <2>1 DEF StepsLeft
    <2>3. CASE Places(1, "transactions") = {}
      <3>1. pc' = "failed"
        BY <1>3, <2>3 DEF FindTransactions
      <3>2. StepsLeft' = 0
        BY <3>1 DEF StepsLeft
      <3> QED
        BY <1>1, <2>2, <3>2
    <2>4. CASE Places(1, "transactions") # {}
      <3>1. pc' = "scan" /\ tmp' = Min(Places(1, "transactions")) + 1
        BY <1>3, <2>4 DEF FindTransactions
      <3>2. Min(Places(1, "transactions")) \in 1..Len(text)
        BY <1>1, <2>4, PlacesFacts
      <3>3. StepsLeft' = (Len(text) + 1 - tmp') + 3
        BY <2>1, <3>1 DEF StepsLeft
      <3> QED
        BY <1>1, <2>2, <3>1, <3>2, <3>3
    <2> QED
      BY <2>3, <2>4
  <1>4. CASE ScanTx
    <2>1. pc = "scan" /\ text' = text /\ tmp <= Len(text) + 1
      BY <1>4 DEF ScanTx, PlaceIn
    <2>2. StepsLeft = (Len(text) + 1 - tmp) + 3
      BY <2>1 DEF StepsLeft
    <2>3. CASE pc' = "root"
      <3>1. StepsLeft' = 2
        BY <2>3 DEF StepsLeft
      <3> QED
        BY <1>1, <2>1, <2>2, <3>1
    <2>4. CASE /\ ~ (tmp > Len(text)) /\ NoSpan \notin Spans(View(tmp))
               /\ tmp' = After(View(tmp)) /\ pc' = pc
      <3>1. tmp <= Len(text)
        BY <1>1, <2>4
      <3>2. After(View(tmp)) \in Nat /\ tmp < After(View(tmp)) /\ After(View(tmp)) <= Len(text) + 1
        BY <2>4, <3>1, ViewFacts DEF Inv
      <3>3. tmp' \in Nat /\ tmp < tmp' /\ tmp' <= Len(text) + 1
        BY <2>4, <3>2
      <3>4. StepsLeft' = (Len(text) + 1 - tmp') + 3
        BY <2>1, <2>4 DEF StepsLeft
      <3> QED
        BY <1>1, <2>1, <2>2, <3>3, <3>4
    <2> QED
      BY <1>4, <2>3, <2>4, Zenon DEF ScanTx, Missing
  <1>5. CASE ReadRoot
    BY <1>5, SMT DEF ReadRoot, StepsLeft
  <1>6. CASE ReadFields
    BY <1>6, SMT DEF ReadFields, StepsLeft
  <1> QED
    BY <1>2, <1>3, <1>4, <1>5, <1>6 DEF Next, Ended

(* The parser comes to an end whatever the file holds and wherever it is   *)
(* cut off, with tags missing or repeated: each of its steps is one of     *)
(* Len(File(template)) + 4 at most, as each view moves the scan on         *)
(* (json_blocktemplate_tx_scan).                                           *)
THEOREM ParserProgress ==
  Spec => [][StepsLeft' < StepsLeft /\ StepsLeft' \in Nat]_vars
  <1>1. Init => PlaceIn
    BY DEF Init, PlaceIn
  <1>2. Inv /\ PlaceIn /\ [Next]_vars => [StepsLeft' < StepsLeft /\ StepsLeft' \in Nat]_vars
    BY FewerSteps
  <1> QED
    BY <1>1, <1>2, PlaceStep, Invariance, PTL DEF Spec

(* And so do the two about regular texts and the output.                   *)
LEMMA ExactInvariance == Spec => [](ExactInv /\ PrintInv)
  <1>1. Init => ExactInv /\ PrintInv
    BY DEF Init, ExactInv, PrintInv
  <1>2. Inv /\ (ExactInv /\ PrintInv) /\ [Next]_vars => (ExactInv /\ PrintInv)'
    BY ExactStep, PrintStep
  <1> QED
    BY <1>1, <1>2, Invariance, PTL DEF Spec

(* In a text whose tags are keys of the transactions only, the scan finds  *)
(* the transactions, each with its own data, txid and hash, in their order *)
(* (json_blocktemplate_tx_scan).                                           *)
THEOREM ScanExactHolds == Spec => []ScanExact
  <1>1. ExactInv => ScanExact
    <2> SUFFICES ASSUME ExactInv, pc \in {"root", "fields", "done"}, Regular
                 PROVE  [j \in 1..Len(tx_arr) |-> [tag \in Tags |-> Word(tx_arr[j][tag])]] =
                        [j \in 1..Len(template.txs) |->
                           [tag \in Tags |-> ValueOf(template.txs[j], tag)]]
      BY DEF ScanExact
    <2>1. Len(tx_arr) = Len(template.txs) /\ Matches
      BY DEF ExactInv
    <2>2. \A j \in 1..Len(tx_arr) :
            [tag \in Tags |-> Word(tx_arr[j][tag])] =
            [tag \in Tags |-> ValueOf(template.txs[j], tag)]
      BY <2>1 DEF Matches
    <2> QED
      BY <2>1, <2>2
  <1> QED
    BY <1>1, ExactInvariance, PTL

(* The header that is printed is made of the template's fields, wherever   *)
(* they stand, and of a root that is the one of the txids just when each   *)
(* transaction's hash is its txid (main_block_template_parser.c).          *)
THEOREM TemplateUsedHolds == Spec => []TemplateUsed
  <1>1. Inv /\ ExactInv /\ PrintInv => TemplateUsed
    <2> SUFFICES ASSUME Inv, ExactInv, PrintInv, pc = "done", Regular
                 PROVE  /\ Named("previousblockhash") =>
                             block.hash_prev_block = Given("previousblockhash")
                        /\ Named("mintime") => block.timestamp = Given("mintime")
                        /\ Named("bits") => block.bits = Given("bits")
                        /\ (block.hash_merkle_root =
                              [j \in 1..Len(template.txs) |-> ValueOf(template.txs[j], "txid")])
                             <=> \A tx \in ToSet(template.txs) :
                                   ValueOf(tx, "hash") = ValueOf(tx, "txid")
      BY DEF TemplateUsed
    <2>1. /\ block.hash_prev_block = Word(Field("previousblockhash"))
          /\ block.timestamp = Word(Field("mintime"))
          /\ block.bits = Word(Field("bits"))
          /\ block.hash_merkle_root = Leaves
      BY DEF PrintInv
    <2> DEFINE s == template.txs
    <2>2. Leaves = [j \in 1..Len(s) |-> ValueOf(s[j], "hash")]
      BY LeavesExact DEF ExactInv
    <2>3. ToSet(s) = {s[j] : j \in 1..Len(s)}
      <3>1. template \in Templates
        BY DEF Inv, TypeOK
      <3>2. s \in Seq(Seq(APair))
        BY <3>1, TemplatesAssumption
      <3> QED
        BY <3>2, LenProperties DEF ToSet
    <2> HIDE DEF s
    <2>4. (Leaves = [j \in 1..Len(s) |-> ValueOf(s[j], "txid")])
            <=> \A tx \in ToSet(s) : ValueOf(tx, "hash") = ValueOf(tx, "txid")
      <3>1. (Leaves = [j \in 1..Len(s) |-> ValueOf(s[j], "txid")])
              <=> \A j \in 1..Len(s) : ValueOf(s[j], "hash") = ValueOf(s[j], "txid")
        BY <2>2
      <3> QED
        BY <2>3, <3>1
    <2> QED
      BY <2>1, <2>4, FieldFound DEF s
  <1> QED
    BY <1>1, Invariance, ExactInvariance, PTL

(***************************************************************************)
(* The builder                                                             *)
(*                                                                         *)
(* Its variables and actions have other names than those of the parser.    *)
(* Its blocks are joined like texts, so the lemmas about FlattenSeq above  *)
(* serve both.                                                             *)
(***************************************************************************)

Cells == Seq(Nat)

(* A digit has two values at least, so a byte has four. *)
LEMMA BaseFacts ==
  /\ Nibble \in Nat /\ Nibble >= 2 /\ ByteMod \in Nat /\ ByteMod >= 4
  /\ ByteMod = Nibble * Nibble
  <1>1. Nibble \in Nat /\ Nibble >= 2
    BY SizesAssumption
  <1>2. Nibble * Nibble \in Nat /\ Nibble * Nibble >= 4
    <2>1. Nibble * Nibble >= 2 * Nibble
      BY <1>1
    <2> QED
      BY <1>1, <2>1
  <1> QED
    BY <1>1, <1>2 DEF ByteMod

(* There is a function that its recursion defines. *)
LEMMA PowerExists ==
  ASSUME NEW b \in Nat, b # 0
  PROVE  \E f : f = [k \in 0..8 |-> IF k = 0 THEN 1 ELSE f[k - 1] * b]
  <1> DEFINE V == Nat \ {0}
             G == [k \in 1..8 |-> [v \in V |-> v * b]]
  <1>1. \A v \in V : v * b \in V
    BY SMT
  <1>2. 1 \in V /\ 8 \in Nat
    OBVIOUS
  <1> HIDE DEF V
  <1>3. G \in [1..8 -> [V -> V]] /\ \A k \in 1..8 : \A v \in V : G[k][v] = v * b
    BY <1>1
  <1> HIDE DEF G
  <1>4. PICK f : Chain(f, V, 1, 8, G)
    BY <1>2, <1>3, ChainExists
  <1>5. f \in [0..8 -> V] /\ f[0] = 1
    BY <1>4 DEF Chain
  <1>6. ASSUME NEW k \in 1..8
        PROVE  f[k] = f[k - 1] * b
    <2>1. k - 1 \in 0..8
      OBVIOUS
    <2>2. f[k - 1] \in V /\ f[k] = G[k][f[k - 1]]
      BY <2>1, <1>4 DEF Chain
    <2> QED
      BY <1>3, <2>2
  <1>7. ASSUME NEW k \in 0..8
        PROVE  f[k] = IF k = 0 THEN 1 ELSE f[k - 1] * b
    <2>1. CASE k = 0
      BY <1>5, <2>1
    <2>2. CASE k # 0
      <3>1. k \in 1..8
        BY <2>2
      <3> QED
        BY <1>6, <2>2, <3>1
    <2> QED
      BY <2>1, <2>2
  <1>8. f = [k \in 0..8 |-> f[k]]
    BY <1>5
  <1> QED
    BY <1>7, <1>8

(* What the widths can hold. *)
LEMMA PowerFacts ==
  /\ Power[0] = 1
  /\ \A k \in 0..8 : Power[k] \in Nat /\ Power[k] > 0
  /\ \A k \in 1..8 : Power[k] = Power[k - 1] * ByteMod
  <1> DEFINE p == Power
             b == ByteMod
             IsPower(f) == f = [k \in 0..8 |-> IF k = 0 THEN 1 ELSE f[k - 1] * b]
  <1>1. b \in Nat /\ b # 0
    BY BaseFacts
  <1>2. p = CHOOSE f : IsPower(f)
    BY DEF Power
  <1> HIDE DEF p, b
  <1>3. \E f : IsPower(f)
    BY <1>1, PowerExists
  <1>4. IsPower(p)
    BY <1>2, <1>3
  <1>5. \A k \in 0..8 : p[k] = IF k = 0 THEN 1 ELSE p[k - 1] * b
    BY <1>4
  <1>6. p[0] = 1
    BY <1>5
  <1>7. \A k \in 1..8 : p[k] = p[k - 1] * b
    <2> TAKE k \in 1..8
    <2>1. k \in 0..8 /\ k # 0
      OBVIOUS
    <2> QED
      BY <1>5, <2>1
  <1> DEFINE T == {k \in 0..8 : p[k] \in Nat /\ p[k] > 0}
  <1>8. 0 \in T
    BY <1>6
  <1>9. ASSUME NEW k \in 1..8, k - 1 \in T
        PROVE  k \in T
    <2>1. k \in 0..8 /\ p[k] = p[k - 1] * b /\ p[k - 1] \in Nat /\ p[k - 1] > 0
      BY <1>7, <1>9
    <2> DEFINE x == p[k - 1]
    <2>2. x * b \in Nat /\ x * b > 0
      <3>1. x \in Nat /\ x > 0
        BY <2>1
      <3> HIDE DEF x
      <3> QED
        BY ONLY <1>1, <3>1, SMT
    <2> QED
      BY <2>1, <2>2
  <1> HIDE DEF T
  <1>10. 0..8 \subseteq T
    <2>1. 8 \in Nat
      OBVIOUS
    <2> QED
      BY <2>1, <1>8, <1>9, Induction
  <1>11. \A k \in 0..8 : p[k] \in Nat /\ p[k] > 0
    BY <1>10 DEF T
  <1> QED
    BY <1>6, <1>7, <1>11 DEF p, b

(* What an integer may be. *)
LEMMA UIntFacts ==
  \A w \in 0..8 : UInt(w) \subseteq Nat /\ \A v \in Nat : v \in UInt(w) <=> v < Power[w]
  <1> TAKE w \in 0..8
  <1>1. Power[w] \in Nat
    BY PowerFacts
  <1> QED
    BY <1>1 DEF UInt

(* An integer is a number. *)
LEMMA UInts ==
  /\ UInt(1) \subseteq Nat /\ UInt(4) \subseteq Nat /\ UInt(8) \subseteq Nat
  /\ 0 \in UInt(1) /\ 0 \in UInt(4) /\ 0 \in UInt(8)
  <1>1. 1 \in 0..8 /\ 4 \in 0..8 /\ 8 \in 0..8
    OBVIOUS
  <1> QED
    BY <1>1, UIntFacts, PowerFacts

(* Division and its rest. *)
LEMMA DivFacts ==
  ASSUME NEW x \in Nat, NEW p \in Nat, p > 0
  PROVE  x \div p \in Nat /\ x % p \in Nat /\ x % p < p /\ x = (x \div p) * p + (x % p)
  <1> DEFINE q == x \div p
             r == x % p
  <1>1. r \in 0..(p - 1) /\ q \in Nat /\ x = q * p + r
    BY SMT
  <1> HIDE DEF q, r
  <1>2. r \in Nat /\ r < p
    BY <1>1
  <1> QED
    BY <1>1, <1>2 DEF q, r

(* An integer of w bytes is w numbers. *)
LEMMA UFacts ==
  ASSUME NEW w \in 1..8, NEW val \in Nat
  PROVE  U(w, val) \in Cells /\ Len(U(w, val)) = w
  <1>1. ASSUME NEW k \in 1..w
        PROVE  (val \div Power[k - 1]) % ByteMod \in Nat
    <2> DEFINE p == Power[k - 1]
               b == ByteMod
               x == val \div p
    <2>1. k - 1 \in 0..8
      OBVIOUS
    <2>2. p \in Nat /\ p > 0 /\ b \in Nat /\ b > 0
      BY <2>1, PowerFacts, BaseFacts
    <2> HIDE DEF p, b
    <2>3. x \in Nat
      BY <2>2, DivFacts
    <2> HIDE DEF x
    <2>4. x % b \in Nat
      BY <2>2, <2>3, DivFacts
    <2> QED
      BY <2>4 DEF x, p, b
  <1>2. U(w, val) = [k \in 1..w |-> (val \div Power[k - 1]) % ByteMod]
    BY DEF U
  <1>3. w \in Nat
    OBVIOUS
  <1> QED
    BY <1>1, <1>2, <1>3, IsASeq, LenProperties DEF Cells

(* What comes in front of the longer forms of a varint is a number. *)
LEMMA PrefixFacts ==
  \A w \in {2, 4, 8} : Prefix(w) \in Nat
  <1>1. Prefix(2) = ByteMod - 3
    BY DEF Prefix
  <1>2. Prefix(4) = ByteMod - 2
    BY DEF Prefix
  <1>3. Prefix(8) = ByteMod - 1
    BY DEF Prefix
  <1> QED
    BY <1>1, <1>2, <1>3, BaseFacts

(* Numbers behind numbers are numbers. *)
LEMMA Joining == \A a, b \in Cells : a \o b \in Cells
  BY ConcatProperties DEF Cells

(* One number is a sequence of them. *)
LEMMA OneCell == \A c \in Nat : <<c>> \in Cells
  BY DEF Cells

(* A varint is numbers. *)
LEMMA VarintFacts ==
  ASSUME NEW val \in Nat
  PROVE  Varint(val) \in Cells
  <1>1. \A w \in {1, 2, 4, 8} : U(w, val) \in Cells
    <2>1. \A w \in {1, 2, 4, 8} : w \in 1..8
      OBVIOUS
    <2> QED
      BY <2>1, UFacts
  <1>2. \A w \in {2, 4, 8} : <<Prefix(w)>> \in Cells
    BY PrefixFacts, OneCell
  <1>3. \A w \in {2, 4, 8} : <<Prefix(w)>> \o U(w, val) \in Cells
    BY <1>1, <1>2, Joining
  <1> QED
    BY <1>1, <1>3 DEF Varint

(* Parts of numbers, one behind the other, are numbers. *)
LEMMA FlatCells ==
  ASSUME NEW n \in Nat, NEW s, s = [j \in 1..n |-> s[j]], \A j \in 1..n : s[j] \in Cells
  PROVE  FlattenSeq(s) \in Cells
  <1>1. s \in Seq(Cells) /\ Len(s) = n
    BY IsASeq, LenProperties
  <1>2. PICK f : Joins(f, s, Cells)
    BY <1>1, JoinsExist DEF Cells
  <1>3. n \in 0..n
    OBVIOUS
  <1> QED
    BY <1>1, <1>2, <1>3 DEF Joins

(* Bytes are numbers, and may be counted. *)
LEMMA ByteCells ==
  ASSUME NEW s \in Vector(UInt(1))
  PROVE  s \in Cells /\ Len(s) \in UInt(8) /\ Len(s) \in Nat
  <1>1. s \in Seq(UInt(1)) /\ Len(s) \in UInt(8)
    BY DEF Vector
  <1>2. Len(s) \in Nat /\ s = [k \in 1..Len(s) |-> s[k]] /\ \A k \in 1..Len(s) : s[k] \in Nat
    BY <1>1, UInts, LenProperties, ElementOfSeq
  <1>3. [k \in 1..Len(s) |-> s[k]] \in Seq(Nat)
    BY <1>2, IsASeq
  <1> QED
    BY <1>1, <1>2, <1>3 DEF Cells

(* A hash is numbers. *)
LEMMA HashCells ==
  ASSUME NEW h \in AHash
  PROVE  h \in Cells /\ Len(h) = HashSize /\ HashSize \in Nat
  <1>1. HashSize \in Nat /\ h \in [1..HashSize -> UInt(1)]
    BY SizesAssumption, UInts DEF AHash
  <1>2. h = [k \in 1..HashSize |-> h[k]] /\ \A k \in 1..HashSize : h[k] \in Nat
    BY <1>1, UInts
  <1>3. [k \in 1..HashSize |-> h[k]] \in Seq(Nat) /\ Len([k \in 1..HashSize |-> h[k]]) = HashSize
    BY <1>1, <1>2, IsASeq, LenProperties
  <1> QED
    BY <1>1, <1>2, <1>3 DEF Cells

(* What the fields of a transaction are. *)
LEMMA TxFacts ==
  ASSUME NEW t \in ATx
  PROVE  /\ t.version \in UInt(4) /\ t.marker \in UInt(1) /\ t.flags \in UInt(1)
         /\ t.lock_time \in UInt(4)
         /\ t.version \in Nat /\ t.marker \in Nat /\ t.flags \in Nat /\ t.lock_time \in Nat
         /\ t.ins \in Seq(AnInput) /\ Len(t.ins) \in UInt(8) /\ in_count(t) = Len(t.ins)
         /\ t.outs \in Seq(AnOutput) /\ Len(t.outs) \in UInt(8)
         /\ Len(t.ins) \in Nat /\ Len(t.outs) \in Nat
         /\ t.witness \in Seq(Vector(Vector(UInt(1))))
  BY UInts DEF ATx, Vector, in_count

(* What the fields of an input and of an output are. *)
LEMMA PointFacts ==
  /\ \A e \in AnInput : /\ e.txid \in AHash /\ e.vout \in UInt(4) /\ e.sequence \in UInt(4)
                        /\ e.script \in Vector(UInt(1)) /\ e.vout \in Nat /\ e.sequence \in Nat
                        /\ e = [txid |-> e.txid, vout |-> e.vout, script |-> e.script,
                                sequence |-> e.sequence]
  /\ \A e \in AnOutput : /\ e.amount \in UInt(8) /\ e.script \in Vector(UInt(1)) /\ e.amount \in Nat
                         /\ e = [amount |-> e.amount, script |-> e.script]
  BY UInts DEF AnInput, AnOutput

(* A size and what has it are numbers. *)
LEMMA SizedFacts ==
  ASSUME NEW s \in Cells
  PROVE  Sized(s) \in Cells
  <1>1. Len(s) \in Nat
    BY LenProperties DEF Cells
  <1> QED
    BY <1>1, VarintFacts, Joining DEF Sized

(* The integers that a block has are numbers. *)
LEMMA FourCells ==
  ASSUME NEW val \in Nat
  PROVE  U(1, val) \in Cells /\ U(4, val) \in Cells /\ U(8, val) \in Cells
  <1>1. 1 \in 1..8 /\ 4 \in 1..8 /\ 8 \in 1..8
    OBVIOUS
  <1> QED
    BY <1>1, UFacts

(* The inputs of a transaction are numbers. *)
LEMMA InputsCells ==
  ASSUME NEW t \in ATx
  PROVE  Inputs(t) \in Cells /\ in_count(t) \in Nat
  <1> DEFINE n == in_count(t)
             W(j) == t.ins[j].txid \o U(4, t.ins[j].vout) \o Sized(t.ins[j].script)
                       \o U(4, t.ins[j].sequence)
             s == [j \in 1..n |-> W(j)]
  <1>1. n \in Nat /\ n = Len(t.ins) /\ \A j \in 1..n : t.ins[j] \in AnInput
    BY TxFacts, ElementOfSeq
  <1>2. ASSUME NEW j \in 1..n
        PROVE  W(j) \in Cells
    <2>1. /\ t.ins[j].txid \in AHash /\ t.ins[j].vout \in Nat
          /\ t.ins[j].script \in Vector(UInt(1)) /\ t.ins[j].sequence \in Nat
      BY <1>1, PointFacts
    <2>2. t.ins[j].txid \in Cells /\ t.ins[j].script \in Cells
      BY <2>1, HashCells, ByteCells
    <2>3. /\ U(4, t.ins[j].vout) \in Cells /\ U(4, t.ins[j].sequence) \in Cells
          /\ Sized(t.ins[j].script) \in Cells
      BY <2>1, <2>2, FourCells, SizedFacts
    <2> QED
      BY <2>2, <2>3, Joining
  <1>3. FlattenSeq(s) \in Cells
    <2>1. s = [j \in 1..n |-> s[j]] /\ \A j \in 1..n : s[j] \in Cells
      BY <1>2
    <2> HIDE DEF s, n
    <2> QED
      BY <1>1, <2>1, FlatCells
  <1>4. Varint(n) \in Cells
    BY <1>1, VarintFacts
  <1>5. Inputs(t) = Varint(n) \o FlattenSeq(s)
    BY DEF Inputs, Many
  <1> QED
    BY <1>1, <1>3, <1>4, <1>5, Joining

(* So are its outputs. *)
LEMMA OutputsCells ==
  ASSUME NEW t \in ATx
  PROVE  Outputs(t) \in Cells
  <1> DEFINE n == Len(t.outs)
             W(j) == U(8, t.outs[j].amount) \o Sized(t.outs[j].script)
             s == [j \in 1..n |-> W(j)]
  <1>1. n \in Nat /\ \A j \in 1..n : t.outs[j] \in AnOutput
    BY TxFacts, ElementOfSeq
  <1>2. ASSUME NEW j \in 1..n
        PROVE  W(j) \in Cells
    <2>1. t.outs[j].amount \in Nat /\ t.outs[j].script \in Vector(UInt(1))
      BY <1>1, PointFacts
    <2>2. t.outs[j].script \in Cells
      BY <2>1, ByteCells
    <2>3. U(8, t.outs[j].amount) \in Cells /\ Sized(t.outs[j].script) \in Cells
      BY <2>1, <2>2, FourCells, SizedFacts
    <2> QED
      BY <2>3, Joining
  <1>3. FlattenSeq(s) \in Cells
    <2>1. s = [j \in 1..n |-> s[j]] /\ \A j \in 1..n : s[j] \in Cells
      BY <1>2
    <2> HIDE DEF s, n
    <2> QED
      BY <1>1, <2>1, FlatCells
  <1>4. Varint(n) \in Cells
    BY <1>1, VarintFacts
  <1>5. Outputs(t) = Varint(n) \o FlattenSeq(s)
    BY DEF Outputs, Many
  <1> QED
    BY <1>3, <1>4, <1>5, Joining

(* Even behind the last item there is something to write. *)
LEMMA ItemCells ==
  ASSUME NEW items \in Vector(Vector(UInt(1))), NEW k \in Nat, k > 0
  PROVE  Item(items, k) \in Cells
  <1> DEFINE S == Vector(UInt(1))
  <1>0. items \in Seq(S)
    BY DEF Vector
  <1>1. Len(items) \in Nat /\ \A j \in 1..Len(items) : items[j] \in S
    BY <1>0, LenProperties, ElementOfSeq
  <1>2. \A s \in S : s \in Cells
    BY ByteCells
  <1>3. <<ByteMod>> \in Cells
    BY BaseFacts, OneCell
  <1> HIDE DEF S
  <1>4. k <= Len(items) => items[k] \in Cells
    BY <1>1, <1>2
  <1> QED
    BY <1>3, <1>4 DEF Item

(* So is the stack of an input, whatever its fields are counted as. *)
LEMMA StackCells ==
  ASSUME NEW t, in_count(t) \in Nat, NEW items \in Vector(Vector(UInt(1))),
         NEW s, s = [k \in 1..Fields(t, items) |-> Sized(Item(items, k))]
  PROVE  Varint(Len(items)) \o FlattenSeq(s) \in Cells
  <1> DEFINE n == Fields(t, items)
  <1>1. n \in Nat
    BY DEF Fields
  <1>2. ASSUME NEW k \in 1..n
        PROVE  Sized(Item(items, k)) \in Cells
    <2>1. k \in Nat /\ k > 0
      BY <1>1
    <2> QED
      BY <2>1, ItemCells, SizedFacts
  <1>3. s = [k \in 1..n |-> s[k]] /\ \A k \in 1..n : s[k] \in Cells
    BY <1>2
  <1> HIDE DEF n
  <1>4. FlattenSeq(s) \in Cells
    BY <1>1, <1>3, FlatCells
  <1>5. Varint(Len(items)) \in Cells
    BY LenProperties, VarintFacts DEF Vector
  <1> QED
    BY <1>4, <1>5, Joining

(* So are the stacks of all inputs, when there is one for each. *)
LEMMA WitnessesCells ==
  ASSUME NEW t \in ATx, Len(t.witness) = in_count(t)
  PROVE  Witnesses(t) \in Cells
  <1> DEFINE n == in_count(t)
             F(j) == [k \in 1..Fields(t, t.witness[j]) |->
                        Sized(Item(t.witness[j], k))]
             W(j) == Varint(Len(t.witness[j])) \o FlattenSeq(F(j))
             s == [j \in 1..n |-> W(j)]
  <1>1. n \in Nat /\ \A j \in 1..n : t.witness[j] \in Vector(Vector(UInt(1)))
    BY InputsCells, TxFacts, ElementOfSeq
  <1>2. ASSUME NEW j \in 1..n
        PROVE  W(j) \in Cells
    BY <1>1, StackCells
  <1>3. FlattenSeq(s) \in Cells
    <2>1. s = [j \in 1..n |-> s[j]] /\ \A j \in 1..n : s[j] \in Cells
      BY <1>2
    <2> HIDE DEF s, n
    <2> QED
      BY <1>1, <2>1, FlatCells
  <1>4. Varint(n) \in Cells
    BY <1>1, VarintFacts
  <1>5. Witnesses(t) = Varint(n) \o FlattenSeq(s)
    BY DEF Witnesses, Many
  <1> QED
    BY <1>3, <1>4, <1>5, Joining

(* So is a transaction, with or without a witness. *)
LEMMA TransactionCells ==
  ASSUME NEW t \in Txs
  PROVE  Transaction(t) \in Cells
  <1>1. /\ t \in ATx
        /\ t.flags # 0 => Len(t.witness) = in_count(t)
    BY TxsAssumption
  <1>2. t.version \in Nat /\ t.marker \in Nat /\ t.flags \in Nat /\ t.lock_time \in Nat
    BY <1>1, TxFacts
  <1>3. /\ U(4, t.version) \in Cells /\ U(1, t.marker) \in Cells
        /\ U(1, t.flags) \in Cells /\ U(4, t.lock_time) \in Cells
    BY <1>1, <1>2, FourCells
  <1>4. Inputs(t) \in Cells /\ Outputs(t) \in Cells
    BY <1>1, InputsCells, OutputsCells
  <1>5. t.flags # 0 => Witnesses(t) \in Cells
    BY <1>1, WitnessesCells
  <1>6. Legacy(t) \in Cells
    BY <1>3, <1>4, Joining DEF Legacy
  <1>7. t.flags # 0 => Segwit(t) \in Cells
    BY <1>3, <1>4, <1>5, Joining DEF Segwit
  <1> QED
    BY <1>6, <1>7 DEF Transaction

HashOfCells == {h \in Cells : Len(h) = HashSize}

AHeaderOfCells ==
  [version : UInt(4), hash_prev_block : HashOfCells, hash_merkle_root : HashOfCells,
   timestamp : UInt(4), bits : UInt(4), nonce : UInt(4)]

(* So is a header. *)
LEMMA HeaderCells ==
  ASSUME NEW h \in AHeaderOfCells
  PROVE  Header(h) \in Cells
  <1>1. /\ h.version \in Nat /\ h.timestamp \in Nat /\ h.bits \in Nat /\ h.nonce \in Nat
        /\ h.hash_prev_block \in Cells /\ h.hash_merkle_root \in Cells
    BY UInts DEF AHeaderOfCells, HashOfCells
  <1>2. /\ U(4, h.version) \in Cells /\ U(4, h.timestamp) \in Cells
        /\ U(4, h.bits) \in Cells /\ U(4, h.nonce) \in Cells
    BY <1>1, FourCells
  <1> QED
    BY <1>1, <1>2, Joining DEF Header

(***************************************************************************)
(* The files                                                               *)
(***************************************************************************)

(* The digits of every byte, the higher one first, and the end. *)
LEMMA HexFacts ==
  ASSUME NEW s \in Cells
  PROVE  LET h == HexForward(s)
             n == Len(s)
         IN  /\ n \in Nat /\ h \in Seq(Int) /\ Len(h) = 2 * n + 1 /\ h[2 * n + 1] = -1
             /\ \A k \in 1..(2 * n) : h[k] \in Nat
             /\ \A k \in 1..n : h[2 * k - 1] * Nibble + h[2 * k] = s[k]
  <1> DEFINE n == Len(s)
             D(k) == DigitsOfByte(s[(k + 1) \div 2])[2 - (k % 2)]
             d == [k \in 1..(2 * n) |-> D(k)]
             e == <<-1>>
             h == d \o e
  <1>1. n \in Nat /\ \A k \in 1..n : s[k] \in Nat
    BY LenProperties, ElementOfSeq DEF Cells
  <1>2. Nibble \in Nat /\ Nibble > 0
    BY BaseFacts
  <1> HIDE DEF n
  <1>3. ASSUME NEW k \in 1..n
        PROVE  D(2 * k - 1) = s[k] \div Nibble /\ D(2 * k) = s[k] % Nibble
    <2>1. ((2 * k - 1) + 1) \div 2 = k /\ (2 * k - 1) % 2 = 1
      BY <1>1
    <2>2. (2 * k + 1) \div 2 = k /\ (2 * k) % 2 = 0
      BY <1>1
    <2>3. D(2 * k - 1) = DigitsOfByte(s[k])[2 - 1]
      BY <2>1
    <2>4. D(2 * k) = DigitsOfByte(s[k])[2 - 0]
      BY <2>2
    <2>5. 2 - 1 = 1 /\ 2 - 0 = 2
      OBVIOUS
    <2>6. /\ DigitsOfByte(s[k])[1] = s[k] \div Nibble
          /\ DigitsOfByte(s[k])[2] = s[k] % Nibble
      BY DEF DigitsOfByte
    <2> QED
      BY <2>3, <2>4, <2>5, <2>6
  <1>4. ASSUME NEW k \in 1..n
        PROVE  /\ D(2 * k - 1) \in Nat /\ D(2 * k) \in Nat
               /\ D(2 * k - 1) * Nibble + D(2 * k) = s[k]
    <2> DEFINE x == D(2 * k - 1)
               y == D(2 * k)
               z == s[k]
               u == z \div Nibble
               v == z % Nibble
    <2>1. z \in Nat
      BY <1>1
    <2>2. x = u /\ y = v
      BY <1>3
    <2> HIDE DEF x, y, z
    <2>3. u \in Nat /\ v \in Nat /\ z = u * Nibble + v
      BY <1>2, <2>1, DivFacts
    <2> HIDE DEF u, v
    <2>4. x \in Nat /\ y \in Nat /\ x * Nibble + y = z
      BY ONLY <2>2, <2>3
    <2> QED
      BY <2>4 DEF x, y, z
  <1>5. ASSUME NEW k \in 1..(2 * n)
        PROVE  D(k) \in Nat
    <2> DEFINE j == (k + 1) \div 2
    <2>1. j \in 1..n /\ (k = 2 * j - 1 \/ k = 2 * j)
      BY <1>1
    <2> HIDE DEF j
    <2>2. D(2 * j - 1) \in Nat /\ D(2 * j) \in Nat
      BY <1>4, <2>1
    <2> HIDE DEF D
    <2> QED
      BY <2>1, <2>2
  <1> HIDE DEF D
  <1>6. 2 * n \in Nat /\ \A k \in 1..(2 * n) : D(k) \in Int
    BY <1>1, <1>5
  <1>7. d \in Seq(Int) /\ Len(d) = 2 * n /\ \A k \in 1..(2 * n) : d[k] = D(k)
    <2>1. d \in Seq(Int)
      BY <1>6, IsASeq
    <2> QED
      BY <1>6, <2>1, LenProperties
  <1> HIDE DEF d
  <1>8. e \in Seq(Int) /\ Len(e) = 1 /\ e[1] = -1
    OBVIOUS
  <1> HIDE DEF e
  <1>9. /\ h \in Seq(Int) /\ Len(h) = Len(d) + Len(e)
        /\ \A k \in 1..(Len(d) + Len(e)) : h[k] = IF k <= Len(d) THEN d[k] ELSE e[k - Len(d)]
    BY <1>7, <1>8, ConcatProperties
  <1>10. h = HexForward(s)
    BY DEF h, d, e, D, n, HexForward, Nul
  <1> HIDE DEF h
  <1>11. Len(h) = 2 * n + 1
    BY <1>6, <1>7, <1>8, <1>9
  <1>12. \A k \in 1..(2 * n) : h[k] = D(k)
    BY <1>6, <1>7, <1>8, <1>9
  <1>13. h[2 * n + 1] = -1
    <2>1. 2 * n + 1 \in 1..(Len(d) + Len(e)) /\ ~(2 * n + 1 <= Len(d)) /\ 2 * n + 1 - Len(d) = 1
      BY <1>6, <1>7, <1>8
    <2> QED
      BY <1>8, <1>9, <2>1
  <1>14. ASSUME NEW k \in 1..n
         PROVE  h[2 * k - 1] * Nibble + h[2 * k] = s[k]
    <2>1. 2 * k - 1 \in 1..(2 * n) /\ 2 * k \in 1..(2 * n)
      BY <1>1
    <2>2. h[2 * k - 1] = D(2 * k - 1) /\ h[2 * k] = D(2 * k)
      BY <1>12, <2>1
    <2> QED
      BY <1>4, <2>2
  <1>15. \A k \in 1..(2 * n) : h[k] \in Nat
    BY <1>5, <1>12
  <1> QED
    BY <1>1, <1>9, <1>10, <1>11, <1>13, <1>14, <1>15 DEF n

(* What is cut off is a prefix. *)
LEMMA CutFacts ==
  ASSUME NEW S, NEW s \in Seq(S), NEW b \in Cuts(s)
  PROVE  /\ b \in Seq(S) /\ Len(b) \in Nat /\ Len(s) \in Nat /\ Len(b) <= Len(s)
         /\ \A k \in 1..Len(b) : b[k] = s[k]
         /\ SubSeq(b, 1, Len(b)) = SubSeq(s, 1, Len(b))
  <1>1. Len(s) \in Nat
    BY LenProperties
  <1>2. PICK n \in 0..Len(s) : b = SubSeq(s, 1, n)
    BY DEF Cuts
  <1>3. \A q \in Seq(S) : \A m \in 0..Len(q) :
          /\ SubSeq(q, 1, m) \in Seq(S) /\ Len(SubSeq(q, 1, m)) = m
          /\ \A k \in 1..m : SubSeq(q, 1, m)[k] = q[k]
    <2> TAKE q \in Seq(S)
    <2> TAKE m \in 0..Len(q)
    <2>1. Len(q) \in Nat /\ m \in Nat
      BY LenProperties
    <2>2. 1 \in 1..(Len(q) + 1) /\ m \in 0..Len(q) /\ 1 \in Nat
      BY <2>1
    <2> QED
      BY <2>1, <2>2, SubSeqProperties
  <1>4. b \in Seq(S) /\ Len(b) = n /\ \A k \in 1..n : b[k] = s[k]
    BY <1>2, <1>3
  <1>5. SubSeq(b, 1, n) = b
    <2> DEFINE c == SubSeq(b, 1, n)
    <2>1. n \in 0..Len(b)
      BY <1>1, <1>4
    <2>2. c \in Seq(S) /\ Len(c) = n /\ \A k \in 1..n : c[k] = b[k]
      BY <1>3, <1>4, <2>1
    <2> HIDE DEF c
    <2>3. c = b
      BY <1>4, <2>2, SeqEqual
    <2> QED
      BY <2>3 DEF c
  <1> QED
    BY <1>1, <1>2, <1>4, <1>5

AnOptions ==
  [prev_block_hash : Seq(0..(Nibble - 1)) \cup {Unset}, bits : UInt(4), timestamp : UInt(4),
   obin : SUBSET STRING, ohex : SUBSET STRING]

PrevHash ==
  IF opts.prev_block_hash = Unset THEN ZeroHash ELSE HashOfDigits(opts.prev_block_hash)

(* The header commits to the transaction and to the string that was given. *)
Filled ==
  /\ tx_info \in Txs /\ header \in AHeaderOfCells
  /\ header.hash_merkle_root = Txid(tx_info) /\ header.hash_prev_block = PrevHash
  /\ opts.prev_block_hash # Unset => Len(opts.prev_block_hash) >= HashStringSize

(* Before the block is appended, what it is made of has its types; then    *)
(* the buffer holds it, and only then a file is written.                   *)
BuilderTypeOK ==
  /\ argv \in Seq(AnArg) /\ index \in Nat \ {0} /\ opts \in AnOptions
  /\ step \in {"append", "bin", "hex", "done"} => Filled
  /\ buf \in Cells /\ hex \in {<<>>, HexForward(buf)}
  /\ step \in {"opts", "usage", "aborted", "append", "bin", "hex", "done"}

Held(f) ==
  \/ files[f] = Before
  \/ \E path \in opts.obin : FileAt(path) = f /\ files[f] \in Cuts(buf)
  \/ \E path \in opts.ohex : FileAt(path) = f /\ files[f] \in Cuts(HexForward(buf))

Files ==
  /\ step \in {"opts", "append"} => (\A f \in DOMAIN files : files[f] = Before) /\ hex = <<>>
  /\ \A f \in DOMAIN files : Held(f)

Appended ==
  \/ buf = <<>> /\ step \notin {"bin", "hex", "done"}
  \/ /\ step \in {"bin", "hex", "done", "aborted"} /\ Filled
     /\ buf = Header(header) \o Varint(1) \o Transaction(tx_info)

BuilderInv == BuilderTypeOK /\ Appended /\ Files

(* The invariant holds initially. *)
LEMMA BuilderInitial == BuilderInit => BuilderInv
  <1> SUFFICES ASSUME BuilderInit
               PROVE  BuilderInv
    OBVIOUS
  <1>1. argv \in Seq(AnArg)
    BY ArgumentsAssumption DEF BuilderInit
  <1>2. opts \in AnOptions
    BY UInts DEF BuilderInit, AnOptions
  <1>3. buf = <<>> /\ <<>> \in Cells
    BY DEF BuilderInit, Cells
  <1> QED
    BY <1>1, <1>2, <1>3 DEF BuilderInit, BuilderInv, BuilderTypeOK, Appended, Files, Held

(* An argument leaves options of their types, and no file is written yet. *)
LEMMA ParseOptStep == BuilderInv /\ ParseOpt => BuilderInv'
  <1> SUFFICES ASSUME BuilderInv, ParseOpt
               PROVE  BuilderInv'
    OBVIOUS
  <1>1. /\ step = "opts" /\ step' \in {"opts", "usage"}
        /\ UNCHANGED <<argv, tx_info, header, buf, hex, files>>
    BY DEF ParseOpt
  <1>2. index' \in Nat \ {0} /\ opts' \in AnOptions
    <2>1. CASE UNCHANGED <<index, opts>>
      BY <2>1 DEF BuilderInv, BuilderTypeOK
    <2>2. CASE /\ argv[index].name \in Known /\ index + 1 <= Len(argv)
               /\ opts' = Parsed(argv[index].name, argv[index + 1]) /\ index' = index + 2
      <3> DEFINE val == argv[index + 1]
      <3>1. argv \in Seq(AnArg) /\ index \in Nat /\ index + 1 \in 1..Len(argv)
        BY <2>2, LenProperties DEF BuilderInv, BuilderTypeOK
      <3>2. val \in AnArg
        BY <3>1, ElementOfSeq
      <3> HIDE DEF val
      <3>3. /\ val.number \in UInt(4) /\ val.digits \in Seq(0..(Nibble - 1))
            /\ {val.name} \in SUBSET STRING
        BY <3>2 DEF AnArg
      <3>4. opts \in AnOptions
        BY DEF BuilderInv, BuilderTypeOK
      <3>5. Parsed(argv[index].name, val) \in AnOptions
        BY <2>2, <3>3, <3>4 DEF Parsed, Known, AnOptions
      <3> QED
        BY <2>2, <3>1, <3>5 DEF val
    <2> QED
      BY <2>1, <2>2 DEF ParseOpt
  <1>3. BuilderTypeOK'
    BY <1>1, <1>2 DEF BuilderInv, BuilderTypeOK
  <1>4. Files'
    BY <1>1 DEF BuilderInv, Files, Held
  <1>5. Appended'
    BY <1>1 DEF BuilderInv, Appended
  <1> QED
    BY <1>3, <1>4, <1>5 DEF BuilderInv

(* A hash from enough digits is numbers. *)
LEMMA PrevHashCells ==
  ASSUME NEW d \in Seq(0..(Nibble - 1)), Len(d) >= HashStringSize
  PROVE  /\ HashOfDigits(d) \in HashOfCells
         /\ \A k \in 1..HashSize :
              HashOfDigits(d)[k]
                = d[2 * (HashSize - k) + 1] * Nibble + d[2 * (HashSize - k) + 2]
  <1> DEFINE B(k) == ByteOfDigits(SubSeq(d, 2 * (HashSize - k) + 1, 2 * (HashSize - k) + 2))
  <1>1. HashSize \in Nat /\ Nibble \in Nat /\ Len(d) \in Nat /\ Len(d) >= 2 * HashSize
    BY LenProperties, SizesAssumption, UInts DEF HashStringSize
  <1>2. \A q \in 1..Len(d) : d[q] \in Nat
    <2>1. \A q \in 1..Len(d) : d[q] \in 0..(Nibble - 1)
      BY ElementOfSeq
    <2> QED
      BY <1>1, <2>1
  <1>3. ASSUME NEW k \in 1..HashSize
        PROVE  B(k) \in Nat /\ B(k) = d[2 * (HashSize - k) + 1] * Nibble + d[2 * (HashSize - k) + 2]
    <2> DEFINE a == 2 * (HashSize - k) + 1
               b == 2 * (HashSize - k) + 2
               x == SubSeq(d, a, b)
    <2>1. a \in Int /\ b \in Int /\ a <= b /\ b - a + 1 = 2 /\ 1 <= a /\ b <= Len(d)
      BY <1>1
    <2> HIDE DEF a, b
    <2>2. \A q \in a..b : d[q] \in Nat
      BY <1>1, <1>2, <2>1
    <2>3. x \in Seq(Nat) /\ Len(x) = 2 /\ \A q \in 1..2 : x[q] = d[a + q - 1]
      BY <2>1, <2>2, SubSeqProperties
    <2>6. a + 1 - 1 = a /\ a + 2 - 1 = b
      BY <1>1 DEF a, b
    <2> HIDE DEF x
    <2>7. x[1] = d[a] /\ x[2] = d[b]
      BY <2>3, <2>6
    <2>4. x[1] \in Nat /\ x[2] \in Nat
      <3>1. 1 \in 1..Len(x) /\ 2 \in 1..Len(x)
        BY <2>3
      <3> QED
        BY <2>3, <3>1, ElementOfSeq
    <2>5. x[1] * Nibble + x[2] \in Nat
      <3>1. \A u, v \in Nat : u * Nibble + v \in Nat
        BY ONLY <1>1, SMT
      <3> QED
        BY <2>4, <3>1
    <2> QED
      BY <2>5, <2>7 DEF ByteOfDigits, x, a, b
  <1>4. HashOfDigits(d) = [k \in 1..HashSize |-> B(k)]
    BY DEF HashOfDigits
  <1> HIDE DEF B
  <1> QED
    BY <1>1, <1>3, <1>4, IsASeq, LenProperties DEF Cells, HashOfCells

(* The header and the transaction are filled in with their types. *)
LEMMA FillStep == BuilderInv /\ Fill => BuilderInv'
  <1> SUFFICES ASSUME BuilderInv, Fill
               PROVE  BuilderInv'
    OBVIOUS
  <1>1. /\ step = "opts" /\ step' \in {"aborted", "append"}
        /\ UNCHANGED <<argv, index, opts, buf, hex, files>>
    BY DEF Fill, Abort
  <1>2. step' = "append" => Filled'
    <2> SUFFICES ASSUME step' = "append"
                 PROVE  Filled'
      OBVIOUS
    <2> DEFINE time == IF opts.timestamp # 0 THEN opts.timestamp ELSE Now
    <2>1. /\ tx_info' \in Txs
          /\ opts.prev_block_hash # Unset =>
               Len(opts.prev_block_hash) >= HashStringSize
          /\ header' = [version |-> Version, hash_prev_block |-> PrevHash,
                        hash_merkle_root |-> Txid(tx_info'), timestamp |-> time,
                        bits |-> opts.bits, nonce |-> 0]
      BY DEF Fill, Abort, PrevHash
    <2>2. Version \in UInt(4) /\ Now \in UInt(4) /\ HashSize \in Nat /\ 0 \in UInt(4)
      BY SizesAssumption, UInts
    <2>3. /\ opts.timestamp \in UInt(4) /\ opts.bits \in UInt(4)
          /\ opts.prev_block_hash \in Seq(0..(Nibble - 1)) \cup {Unset}
      BY DEF BuilderInv, BuilderTypeOK, AnOptions
    <2>4. ZeroHash \in HashOfCells
      BY <2>2, IsASeq, LenProperties DEF ZeroHash, Cells, HashOfCells
    <2>5. opts.prev_block_hash # Unset =>
            /\ HashOfDigits(opts.prev_block_hash) \in HashOfCells
            /\ Len(opts.prev_block_hash) >= HashStringSize
      <3> SUFFICES ASSUME opts.prev_block_hash # Unset
                   PROVE  /\ HashOfDigits(opts.prev_block_hash) \in HashOfCells
                          /\ Len(opts.prev_block_hash) >= HashStringSize
        OBVIOUS
      <3> QED
        BY <2>1, <2>3, PrevHashCells
    <2>6. Txid(tx_info') \in HashOfCells
      BY <2>1, HashCells, TxsAssumption DEF HashOfCells
    <2>7. PrevHash \in HashOfCells /\ time \in UInt(4) /\ PrevHash' = PrevHash
      BY <1>1, <2>2, <2>3, <2>4, <2>5 DEF PrevHash
    <2> HIDE DEF time
    <2>8. header' \in AHeaderOfCells
      BY <2>1, <2>2, <2>3, <2>6, <2>7 DEF AHeaderOfCells
    <2>9. header'.hash_merkle_root = Txid(tx_info') /\ header'.hash_prev_block = PrevHash
      BY <2>1
    <2> QED
      BY <1>1, <2>1, <2>5, <2>7, <2>8, <2>9 DEF Filled
  <1>3. BuilderTypeOK'
    BY <1>1, <1>2 DEF BuilderInv, BuilderTypeOK
  <1>4. Files'
    BY <1>1 DEF BuilderInv, Files, Held
  <1>5. Appended'
    BY <1>1 DEF BuilderInv, Appended
  <1> QED
    BY <1>3, <1>4, <1>5 DEF BuilderInv

(* The block goes into the buffer before either file is written. *)
LEMMA AppendBlockStep == BuilderInv /\ AppendBlock => BuilderInv'
  <1> SUFFICES ASSUME BuilderInv, AppendBlock
               PROVE  BuilderInv'
    OBVIOUS
  <1>1. /\ step = "append" /\ step' \in {"aborted", "bin"}
        /\ UNCHANGED <<argv, index, opts, tx_info, header, hex, files>>
        /\ \/ step' = "aborted" /\ buf' = buf
           \/ step' = "bin" /\ buf' = Header(header) \o Varint(1) \o Transaction(tx_info)
    BY DEF AppendBlock, Abort
  <1>2. tx_info \in Txs /\ header \in AHeaderOfCells /\ buf \in Cells
        /\ hex = <<>> /\ (\A f \in DOMAIN files : files[f] = Before) /\ Filled /\ buf = <<>>
    BY <1>1 DEF BuilderInv, BuilderTypeOK, Files, Filled, Appended
  <1>3. Header(header) \in Cells
    BY <1>2, HeaderCells
  <1>4. Varint(1) \in Cells
    <2>1. 1 \in Nat
      OBVIOUS
    <2> QED
      BY <2>1, VarintFacts
  <1>5. Transaction(tx_info) \in Cells
    BY <1>2, TransactionCells
  <1>6. buf' \in Cells
    <2>1. buf \in Cells
      BY <1>2
    <2>2. Header(header) \o Varint(1) \o Transaction(tx_info) \in Cells
      BY <1>3, <1>4, <1>5, Joining
    <2> QED
      BY <1>1, <2>1, <2>2
  <1>7. Filled'
    BY <1>1, <1>2 DEF Filled, PrevHash
  <1>8. BuilderTypeOK'
    BY <1>1, <1>2, <1>6, <1>7 DEF BuilderInv, BuilderTypeOK
  <1>9. Files'
    BY <1>1, <1>2 DEF Files, Held
  <1>10. Appended'
    BY <1>1, <1>2, <1>7 DEF Appended
  <1> QED
    BY <1>8, <1>9, <1>10 DEF BuilderInv

(* A file stays as it is, or gets a beginning of the buffer or of its digits. *)
LEMMA WriteStep ==
  BuilderInv /\ (WriteBin \/ WriteHex) => BuilderInv'
  <1> SUFFICES ASSUME BuilderInv, WriteBin \/ WriteHex
               PROVE  BuilderInv'
    OBVIOUS
  <1>1. /\ step \in {"bin", "hex"} /\ step' \in {"hex", "done", "aborted"}
        /\ UNCHANGED <<argv, index, opts, tx_info, header, buf>>
    BY DEF WriteBin, WriteHex, Abort
  <1>2. /\ hex' = hex \/ hex' = HexForward(buf)
        /\ \/ files' = files
           \/ \E path \in opts.obin : Written(path, buf)
           \/ \E path \in opts.ohex : Written(path, HexForward(buf))
    BY DEF WriteBin, WriteHex, Abort
  <1>3. Filled /\ Filled'
    BY <1>1 DEF BuilderInv, BuilderTypeOK, Filled, PrevHash
  <1>4. BuilderTypeOK'
    BY <1>1, <1>2, <1>3 DEF BuilderInv, BuilderTypeOK
  <1>5. ASSUME NEW path, NEW bytes, Written(path, bytes)
        PROVE  /\ DOMAIN files' = DOMAIN files
               /\ \A f \in DOMAIN files :
                    \/ files'[f] = files[f]
                    \/ FileAt(path) = f /\ files'[f] \in Cuts(bytes)
    <2>1. PICK after \in {files[FileAt(path)]} \cup Cuts(bytes) :
            files' = [files EXCEPT ![FileAt(path)] = after]
      BY <1>5, Zenon DEF Written
    <2> QED
      BY <2>1
  <1>6. ASSUME NEW f \in DOMAIN files'
        PROVE  Held(f)'
    <2>1. f \in DOMAIN files /\ (files'[f] = files[f]
            \/ (\E path \in opts.obin : FileAt(path) = f /\ files'[f] \in Cuts(buf))
            \/ (\E path \in opts.ohex : FileAt(path) = f /\ files'[f] \in Cuts(HexForward(buf))))
      BY <1>2, <1>5
    <2>2. Held(f)
      BY <2>1 DEF BuilderInv, Files
    <2> QED
      BY <1>1, <2>1, <2>2 DEF Held
  <1>7. Files'
    BY <1>1, <1>6 DEF Files
  <1>8. Appended'
    BY <1>1, <1>3 DEF BuilderInv, Appended
  <1> QED
    BY <1>4, <1>7, <1>8 DEF BuilderInv

(* Every step keeps the invariant. *)
LEMMA BuilderStep == BuilderInv /\ [BuilderNext]_builder_vars => BuilderInv'
  <1> SUFFICES ASSUME BuilderInv, [BuilderNext]_builder_vars
               PROVE  BuilderInv'
    OBVIOUS
  <1>1. CASE UNCHANGED builder_vars
    BY <1>1 DEF builder_vars, BuilderInv, BuilderTypeOK, Appended, Files, Held, Filled, PrevHash
  <1> QED
    BY <1>1, ParseOptStep, FillStep, AppendBlockStep, WriteStep DEF BuilderNext, BuilderEnded

(* main builds a block with its types, and then writes beginnings of it (main of
   main_block_builder.c). *)
THEOREM BuilderInvariance == BuilderSpec => []BuilderInv
  <1>1. BuilderInit => BuilderInv
    BY BuilderInitial
  <1>2. BuilderInv /\ [BuilderNext]_builder_vars => BuilderInv'
    BY BuilderStep
  <1> QED
    BY <1>1, <1>2, PTL DEF BuilderSpec

(* What is cut off the digits is digits of the block. *)
LEMMA CutHex ==
  ASSUME buf \in Cells, NEW digits \in Cuts(HexForward(buf))
  PROVE  HexOfBlock(digits)
  <1> DEFINE h == HexForward(buf)
             n == Len(buf)
             m == Len(digits)
  <1>2. /\ n \in Nat /\ h \in Seq(Int) /\ Len(h) = 2 * n + 1 /\ h[2 * n + 1] = -1
        /\ \A k \in 1..(2 * n) : h[k] \in Nat
        /\ \A k \in 1..n : h[2 * k - 1] * Nibble + h[2 * k] = buf[k]
    BY HexFacts
  <1>3. digits \in Cuts(h)
    OBVIOUS
  <1> HIDE DEF h, n
  <1>4. /\ m \in Nat /\ m <= 2 * n + 1 /\ digits \in Seq(Int)
        /\ \A k \in 1..m : digits[k] = h[k]
    BY <1>2, <1>3, CutFacts
  <1> HIDE DEF m
  <1>5. ASSUME NEW k \in 1..(m \div 2)
        PROVE  buf[k] = ByteOfDigits(SubSeq(digits, 2 * k - 1, 2 * k))
    <2> DEFINE a == 2 * k - 1
               b == 2 * k
               x == SubSeq(digits, a, b)
    <2>1. /\ a \in Int /\ b \in Int /\ a <= b /\ b - a + 1 = 2 /\ a \in 1..m /\ b \in 1..m
          /\ a + 1 - 1 = a /\ a + 2 - 1 = b /\ k \in 1..n
      BY <1>2, <1>4
    <2>2. \A q \in a..b : digits[q] \in Int
      <3>1. \A q \in a..b : q \in 1..m
        BY <1>4, <2>1
      <3> QED
        BY <1>4, <3>1, ElementOfSeq DEF m
    <2>3. buf[k] = h[a] * Nibble + h[b]
      BY <1>2, <2>1
    <2> HIDE DEF a, b
    <2>4. \A q \in 1..2 : x[q] = digits[a + q - 1]
      BY <2>1, <2>2, SubSeqProperties
    <2> HIDE DEF x
    <2>5. x[1] = digits[a] /\ x[2] = digits[b]
      BY <2>1, <2>4
    <2>6. x[1] = h[a] /\ x[2] = h[b]
      BY <1>4, <2>1, <2>5
    <2>7. ByteOfDigits(x) = x[1] * Nibble + x[2]
      BY DEF ByteOfDigits
    <2> QED
      BY <2>3, <2>6, <2>7 DEF x, a, b
  <1>6. ASSUME NEW k \in 1..m
        PROVE  digits[k] = Nul <=> k = 2 * n + 1
    <2>1. Nul = -1 /\ digits[k] = h[k]
      BY <1>4 DEF Nul
    <2>2. CASE k = 2 * n + 1
      BY <1>2, <2>1, <2>2
    <2>3. CASE k # 2 * n + 1
      <3>1. k \in 1..(2 * n)
        BY <1>2, <1>4, <2>3
      <3>2. h[k] \in Nat
        BY <1>2, <3>1
      <3> QED
        BY <2>1, <2>3, <3>2
    <2> QED
      BY <2>2, <2>3
  <1> QED
    BY <1>5, <1>6 DEF HexOfBlock, m, n

(* Such files agree. *)
LEMMA FilesGiveAgree == BuilderInv => FilesAgree
  <1> SUFFICES ASSUME BuilderInv, NEW f \in DOMAIN files
               PROVE  \/ files[f] = Before
                      \/ \E path \in opts.obin : FileAt(path) = f /\ IsPrefix(files[f], buf)
                      \/ \E path \in opts.ohex : FileAt(path) = f /\ HexOfBlock(files[f])
    BY DEF FilesAgree
  <1>1. buf \in Cells /\ Held(f)
    BY DEF BuilderInv, BuilderTypeOK, Files
  <1>2. files[f] \in Cuts(buf) => IsPrefix(files[f], buf)
    BY <1>1, CutFacts DEF IsPrefix, Cells
  <1>3. files[f] \in Cuts(HexForward(buf)) => HexOfBlock(files[f])
    BY <1>1, CutHex
  <1> QED
    BY <1>1, <1>2, <1>3 DEF Held

(* FilesAgree: what main_block_builder.c writes to its files is cut off one block, whether or
   not the paths lead to one file, wherever the writes stop and whichever open or allocation
   fails, for all transactions, arguments and sizes. *)
THEOREM FilesAgreeHolds == BuilderSpec => []FilesAgree
  <1>1. BuilderInv => FilesAgree
    BY FilesGiveAgree
  <1> QED
    BY <1>1, BuilderInvariance, PTL

(***************************************************************************)
(* Reading back                                                            *)
(*                                                                         *)
(* What the serialisation writes at a position of a sequence (Lies), the   *)
(* reader of BlockBuilder finds there, and ends behind it.                 *)
(***************************************************************************)

(* Division by a product. *)
LEMMA DivUnique ==
  ASSUME NEW p \in Nat, p > 0, NEW q \in Nat, NEW r \in Nat, r < p, NEW x \in Nat, x = q * p + r
  PROVE  x \div p = q /\ x % p = r
  <1> DEFINE a == x \div p
             b == x % p
  <1>1. a \in Nat /\ b \in Nat /\ b < p /\ x = a * p + b
    BY DivFacts
  <1> HIDE DEF a, b
  <1>2. a = q
    <2>1. \A c, d \in Nat : c < d => d * p >= c * p + p
      <3> TAKE c, d \in Nat
      <3> HAVE c < d
      <3>1. d - c - 1 \in Nat
        OBVIOUS
      <3> DEFINE m == d - c - 1
      <3>2. d = c + 1 + m /\ m \in Nat
        BY <3>1
      <3> HIDE DEF m
      <3>3. d * p = c * p + p + m * p
        BY <3>2
      <3>4. m * p >= 0 /\ m * p \in Nat /\ c * p \in Nat
        BY <3>2
      <3> QED
        BY <3>3, <3>4
    <2>2. a * p \in Nat /\ q * p \in Nat
      BY <1>1
    <2>3. ~(a < q) /\ ~(q < a)
      <3>1. ASSUME a < q PROVE FALSE
        <4>1. q * p >= a * p + p
          BY <1>1, <2>1, <3>1
        <4> QED
          BY <1>1, <2>2, <4>1
      <3>2. ASSUME q < a PROVE FALSE
        <4>1. a * p >= q * p + p
          BY <1>1, <2>1, <3>2
        <4> QED
          BY <1>1, <2>2, <4>1
      <3> QED
        BY <3>1, <3>2
    <2> QED
      BY <1>1, <2>3
  <1>3. b = r
    <2>1. a * p \in Nat
      BY <1>1
    <2> QED
      BY <1>1, <1>2, <2>1
  <1> QED
    BY <1>2, <1>3 DEF a, b

(* What a number adds to its rest when one more byte is divided off. *)
LEMMA NextByte ==
  ASSUME NEW v \in Nat, NEW k \in 1..8
  PROVE  v % Power[k] = (v % Power[k - 1]) + ((v \div Power[k - 1]) % ByteMod) * Power[k - 1]
  <1> DEFINE p == Power[k - 1]
             b == ByteMod
             q == v \div p
             r == v % p
             c == q \div b
             d == q % b
  <1>1. p \in Nat /\ p > 0 /\ b \in Nat /\ b > 0 /\ Power[k] = p * b
    <2>1. k - 1 \in 0..8
      OBVIOUS
    <2> QED
      BY <2>1, PowerFacts, BaseFacts
  <1> HIDE DEF p, b
  <1>2. q \in Nat /\ r \in Nat /\ r < p /\ v = q * p + r
    BY <1>1, DivFacts
  <1> HIDE DEF q, r
  <1>3. c \in Nat /\ d \in Nat /\ d < b /\ q = c * b + d
    BY <1>1, <1>2, DivFacts
  <1> HIDE DEF c, d
  <1>4. d * p + r \in Nat /\ d * p + r < p * b
    <2>1. b - d - 1 \in Nat
      BY <1>1, <1>3
    <2> DEFINE m == b - d - 1
    <2>2. b = d + 1 + m /\ m \in Nat
      BY <1>1, <1>3, <2>1
    <2> HIDE DEF m
    <2>3. p * b = d * p + p + m * p
      BY <1>1, <1>3, <2>2
    <2>4. m * p \in Nat /\ d * p \in Nat
      BY <1>1, <1>3, <2>2
    <2> QED
      BY <1>1, <1>2, <2>3, <2>4
  <1>5. v = c * (p * b) + (d * p + r)
    BY <1>1, <1>2, <1>3
  <1>6. p * b \in Nat /\ p * b > 0
    BY <1>1
  <1> DEFINE P == p * b
             R == d * p + r
  <1>7. R \in Nat /\ R < P /\ P \in Nat /\ P > 0 /\ v = c * P + R
    BY <1>4, <1>5, <1>6
  <1> HIDE DEF P, R
  <1>8. v % P = R
    BY <1>3, <1>7, DivUnique
  <1>9. R = r + d * p
    BY <1>1, <1>2, <1>3 DEF R
  <1> QED
    BY <1>1, <1>8, <1>9 DEF P, p, b, q, r, d

(* The cells e are in s from p on. *)
Lies(s, p, e) ==
  /\ p \in Nat \ {0} /\ p + Len(e) <= Len(s) + 1
  /\ \A k \in 1..Len(e) : s[p + k - 1] = e[k]

(* If two parts lie one behind the other, each lies where it should. *)
LEMMA LiesApart ==
  ASSUME NEW s \in Cells, NEW a \in Cells, NEW b \in Cells, NEW p, Lies(s, p, a \o b)
  PROVE  /\ Lies(s, p, a) /\ Lies(s, p + Len(a), b)
         /\ Len(a) \in Nat /\ Len(b) \in Nat /\ Len(a \o b) = Len(a) + Len(b)
         /\ p \in Nat \ {0} /\ p + Len(a) \in Nat \ {0} /\ p + Len(a) + Len(b) = p + Len(a \o b)
  <1>1. /\ Len(a) \in Nat /\ Len(b) \in Nat /\ Len(s) \in Nat /\ Len(a \o b) = Len(a) + Len(b)
        /\ \A k \in 1..(Len(a) + Len(b)) :
             (a \o b)[k] = IF k <= Len(a) THEN a[k] ELSE b[k - Len(a)]
    BY LenProperties, ConcatProperties DEF Cells
  <1>2. p \in Nat \ {0} /\ p + Len(a \o b) <= Len(s) + 1
        /\ \A k \in 1..Len(a \o b) : s[p + k - 1] = (a \o b)[k]
    BY DEF Lies
  <1>3. \A k \in 1..Len(a) : s[p + k - 1] = a[k]
    <2> TAKE k \in 1..Len(a)
    <2>1. k \in 1..Len(a \o b) /\ k <= Len(a) /\ k \in 1..(Len(a) + Len(b))
      BY <1>1
    <2> QED
      BY <1>1, <1>2, <2>1
  <1>4. \A k \in 1..Len(b) : s[(p + Len(a)) + k - 1] = b[k]
    <2> TAKE k \in 1..Len(b)
    <2> DEFINE q == Len(a) + k
    <2>1. q \in 1..(Len(a) + Len(b)) /\ ~(q <= Len(a)) /\ q - Len(a) = k
          /\ (p + Len(a)) + k - 1 = p + q - 1
      BY <1>1, <1>2
    <2> HIDE DEF q
    <2> QED
      BY <1>1, <1>2, <2>1
  <1> QED
    BY <1>1, <1>2, <1>3, <1>4 DEF Lies

(* A reader of cells finds them. *)
LEMMA CellsRead ==
  ASSUME NEW s \in Cells, NEW e \in Cells, NEW p, Lies(s, p, e)
  PROVE  ReadCells(s, p, Len(e)) = Found(e, p + Len(e))
  <1>1. Len(e) \in Nat /\ Len(s) \in Nat /\ e = [k \in 1..Len(e) |-> e[k]]
    BY LenProperties DEF Cells
  <1>2. \A k \in 1..Len(e) : Cell(s, p + k - 1) = e[k]
    BY <1>1 DEF Lies, Cell
  <1> QED
    BY <1>1, <1>2 DEF ReadCells

(* A reader of an integer finds it. *)
LEMMA URead ==
  ASSUME NEW s \in Cells, NEW w \in 1..8, NEW v \in UInt(w), NEW p, Lies(s, p, U(w, v))
  PROVE  ReadU(s, p, w) = Found(v, p + w)
  <1> DEFINE c(k) == Cell(s, p + k - 1)
             IsSum(f) == f = [k \in 0..w |-> IF k = 0 THEN 0 ELSE f[k - 1] + c(k) * Power[k - 1]]
             g == [k \in 0..w |-> v % Power[k]]
             h == CHOOSE f : IsSum(f)
  <1>1. v \in Nat /\ v < Power[w] /\ w \in Nat
    <2>1. w \in 0..8
      OBVIOUS
    <2> QED
      BY <2>1, UIntFacts
  <1>2. ASSUME NEW k \in 1..w
        PROVE  v % Power[k] = (v % Power[k - 1]) + c(k) * Power[k - 1]
    <2>1. Len(U(w, v)) = w /\ Len(s) \in Nat
      BY <1>1, UFacts, LenProperties DEF Cells
    <2>2. c(k) = U(w, v)[k]
      BY <2>1 DEF Lies, Cell
    <2>3. c(k) = (v \div Power[k - 1]) % ByteMod
      BY <2>2 DEF U
    <2>4. k \in 1..8
      OBVIOUS
    <2> QED
      BY <1>1, <2>3, <2>4, NextByte
  <1>3. v % Power[0] = 0
    <2>1. v = v * 1 + 0 /\ Power[0] = 1
      BY <1>1, PowerFacts
    <2> QED
      BY <1>1, <2>1, DivUnique
  <1> HIDE DEF c
  <1>4. IsSum(g)
    <2>1. ASSUME NEW k \in 0..w
          PROVE  g[k] = IF k = 0 THEN 0 ELSE g[k - 1] + c(k) * Power[k - 1]
      <3>1. CASE k = 0
        BY <1>3, <3>1
      <3>2. CASE k # 0
        <4>1. k \in 1..w /\ k - 1 \in 0..w
          BY <3>2
        <4>2. g[k] = v % Power[k] /\ g[k - 1] = v % Power[k - 1]
          BY <4>1
        <4>3. g[k] = g[k - 1] + c(k) * Power[k - 1]
          BY <1>2, <4>1, <4>2
        <4> QED
          BY <3>2, <4>3
      <3> QED
        BY <3>1, <3>2
    <2>2. g = [k \in 0..w |-> g[k]]
      OBVIOUS
    <2> HIDE DEF g
    <2> QED
      BY <2>1, <2>2
  <1>5. IsSum(h)
    BY <1>4
  <1> DEFINE T == {k \in 0..w : h[k] = v % Power[k]}
  <1>6. \A k \in 0..w : h[k] = IF k = 0 THEN 0 ELSE h[k - 1] + c(k) * Power[k - 1]
    BY <1>5
  <1> HIDE DEF h
  <1>7. 0 \in T
    BY <1>1, <1>3, <1>6
  <1>8. ASSUME NEW k \in 1..w, k - 1 \in T
        PROVE  k \in T
    <2>1. k \in 0..w /\ k # 0 /\ h[k - 1] = v % Power[k - 1]
      BY <1>8
    <2>2. h[k] = h[k - 1] + c(k) * Power[k - 1]
      BY <1>6, <2>1
    <2> QED
      BY <1>2, <2>1, <2>2
  <1> HIDE DEF T
  <1>9. 0..w \subseteq T
    BY <1>1, <1>7, <1>8, Induction
  <1>10. h[w] = v % Power[w]
    <2>1. w \in 0..w
      OBVIOUS
    <2> QED
      BY <1>9, <2>1 DEF T
  <1>11. v % Power[w] = v
    <2>1. Power[w] \in Nat /\ Power[w] > 0
      <3>1. w \in 0..8
        OBVIOUS
      <3> QED
        BY <3>1, PowerFacts
    <2>2. 0 \in Nat /\ v = 0 * Power[w] + v
      BY <1>1, <2>1
    <2> QED
      BY <1>1, <2>1, <2>2, DivUnique
  <1>12. ReadU(s, p, w) = Found(h[w], p + w)
    BY DEF ReadU, h, c
  <1> QED
    BY <1>10, <1>11, <1>12

(* How a varint begins says how wide it is. *)
LEMMA VarintForms ==
  ASSUME NEW v \in UInt(8)
  PROVE  \/ v < ByteMod - 3 /\ Varint(v) = U(1, v) /\ v \in UInt(1)
         \/ \E w \in {2, 4, 8} : /\ v >= ByteMod - 3 /\ v \in UInt(w)
                                 /\ Varint(v) = <<Prefix(w)>> \o U(w, v)
  <1>1. v \in Nat
    BY UInts
  <1>2. \A w \in {1, 2, 4, 8} : Power[w] \in Nat /\ (v \in UInt(w) <=> v < Power[w])
    <2>1. \A w \in {1, 2, 4, 8} : w \in 0..8
      OBVIOUS
    <2> QED
      BY <1>1, <2>1, PowerFacts, UIntFacts
  <1>3. Power[1] = ByteMod /\ ByteMod \in Nat
    <2>1. 1 \in 1..8 /\ 1 - 1 = 0
      OBVIOUS
    <2>2. Power[1] = Power[0] * ByteMod /\ Power[0] = 1
      BY <2>1, PowerFacts
    <2> QED
      BY <2>2, BaseFacts
  <1>4. Power[2] \in Nat /\ Power[4] \in Nat
    BY <1>2
  <1>5. CASE v < ByteMod - 3
    <2>1. Varint(v) = U(1, v)
      BY <1>5 DEF Varint
    <2>2. v \in UInt(1)
      BY <1>1, <1>2, <1>3, <1>5
    <2> QED
      BY <1>5, <2>1, <2>2
  <1>6. CASE v >= ByteMod - 3 /\ v < Power[2] - 1
    <2>1. ~(v < ByteMod - 3)
      BY <1>1, <1>3, <1>6
    <2>2. Varint(v) = <<Prefix(2)>> \o U(2, v)
      BY <1>6, <2>1 DEF Varint
    <2>3. v \in UInt(2)
      BY <1>1, <1>2, <1>4, <1>6
    <2> QED
      BY <1>6, <2>2, <2>3
  <1>7. CASE v >= ByteMod - 3 /\ ~(v < Power[2] - 1) /\ v < Power[4] - 1
    <2>1. ~(v < ByteMod - 3)
      BY <1>1, <1>3, <1>7
    <2>2. Varint(v) = <<Prefix(4)>> \o U(4, v)
      BY <1>7, <2>1 DEF Varint
    <2>3. v \in UInt(4)
      BY <1>1, <1>2, <1>4, <1>7
    <2> QED
      BY <1>7, <2>2, <2>3
  <1>8. CASE v >= ByteMod - 3 /\ ~(v < Power[2] - 1) /\ ~(v < Power[4] - 1)
    <2>1. ~(v < ByteMod - 3)
      BY <1>1, <1>3, <1>8
    <2>2. Varint(v) = <<Prefix(8)>> \o U(8, v)
      BY <1>8, <2>1 DEF Varint
    <2> QED
      BY <1>8, <2>2
  <1> QED
    BY <1>1, <1>3, <1>5, <1>6, <1>7, <1>8

(* A reader of an integer behind one cell finds both. *)
LEMMA PrefixedRead ==
  ASSUME NEW s \in Cells, NEW a \in Cells, Len(a) = 1, NEW w \in 1..8, NEW v \in UInt(w), NEW p,
         Lies(s, p, a \o U(w, v))
  PROVE  /\ ReadU(s, p + 1, w) = Found(v, p + 1 + w) /\ Len(a \o U(w, v)) = 1 + w
         /\ p \in Nat \ {0} /\ p <= Len(s) /\ s[p] = a[1] /\ Cell(s, p) = a[1]
  <1> DEFINE b == U(w, v)
  <1>1. a \in Cells /\ Len(a) = 1
    OBVIOUS
  <1>2. b \in Cells /\ Len(b) = w /\ v \in Nat /\ w \in Nat
    <2>1. w \in 0..8
      OBVIOUS
    <2>2. v \in Nat
      BY <2>1, UIntFacts
    <2>3. U(w, v) \in Cells /\ Len(U(w, v)) = w
      BY <2>2, UFacts
    <2> QED
      BY <2>2, <2>3
  <1>3. Lies(s, p, a \o b)
    OBVIOUS
  <1> HIDE DEF b
  <1>4. /\ Lies(s, p, a) /\ Lies(s, p + Len(a), b) /\ p \in Nat \ {0}
        /\ Len(a \o b) = Len(a) + Len(b)
    <2>1. a \in Cells /\ b \in Cells /\ s \in Cells
      BY <1>1, <1>2
    <2> QED
      BY ONLY <1>3, <2>1, LiesApart
  <1>5. ReadU(s, p + 1, w) = Found(v, p + 1 + w)
    <2>1. Lies(s, p + 1, U(w, v))
      BY <1>1, <1>4 DEF b
    <2> QED
      BY <2>1, URead
  <1>6. p <= Len(s) /\ s[p] = a[1] /\ Len(s) \in Nat
    <2>1. 1 \in 1..1 /\ \A q \in Nat : q + 1 - 1 = q
      OBVIOUS
    <2>2. Len(s) \in Nat
      BY LenProperties DEF Cells
    <2> QED
      BY <1>1, <1>4, <2>1, <2>2 DEF Lies
  <1>7. Len(a \o b) = 1 + w
    BY <1>1, <1>2, <1>4
  <1> QED
    BY <1>4, <1>5, <1>6, <1>7 DEF Cell, b

(* A reader of a varint finds it; it begins with zero only if it is zero. *)
LEMMA VarintRead ==
  ASSUME NEW s \in Cells, NEW v \in UInt(8), NEW p, Lies(s, p, Varint(v))
  PROVE  /\ ReadVarint(s, p) = Found(v, p + Len(Varint(v)))
         /\ p \in Nat \ {0} /\ p <= Len(s) /\ (s[p] = 0 <=> v = 0)
         /\ Len(Varint(v)) \in Nat /\ Len(Varint(v)) >= 1
  <1>1. /\ Prefix(2) = ByteMod - 3 /\ Prefix(4) = ByteMod - 2 /\ Prefix(8) = ByteMod - 1
        /\ ByteMod \in Nat /\ ByteMod >= 4
    BY BaseFacts DEF Prefix
  <1>2. v \in Nat /\ Len(s) \in Nat
    BY UInts, LenProperties DEF Cells
  <1>3. CASE v < ByteMod - 3 /\ Varint(v) = U(1, v)
    <2>1. Len(U(1, v)) = 1 /\ U(1, v)[1] = v
      <3>1. 1 \in 1..8 /\ 1 \in 1..1 /\ 1 - 1 = 0 /\ Power[0] = 1
        BY PowerFacts
      <3>2. v \div 1 = v
        BY <1>2
      <3>3. v % ByteMod = v
        <4>1. v = 0 * ByteMod + v /\ v < ByteMod /\ ByteMod > 0 /\ 0 \in Nat
          BY <1>1, <1>2, <1>3
        <4> QED
          BY <1>1, <1>2, <4>1, DivUnique
      <3>4. U(1, v)[1] = (v \div Power[0]) % ByteMod
        BY <3>1 DEF U
      <3> QED
        BY <1>2, <3>1, <3>2, <3>3, <3>4, UFacts
    <2>2. p \in Nat \ {0} /\ p + 1 <= Len(s) + 1 /\ s[p] = v
      <3>1. 1 \in 1..1 /\ \A q \in Nat : q + 1 - 1 = q
        OBVIOUS
      <3> QED
        BY <1>3, <2>1, <3>1 DEF Lies
    <2>3. Cell(s, p) = v
      BY <1>2, <2>2 DEF Cell
    <2>4. v # ByteMod - 3 /\ v # ByteMod - 2 /\ v # ByteMod - 1
      BY <1>1, <1>2, <1>3
    <2>5. ReadVarint(s, p) = Found(v, p + 1)
      BY <2>3, <2>4 DEF ReadVarint
    <2>6. Len(Varint(v)) = 1
      BY <1>3, <2>1
    <2>7. p <= Len(s)
      BY <1>2, <2>2
    <2> QED
      BY <2>2, <2>5, <2>6, <2>7
  <1>4. CASE \E w \in {2, 4, 8} : /\ v >= ByteMod - 3 /\ v \in UInt(w)
                                  /\ Varint(v) = <<Prefix(w)>> \o U(w, v)
    <2>1. PICK w \in {2, 4, 8} : /\ v >= ByteMod - 3 /\ v \in UInt(w)
                                 /\ Varint(v) = <<Prefix(w)>> \o U(w, v)
      BY <1>4
    <2>2. w \in 1..8 /\ w \in Nat /\ Prefix(w) \in Nat /\ Prefix(w) > 0
      BY <1>1
    <2>3. Lies(s, p, <<Prefix(w)>> \o U(w, v))
      BY <2>1
    <2>4. /\ ReadU(s, p + 1, w) = Found(v, p + 1 + w) /\ Len(Varint(v)) = 1 + w
          /\ p \in Nat \ {0} /\ p <= Len(s) /\ s[p] = Prefix(w) /\ Cell(s, p) = Prefix(w)
      <3>1. v \in UInt(w) /\ Varint(v) = <<Prefix(w)>> \o U(w, v)
        BY <2>1
      <3> DEFINE a == <<Prefix(w)>>
      <3>2. a \in Cells /\ Len(a) = 1 /\ a[1] = Prefix(w)
        BY <2>2, OneCell
      <3>3. Lies(s, p, a \o U(w, v)) /\ Varint(v) = a \o U(w, v)
        BY <2>3, <3>1
      <3> HIDE DEF a
      <3>4. s \in Cells /\ w \in 1..8 /\ v \in UInt(w)
        BY <2>2, <3>1
      <3>5. /\ ReadU(s, p + 1, w) = Found(v, p + 1 + w) /\ Len(a \o U(w, v)) = 1 + w
            /\ p \in Nat \ {0} /\ p <= Len(s) /\ s[p] = a[1] /\ Cell(s, p) = a[1]
        BY ONLY <3>2, <3>3, <3>4, PrefixedRead
      <3> QED
        BY <3>2, <3>3, <3>5
    <2>9. ReadVarint(s, p) = ReadU(s, p + 1, w)
      <3>1. ByteMod - 3 # ByteMod - 2 /\ ByteMod - 3 # ByteMod - 1 /\ ByteMod - 2 # ByteMod - 1
        BY <1>1
      <3>2. CASE w = 2
        BY <1>1, <2>4, <3>1, <3>2 DEF ReadVarint
      <3>3. CASE w = 4
        BY <1>1, <2>4, <3>1, <3>3 DEF ReadVarint
      <3>4. CASE w = 8
        BY <1>1, <2>4, <3>1, <3>4 DEF ReadVarint
      <3> QED
        BY <2>1, <3>2, <3>3, <3>4
    <2>10. v # 0
      BY <1>1, <1>2, <2>1
    <2>11. p + 1 + w = p + (1 + w) /\ 1 + w \in Nat /\ 1 + w >= 1
      BY <2>2, <2>4
    <2> QED
      BY <2>2, <2>4, <2>9, <2>10, <2>11
  <1> QED
    BY <1>3, <1>4, VarintForms

(* A count that is not beyond the length is believed. *)
LEMMA CountRead ==
  ASSUME NEW s \in Cells, NEW v \in UInt(8), NEW p, Lies(s, p, Varint(v)), v <= Len(s)
  PROVE  ReadCount(s, p) = Found(v, p + Len(Varint(v)))
  <1>1. ReadVarint(s, p) = Found(v, p + Len(Varint(v)))
    BY VarintRead
  <1>2. v \in Nat /\ Len(s) \in Nat /\ ~(v > Len(s))
    BY UInts, LenProperties DEF Cells
  <1> QED
    BY <1>1, <1>2 DEF ReadCount, Found

(* A varint is never empty. *)
LEMMA VarintLong ==
  ASSUME NEW v \in UInt(8)
  PROVE  Varint(v) \in Cells /\ Len(Varint(v)) \in Nat /\ Len(Varint(v)) >= 1
  <1>1. v \in Nat
    BY UInts
  <1>2. Varint(v) \in Cells
    BY <1>1, VarintFacts
  <1>3. Lies(Varint(v), 1, Varint(v))
    <2>1. Len(Varint(v)) \in Nat
      BY <1>2, LenProperties DEF Cells
    <2> QED
      BY <2>1 DEF Lies
  <1> QED
    BY <1>2, <1>3, VarintRead

(* A reader of bytes with their size finds them. *)
LEMMA SizedRead ==
  ASSUME NEW s \in Cells, NEW b \in Vector(UInt(1)), NEW p, Lies(s, p, Sized(b))
  PROVE  ReadSized(s, p) = Found(b, p + Len(Sized(b)))
  <1> DEFINE n == Len(b)
             v == Varint(n)
  <1>1. b \in Cells /\ n \in UInt(8) /\ n \in Nat /\ Len(s) \in Nat
    BY ByteCells, LenProperties DEF Cells
  <1>2. v \in Cells /\ Len(v) >= 1 /\ Sized(b) = v \o b
    BY <1>1, VarintLong DEF Sized
  <1> HIDE DEF v
  <1>3. /\ Lies(s, p, v) /\ Lies(s, p + Len(v), b) /\ p \in Nat \ {0} /\ Len(v) \in Nat
        /\ p + Len(v) + n = p + Len(Sized(b))
    BY <1>1, <1>2, LiesApart
  <1>4. p + Len(v) + n <= Len(s) + 1
    BY <1>3 DEF Lies
  <1>5. n <= Len(s)
    BY <1>1, <1>2, <1>3, <1>4
  <1>6. ReadCount(s, p) = Found(n, p + Len(v))
    BY <1>1, <1>3, <1>5, CountRead DEF v
  <1>7. ReadCells(s, p + Len(v), n) = Found(b, p + Len(v) + n)
    BY <1>1, <1>3, CellsRead
  <1> QED
    BY <1>3, <1>6, <1>7 DEF ReadSized, Found

(* One more element. *)
LEMMA AppendNext ==
  ASSUME NEW v, NEW k \in Nat \ {0}
  PROVE  Append([j \in 1..(k - 1) |-> v[j]], v[k]) = [j \in 1..k |-> v[j]]
  <1> DEFINE S == {v[j] : j \in 1..k}
             a == [j \in 1..(k - 1) |-> v[j]]
             b == [j \in 1..k |-> v[j]]
             e == v[k]
  <1>1. k - 1 \in Nat /\ k \in Nat /\ e \in S
        /\ (\A j \in 1..k : v[j] \in S) /\ \A j \in 1..(k - 1) : j \in 1..k
    OBVIOUS
  <1> HIDE DEF S
  <1>2. a \in Seq(S) /\ Len(a) = k - 1 /\ \A j \in 1..(k - 1) : a[j] = v[j]
    BY <1>1, IsASeq, LenProperties
  <1>3. b \in Seq(S) /\ Len(b) = k /\ \A j \in 1..k : b[j] = v[j]
    BY <1>1, IsASeq, LenProperties
  <1> HIDE DEF a, b
  <1>4. /\ Append(a, e) \in Seq(S) /\ Len(Append(a, e)) = k
        /\ \A j \in 1..(k - 1) : Append(a, e)[j] = v[j]
        /\ Append(a, e)[k] = e
    <2>1. (k - 1) + 1 = k
      OBVIOUS
    <2> QED
      BY <1>1, <1>2, <2>1, AppendProperties
  <1>5. \A j \in 1..k : Append(a, e)[j] = b[j]
    <2> TAKE j \in 1..k
    <2>1. j = k \/ j \in 1..(k - 1)
      OBVIOUS
    <2> QED
      BY <1>3, <1>4, <2>1
  <1>6. Append(a, e) = b
    BY <1>3, <1>4, <1>5, SeqEqual
  <1> QED
    BY <1>6 DEF a, b

(* Parts that are joined lie one behind the other. *)
LEMMA LiesJoined ==
  ASSUME NEW s \in Cells, NEW n \in Nat, NEW e \in Seq(Cells), Len(e) = n,
         NEW f, Joins(f, e, Cells), NEW p, Lies(s, p, FlattenSeq(e))
  PROVE  \A k \in 1..n : Lies(s, p + Len(f[k - 1]), e[k]) /\ Len(f[k]) = Len(f[k - 1]) + Len(e[k])
  <1>1. /\ f \in [0..n -> Cells] /\ f[0] = <<>> /\ FlattenSeq(e) = f[n]
        /\ \A k \in 1..n : f[k] = f[k - 1] \o e[k]
    BY DEF Joins
  <1>2. \A k \in 1..n : e[k] \in Cells /\ f[k - 1] \in Cells /\ f[k] \in Cells
    <2> TAKE k \in 1..n
    <2>1. k \in 0..n /\ k - 1 \in 0..n /\ k \in 1..Len(e)
      OBVIOUS
    <2> QED
      BY <1>1, <2>1, ElementOfSeq
  <1>3. ASSUME NEW k \in 1..n, Lies(s, p, f[k])
        PROVE  /\ Lies(s, p, f[k - 1]) /\ Lies(s, p + Len(f[k - 1]), e[k])
               /\ Len(f[k]) = Len(f[k - 1]) + Len(e[k])
    <2> DEFINE a == f[k - 1]
               b == e[k]
    <2>1. a \in Cells /\ b \in Cells /\ f[k] = a \o b
      BY <1>1, <1>2
    <2>2. s \in Cells /\ Lies(s, p, a \o b)
      BY <1>3, <2>1
    <2> HIDE DEF a, b
    <2>3. Lies(s, p, a) /\ Lies(s, p + Len(a), b) /\ Len(a \o b) = Len(a) + Len(b)
      BY ONLY <2>1, <2>2, LiesApart
    <2> QED
      BY <2>1, <2>3 DEF a, b
  <1> DEFINE T == {m \in 0..n : Lies(s, p, f[n - m])}
  <1>4. 0 \in T
    BY <1>1
  <1>5. ASSUME NEW m \in 1..n, m - 1 \in T
        PROVE  m \in T
    <2>1. n - (m - 1) \in 1..n /\ (n - (m - 1)) - 1 = n - m /\ m \in 0..n
      OBVIOUS
    <2>2. Lies(s, p, f[n - (m - 1)])
      BY <1>5
    <2> QED
      BY <1>3, <2>1, <2>2
  <1> HIDE DEF T
  <1>6. 0..n \subseteq T
    BY <1>4, <1>5, Induction
  <1>7. \A k \in 1..n : Lies(s, p, f[k])
    <2> TAKE k \in 1..n
    <2>1. n - k \in 0..n /\ n - (n - k) = k
      OBVIOUS
    <2>2. n - k \in T
      BY <1>6, <2>1
    <2> QED
      BY <2>1, <2>2 DEF T
  <1> QED
    BY <1>3, <1>7

(* Joined parts are as many cells as parts at least, if none is empty. *)
LEMMA JoinedLong ==
  ASSUME NEW n \in Nat, NEW e \in Seq(Cells), Len(e) = n, \A k \in 1..n : Len(e[k]) >= 1
  PROVE  FlattenSeq(e) \in Cells /\ Len(FlattenSeq(e)) >= n
  <1>1. PICK f : Joins(f, e, Cells)
    BY JoinsExist DEF Cells
  <1>2. /\ f \in [0..n -> Cells] /\ f[0] = <<>> /\ FlattenSeq(e) = f[n]
        /\ \A k \in 1..n : f[k] = f[k - 1] \o e[k]
    BY <1>1 DEF Joins
  <1> DEFINE T == {k \in 0..n : Len(f[k]) >= k}
  <1>3. 0 \in T
    BY <1>2
  <1>4. ASSUME NEW k \in 1..n, k - 1 \in T
        PROVE  k \in T
    <2> DEFINE a == f[k - 1]
               b == e[k]
    <2>1. k \in 0..n /\ k - 1 \in 0..n /\ k \in 1..Len(e)
      OBVIOUS
    <2>2. a \in Cells /\ b \in Cells /\ f[k] = a \o b /\ Len(a) >= k - 1 /\ Len(b) >= 1
      BY <1>2, <1>4, <2>1, ElementOfSeq
    <2> HIDE DEF a, b
    <2>3. Len(a) \in Nat /\ Len(b) \in Nat /\ Len(a \o b) = Len(a) + Len(b)
      BY <2>2, LenProperties, ConcatProperties DEF Cells
    <2>4. Len(f[k]) >= k
      BY <2>2, <2>3
    <2> QED
      BY <2>1, <2>4
  <1> HIDE DEF T
  <1>5. 0..n \subseteq T
    BY <1>3, <1>4, Induction
  <1>6. n \in 0..n
    OBVIOUS
  <1> QED
    BY <1>2, <1>5, <1>6 DEF T

(* R finds v[k] wherever e[k] lies. *)
Finds(s, n, e, v, R) ==
  \A k \in 1..n : \A q \in Nat : Lies(s, q, e[k]) => R[q] = Found(v[k], q + Len(e[k]))

(* A reader of many parts finds them, if it finds each of them wherever it lies. *)
LEMMA ManyRead ==
  ASSUME NEW s \in Cells, NEW n \in Nat, NEW e \in Seq(Cells), Len(e) = n, NEW v, NEW R, NEW p,
         Lies(s, p, FlattenSeq(e)),
         Finds(s, n, e, v, R)
  PROVE  ReadMany(p, n, R) = Found([k \in 1..n |-> v[k]], p + Len(FlattenSeq(e)))
  <1>1. PICK f : Joins(f, e, Cells)
    BY JoinsExist DEF Cells
  <1> DEFINE part(k) == [j \in 1..k |-> v[j]]
             end(k) == p + Len(f[k])
             IsRead(h) ==
               h = [k \in 0..n |->
                      IF k = 0 THEN Found(<<>>, p)
                      ELSE LET before == h[k - 1]
                               r == R[before.next]
                           IN  Found(Append(before.val, r.val), r.next)]
             g == [k \in 0..n |-> Found(part(k), end(k))]
             u == CHOOSE h : IsRead(h)
  <1>2. /\ f \in [0..n -> Cells] /\ f[0] = <<>> /\ FlattenSeq(e) = f[n]
    BY <1>1 DEF Joins
  <1>3. \A k \in 0..n : Len(f[k]) \in Nat
    BY <1>2, LenProperties DEF Cells
  <1>4. p \in Nat
    BY DEF Lies
  <1>5. ASSUME NEW k \in 1..n
        PROVE  /\ R[end(k - 1)] = Found(v[k], end(k))
               /\ Append(part(k - 1), v[k]) = part(k)
    <2>1. k - 1 \in 0..n /\ k \in Nat \ {0} /\ k \in 0..n /\ k \in 1..Len(e)
      OBVIOUS
    <2>2. Lies(s, end(k - 1), e[k]) /\ Len(f[k]) = Len(f[k - 1]) + Len(e[k])
      BY <1>1, LiesJoined
    <2>3. end(k - 1) \in Nat /\ Len(e[k]) \in Nat
      <3>1. e[k] \in Cells
        BY <2>1, ElementOfSeq
      <3> QED
        BY <1>3, <1>4, <2>1, <3>1, LenProperties DEF Cells
    <2>4. end(k - 1) + Len(e[k]) = end(k)
      BY <1>3, <1>4, <2>1, <2>2, <2>3
    <2>5. R[end(k - 1)] = Found(v[k], end(k - 1) + Len(e[k]))
      BY <2>2, <2>3 DEF Finds
    <2>6. Append(part(k - 1), v[k]) = part(k)
      BY <2>1, AppendNext
    <2> QED
      BY <2>4, <2>5, <2>6
  <1>6. part(0) = <<>> /\ end(0) = p
    BY <1>2, <1>4
  <1> HIDE DEF part, end
  <1>7. \A a, b : Found(a, b).val = a /\ Found(a, b).next = b
    BY DEF Found
  <1>8. IsRead(g)
    <2>1. ASSUME NEW k \in 0..n
          PROVE  g[k] = IF k = 0 THEN Found(<<>>, p)
                        ELSE LET before == g[k - 1]
                                 r == R[before.next]
                             IN  Found(Append(before.val, r.val), r.next)
      <3>1. CASE k = 0
        BY <1>6, <3>1
      <3>2. CASE k # 0
        <4>1. k \in 1..n /\ k - 1 \in 0..n
          BY <3>2
        <4>2. g[k] = Found(part(k), end(k)) /\ g[k - 1] = Found(part(k - 1), end(k - 1))
          BY <4>1
        <4> HIDE DEF g
        <4>3. g[k - 1].val = part(k - 1) /\ g[k - 1].next = end(k - 1)
          BY <1>7, <4>2
        <4>4. R[g[k - 1].next].val = v[k] /\ R[g[k - 1].next].next = end(k)
          BY <1>5, <1>7, <4>1, <4>3
        <4>5. g[k] = Found(Append(g[k - 1].val, R[g[k - 1].next].val), R[g[k - 1].next].next)
          BY <1>5, <4>1, <4>2, <4>3, <4>4
        <4> QED
          BY <3>2, <4>5
      <3> QED
        BY <3>1, <3>2
    <2>2. g = [k \in 0..n |-> g[k]]
      OBVIOUS
    <2> HIDE DEF g
    <2> QED
      BY <2>1, <2>2
  <1>9. IsRead(u)
    BY <1>8
  <1>10. \A k \in 0..n : u[k] = IF k = 0 THEN Found(<<>>, p)
                                ELSE LET before == u[k - 1]
                                         r == R[before.next]
                                     IN  Found(Append(before.val, r.val), r.next)
    BY <1>9
  <1> HIDE DEF u
  <1> DEFINE T == {k \in 0..n : u[k] = Found(part(k), end(k))}
  <1>11. 0 \in T
    BY <1>6, <1>10
  <1>12. ASSUME NEW k \in 1..n, k - 1 \in T
         PROVE  k \in T
    <2>1. k \in 0..n /\ k # 0 /\ u[k - 1] = Found(part(k - 1), end(k - 1))
      BY <1>12
    <2>2. u[k] = Found(Append(u[k - 1].val, R[u[k - 1].next].val), R[u[k - 1].next].next)
      BY <1>10, <2>1
    <2>3. u[k - 1].val = part(k - 1) /\ u[k - 1].next = end(k - 1)
      BY <1>7, <2>1
    <2>4. R[u[k - 1].next].val = v[k] /\ R[u[k - 1].next].next = end(k)
      BY <1>5, <1>7, <2>3
    <2>5. u[k] = Found(part(k), end(k))
      BY <1>5, <2>2, <2>3, <2>4
    <2> QED
      BY <2>1, <2>5
  <1> HIDE DEF T
  <1>13. 0..n \subseteq T
    BY <1>11, <1>12, Induction
  <1>14. u[n] = Found(part(n), end(n))
    <2>1. n \in 0..n
      OBVIOUS
    <2> QED
      BY <1>13, <2>1 DEF T
  <1>15. ReadMany(p, n, R) = u[n]
    BY DEF ReadMany, u
  <1> QED
    BY <1>2, <1>14, <1>15 DEF part, end

(* A reader of a vector finds it: the elements are not empty, so that their
   number is not beyond the length of s. *)
LEMMA VectorRead ==
  ASSUME NEW s \in Cells, NEW n \in UInt(8), NEW e \in Seq(Cells), Len(e) = n,
         NEW v, NEW R, NEW p, Lies(s, p, Varint(n) \o FlattenSeq(e)),
         \A k \in 1..n : Len(e[k]) >= 1, Finds(s, n, e, v, R)
  PROVE  /\ ReadVector(s, p, R)
              = Found([k \in 1..n |-> v[k]], p + Len(Varint(n) \o FlattenSeq(e)))
         /\ p \in Nat /\ p <= Len(s) /\ (s[p] = 0 <=> n = 0)
  <1> DEFINE a == Varint(n)
             b == FlattenSeq(e)
  <1>1. n \in Nat
    BY UInts
  <1>2. a \in Cells /\ b \in Cells /\ Len(b) >= n
    BY <1>1, VarintLong, JoinedLong
  <1>3. s \in Cells /\ Lies(s, p, a \o b)
    OBVIOUS
  <1> HIDE DEF a, b
  <1>4. /\ Lies(s, p, a) /\ Lies(s, p + Len(a), b) /\ Len(a) \in Nat /\ Len(b) \in Nat
        /\ p \in Nat \ {0} /\ p + Len(a) + Len(b) = p + Len(a \o b)
    BY ONLY <1>2, <1>3, LiesApart
  <1>5. n <= Len(s)
    <2>1. p + Len(a) + Len(b) <= Len(s) + 1 /\ Len(s) \in Nat
      BY <1>4, LenProperties DEF Lies, Cells
    <2> QED
      BY <1>1, <1>2, <1>4, <2>1
  <1>6. ReadCount(s, p) = Found(n, p + Len(a)) /\ p <= Len(s) /\ (s[p] = 0 <=> n = 0)
    <2>1. Lies(s, p, Varint(n))
      BY <1>4 DEF a
    <2> QED
      BY <1>5, <2>1, CountRead, VarintRead DEF a
  <1>7. ReadMany(p + Len(a), n, R) = Found([k \in 1..n |-> v[k]], p + Len(a) + Len(b))
    <2>1. Lies(s, p + Len(a), FlattenSeq(e))
      BY <1>4 DEF b
    <2> DEFINE q == p + Len(a)
    <2> HIDE DEF q
    <2>2. /\ s \in Cells /\ n \in Nat /\ e \in Seq(Cells) /\ Len(e) = n
          /\ Lies(s, q, FlattenSeq(e)) /\ Finds(s, n, e, v, R)
      BY <1>1, <2>1 DEF q
    <2>3. ReadMany(q, n, R) = Found([k \in 1..n |-> v[k]], q + Len(FlattenSeq(e)))
      BY ONLY <2>2, ManyRead
    <2> QED
      BY <2>3 DEF b, q
  <1> QED
    BY <1>4, <1>6, <1>7 DEF ReadVector, Found, a, b

(* A reader of an integer ends behind it. *)
LEMMA IntRead ==
  ASSUME NEW s \in Cells, NEW w \in {1, 4, 8}, NEW v \in UInt(w), NEW p, Lies(s, p, U(w, v))
  PROVE  /\ ReadU(s, p, w) = Found(v, p + Len(U(w, v))) /\ U(w, v) \in Cells
         /\ Len(U(w, v)) = w
  <1>1. w \in 1..8 /\ w \in 0..8
    OBVIOUS
  <1>2. v \in Nat
    BY <1>1, UIntFacts
  <1>3. U(w, v) \in Cells /\ Len(U(w, v)) = w
    BY <1>1, <1>2, UFacts
  <1> QED
    BY <1>1, <1>3, URead

InputBytes(e) == e.txid \o U(4, e.vout) \o Sized(e.script) \o U(4, e.sequence)
OutputBytes(e) == U(8, e.amount) \o Sized(e.script)

(* A reader of an input finds it. *)
LEMMA InputRead ==
  ASSUME NEW e \in AnInput
  PROVE  /\ InputBytes(e) \in Cells /\ Len(InputBytes(e)) >= 1
         /\ \A s \in Cells : \A p \in Nat :
              Lies(s, p, InputBytes(e)) => ReadInput(s, p) = Found(e, p + Len(InputBytes(e)))
  <1> DEFINE a == e.txid
             b == U(4, e.vout)
             c == Sized(e.script)
             d == U(4, e.sequence)
             ab == a \o b
             abc == ab \o c
             all == abc \o d
  <1>1. /\ e.txid \in AHash /\ e.vout \in UInt(4) /\ e.sequence \in UInt(4)
        /\ e.script \in Vector(UInt(1)) /\ e.vout \in Nat /\ e.sequence \in Nat
        /\ e = [txid |-> e.txid, vout |-> e.vout, script |-> e.script, sequence |-> e.sequence]
    BY PointFacts
  <1>2. /\ a \in Cells /\ b \in Cells /\ c \in Cells /\ d \in Cells
        /\ Len(a) = HashSize
    BY <1>1, HashCells, ByteCells, FourCells, SizedFacts
  <1>3. Len(d) = 4
    <2>1. 4 \in 1..8
      OBVIOUS
    <2> QED
      BY <1>1, <2>1, UFacts
  <1>4. InputBytes(e) = all
    BY DEF InputBytes
  <1>5. \A s \in Cells : \A p :
          /\ Lies(s, p, b) => ReadU(s, p, 4) = Found(e.vout, p + Len(b))
          /\ Lies(s, p, c) => ReadSized(s, p) = Found(e.script, p + Len(c))
          /\ Lies(s, p, d) => ReadU(s, p, 4) = Found(e.sequence, p + Len(d))
    <2> TAKE s \in Cells
    <2> TAKE p
    <2>1. 4 \in {1, 4, 8}
      OBVIOUS
    <2> QED
      BY <1>1, <2>1, IntRead, SizedRead
  <1> HIDE DEF a, b, c, d
  <1>6. ab \in Cells /\ abc \in Cells /\ all \in Cells
    BY <1>2, Joining
  <1> HIDE DEF ab, abc, all
  <1>7. ASSUME NEW s \in Cells, NEW p \in Nat, Lies(s, p, all)
        PROVE  ReadInput(s, p) = Found(e, p + Len(all))
    <2>1. Lies(s, p, abc) /\ Lies(s, p + Len(abc), d) /\ p + Len(abc) + Len(d) = p + Len(all)
      <3>1. Lies(s, p, abc \o d)
        BY <1>7 DEF all
      <3> QED
        BY ONLY s \in Cells, <1>2, <1>6, <3>1, LiesApart DEF all
    <2>2. Lies(s, p, ab) /\ Lies(s, p + Len(ab), c) /\ p + Len(ab) + Len(c) = p + Len(abc)
      <3>1. Lies(s, p, ab \o c)
        BY <2>1 DEF abc
      <3> QED
        BY ONLY s \in Cells, <1>2, <1>6, <3>1, LiesApart DEF abc
    <2>3. Lies(s, p, a) /\ Lies(s, p + Len(a), b) /\ p + Len(a) + Len(b) = p + Len(ab)
      <3>1. Lies(s, p, a \o b)
        BY <2>2 DEF ab
      <3> QED
        BY ONLY s \in Cells, <1>2, <1>6, <3>1, LiesApart DEF ab
    <2>4. ReadCells(s, p, HashSize) = Found(e.txid, p + Len(a))
      BY <1>2, <2>3, CellsRead DEF a
    <2>5. ReadU(s, p + Len(a), 4) = Found(e.vout, p + Len(ab))
      BY <1>5, <2>3
    <2>6. ReadSized(s, p + Len(ab)) = Found(e.script, p + Len(abc))
      BY <1>5, <2>2
    <2>7. ReadU(s, p + Len(abc), 4) = Found(e.sequence, p + Len(all))
      BY <1>5, <2>1
    <2> QED
      BY <1>1, <2>4, <2>5, <2>6, <2>7 DEF ReadInput, Found
  <1>8. Len(all) >= 1
    <2>1. Len(abc) \in Nat /\ Len(all) = Len(abc) + Len(d)
      BY <1>2, <1>6, LenProperties, ConcatProperties DEF Cells, all
    <2> QED
      BY <1>3, <2>1
  <1> QED
    BY <1>4, <1>6, <1>7, <1>8

(* A reader of an output finds it. *)
LEMMA OutputRead ==
  ASSUME NEW e \in AnOutput
  PROVE  /\ OutputBytes(e) \in Cells /\ Len(OutputBytes(e)) >= 1
         /\ \A s \in Cells : \A p \in Nat :
              Lies(s, p, OutputBytes(e)) => ReadOutput(s, p) = Found(e, p + Len(OutputBytes(e)))
  <1> DEFINE a == U(8, e.amount)
             b == Sized(e.script)
             all == a \o b
  <1>1. /\ e.amount \in UInt(8) /\ e.script \in Vector(UInt(1)) /\ e.amount \in Nat
        /\ e = [amount |-> e.amount, script |-> e.script]
    BY PointFacts
  <1>2. a \in Cells /\ b \in Cells
    BY <1>1, ByteCells, FourCells, SizedFacts
  <1>3. Len(a) = 8
    <2>1. 8 \in 1..8
      OBVIOUS
    <2> QED
      BY <1>1, <2>1, UFacts
  <1>4. OutputBytes(e) = all
    BY DEF OutputBytes
  <1>5. \A s \in Cells : \A p :
          /\ Lies(s, p, a) => ReadU(s, p, 8) = Found(e.amount, p + Len(a))
          /\ Lies(s, p, b) => ReadSized(s, p) = Found(e.script, p + Len(b))
    <2> TAKE s \in Cells
    <2> TAKE p
    <2>1. 8 \in {1, 4, 8}
      OBVIOUS
    <2> QED
      BY <1>1, <2>1, IntRead, SizedRead
  <1> HIDE DEF a, b
  <1>6. all \in Cells
    BY <1>2, Joining
  <1> HIDE DEF all
  <1>7. ASSUME NEW s \in Cells, NEW p \in Nat, Lies(s, p, all)
        PROVE  ReadOutput(s, p) = Found(e, p + Len(all))
    <2>1. Lies(s, p, a) /\ Lies(s, p + Len(a), b) /\ p + Len(a) + Len(b) = p + Len(all)
      <3>1. Lies(s, p, a \o b)
        BY <1>7 DEF all
      <3> QED
        BY ONLY s \in Cells, <1>2, <3>1, LiesApart DEF all
    <2>2. ReadU(s, p, 8) = Found(e.amount, p + Len(a))
      BY <1>5, <2>1
    <2>3. ReadSized(s, p + Len(a)) = Found(e.script, p + Len(all))
      BY <1>5, <2>1
    <2> QED
      BY <1>1, <2>2, <2>3 DEF ReadOutput, Found
  <1>8. Len(all) >= 1
    <2>1. Len(b) \in Nat /\ Len(all) = Len(a) + Len(b)
      BY <1>2, LenProperties, ConcatProperties DEF Cells, all
    <2> QED
      BY <1>3, <2>1
  <1> QED
    BY <1>4, <1>6, <1>7, <1>8

(* A reader of the inputs of a transaction finds them. *)
LEMMA InputsRead ==
  ASSUME NEW t \in ATx
  PROVE  \A s \in Cells : \A p : Lies(s, p, Inputs(t)) =>
           /\ ReadVector(s, p, [q \in Nat |-> ReadInput(s, q)])
                = Found(t.ins, p + Len(Inputs(t)))
           /\ p \in Nat /\ p <= Len(s) /\ (s[p] = 0 <=> in_count(t) = 0)
  <1> DEFINE n == in_count(t)
             v == t.ins
             W(j) == InputBytes(v[j])
             e == [j \in 1..n |-> W(j)]
  <1>1. n \in UInt(8) /\ n \in Nat /\ v = [k \in 1..n |-> v[k]] /\ \A j \in 1..n : v[j] \in AnInput
    BY TxFacts, LenProperties, ElementOfSeq
  <1>2. Inputs(t) = Varint(n) \o FlattenSeq(e)
    BY DEF Inputs, Many, InputBytes
  <1> HIDE DEF n, v
  <1>3. \A j \in 1..n : e[j] \in Cells /\ Len(e[j]) >= 1
    BY <1>1, InputRead
  <1>4. e \in Seq(Cells) /\ Len(e) = n
    <2>1. e = [j \in 1..n |-> e[j]]
      OBVIOUS
    <2> HIDE DEF e
    <2> QED
      BY <1>1, <1>3, <2>1, IsASeq, LenProperties
  <1>5. ASSUME NEW s \in Cells
        PROVE  Finds(s, n, e, v, [q \in Nat |-> ReadInput(s, q)])
    BY <1>1, InputRead DEF Finds
  <1> HIDE DEF e
  <1> TAKE s \in Cells
  <1> TAKE p
  <1> HAVE Lies(s, p, Inputs(t))
  <1> DEFINE R == [q \in Nat |-> ReadInput(s, q)]
  <1>6. Finds(s, n, e, v, R) /\ Lies(s, p, Varint(n) \o FlattenSeq(e))
    BY <1>2, <1>5
  <1>7. \A j \in 1..n : Len(e[j]) >= 1
    BY <1>3
  <1> HIDE DEF R
  <1>8. ReadVector(s, p, R) = Found([k \in 1..n |-> v[k]], p + Len(Varint(n) \o FlattenSeq(e)))
    BY ONLY s \in Cells, <1>1, <1>4, <1>6, <1>7, VectorRead
  <1>9. p \in Nat /\ p <= Len(s) /\ (s[p] = 0 <=> n = 0)
    <2> DEFINE a == Varint(n)
               b == FlattenSeq(e)
    <2>1. a \in Cells /\ b \in Cells /\ Lies(s, p, a \o b)
      BY <1>1, <1>4, <1>6, <1>7, VarintLong, JoinedLong
    <2> HIDE DEF a, b
    <2>2. Lies(s, p, a)
      BY ONLY s \in Cells, <2>1, LiesApart
    <2> QED
      BY <1>1, <2>2, VarintRead DEF a
  <1> QED
    BY <1>1, <1>2, <1>8, <1>9 DEF n, v, R

(* So does a reader of its outputs. *)
LEMMA OutputsRead ==
  ASSUME NEW t \in ATx
  PROVE  \A s \in Cells : \A p : Lies(s, p, Outputs(t)) =>
           ReadVector(s, p, [q \in Nat |-> ReadOutput(s, q)])
             = Found(t.outs, p + Len(Outputs(t)))
  <1> DEFINE v == t.outs
             n == Len(v)
             W(j) == OutputBytes(v[j])
             e == [j \in 1..n |-> W(j)]
  <1>1. n \in UInt(8) /\ n \in Nat /\ v = [k \in 1..n |-> v[k]] /\ \A j \in 1..n : v[j] \in AnOutput
    BY TxFacts, LenProperties, ElementOfSeq
  <1>2. Outputs(t) = Varint(n) \o FlattenSeq(e)
    BY DEF Outputs, Many, OutputBytes
  <1> HIDE DEF n, v
  <1>3. \A j \in 1..n : e[j] \in Cells /\ Len(e[j]) >= 1
    BY <1>1, OutputRead
  <1>4. e \in Seq(Cells) /\ Len(e) = n
    <2>1. e = [j \in 1..n |-> e[j]]
      OBVIOUS
    <2> HIDE DEF e
    <2> QED
      BY <1>1, <1>3, <2>1, IsASeq, LenProperties
  <1>5. ASSUME NEW s \in Cells
        PROVE  Finds(s, n, e, v, [q \in Nat |-> ReadOutput(s, q)])
    BY <1>1, OutputRead DEF Finds
  <1> HIDE DEF e
  <1> TAKE s \in Cells
  <1> TAKE p
  <1> HAVE Lies(s, p, Outputs(t))
  <1> DEFINE R == [q \in Nat |-> ReadOutput(s, q)]
  <1>6. Finds(s, n, e, v, R) /\ Lies(s, p, Varint(n) \o FlattenSeq(e))
    BY <1>2, <1>5
  <1>7. \A j \in 1..n : Len(e[j]) >= 1
    BY <1>3
  <1> HIDE DEF R
  <1>8. ReadVector(s, p, R) = Found([k \in 1..n |-> v[k]], p + Len(Varint(n) \o FlattenSeq(e)))
    BY ONLY s \in Cells, <1>1, <1>4, <1>6, <1>7, VectorRead
  <1> QED
    BY <1>1, <1>2, <1>8 DEF v, R

StackBytes(t, items) ==
  Varint(Len(items)) \o FlattenSeq([k \in 1..Fields(t, items) |-> Sized(Item(items, k))])

(* A reader of a stack finds it, if it has as many items as the code counts. *)
LEMMA StackRead ==
  ASSUME NEW t, NEW items \in Vector(Vector(UInt(1))), Fields(t, items) = Len(items)
  PROVE  /\ StackBytes(t, items) \in Cells /\ Len(StackBytes(t, items)) >= 1
         /\ \A s \in Cells : \A p :
              Lies(s, p, StackBytes(t, items)) =>
                ReadStack(s, p) = Found(items, p + Len(StackBytes(t, items)))
  <1> DEFINE n == Len(items)
             W(j) == Sized(items[j])
             e == [j \in 1..n |-> W(j)]
  <1>1. /\ n \in UInt(8) /\ n \in Nat /\ items = [k \in 1..n |-> items[k]]
        /\ \A j \in 1..n : items[j] \in Vector(UInt(1))
    <2>1. items \in Seq(Vector(UInt(1))) /\ n \in UInt(8)
      BY DEF Vector
    <2> QED
      BY <2>1, LenProperties, ElementOfSeq
  <1>2. StackBytes(t, items) = Varint(n) \o FlattenSeq(e)
    <2>1. \A k \in 1..n : Item(items, k) = items[k]
      BY <1>1 DEF Item
    <2>2. [k \in 1..Fields(t, items) |-> Sized(Item(items, k))] = e
      BY <2>1
    <2> QED
      BY <2>2 DEF StackBytes
  <1> HIDE DEF n
  <1>3. \A j \in 1..n : e[j] \in Cells /\ Len(e[j]) >= 1
    <2> TAKE j \in 1..n
    <2>1. items[j] \in Cells /\ Len(items[j]) \in UInt(8) /\ Len(items[j]) \in Nat
      BY <1>1, ByteCells
    <2>2. /\ Varint(Len(items[j])) \in Cells /\ Len(Varint(Len(items[j]))) >= 1
          /\ Len(Varint(Len(items[j]))) \in Nat
      BY <2>1, VarintLong
    <2>3. Len(Sized(items[j])) = Len(Varint(Len(items[j]))) + Len(items[j])
      BY <2>1, <2>2, ConcatProperties DEF Sized, Cells
    <2>4. Sized(items[j]) \in Cells
      BY <2>1, SizedFacts
    <2> DEFINE c == Sized(items[j])
               x == Len(Varint(Len(items[j])))
               y == Len(items[j])
    <2>5. e[j] = c /\ c \in Cells /\ Len(c) = x + y /\ x \in Nat /\ y \in Nat /\ x >= 1
      BY <2>1, <2>2, <2>3, <2>4
    <2> HIDE DEF c, x, y, e
    <2>6. Len(c) >= 1
      BY <2>5
    <2> QED
      BY <2>5, <2>6
  <1>4. e \in Seq(Cells) /\ Len(e) = n
    <2>1. e = [j \in 1..n |-> e[j]]
      OBVIOUS
    <2> HIDE DEF e
    <2> QED
      BY <1>1, <1>3, <2>1, IsASeq, LenProperties
  <1>5. ASSUME NEW s \in Cells
        PROVE  Finds(s, n, e, items, [q \in Nat |-> ReadSized(s, q)])
    BY <1>1, SizedRead DEF Finds
  <1> HIDE DEF e
  <1>6. StackBytes(t, items) \in Cells /\ Len(StackBytes(t, items)) >= 1
    <2>1. Varint(n) \in Cells /\ Len(Varint(n)) \in Nat /\ Len(Varint(n)) >= 1
      BY <1>1, VarintLong
    <2>2. FlattenSeq(e) \in Cells
      BY <1>1, <1>3, <1>4, JoinedLong
    <2>3. Len(FlattenSeq(e)) \in Nat
      BY <2>2, LenProperties DEF Cells
    <2>4. /\ Varint(n) \o FlattenSeq(e) \in Cells
          /\ Len(Varint(n) \o FlattenSeq(e)) = Len(Varint(n)) + Len(FlattenSeq(e))
      BY <2>1, <2>2, ConcatProperties DEF Cells
    <2> QED
      BY <1>2, <2>1, <2>3, <2>4
  <1>7. ASSUME NEW s \in Cells, NEW p, Lies(s, p, StackBytes(t, items))
        PROVE  ReadStack(s, p) = Found(items, p + Len(StackBytes(t, items)))
    <2> DEFINE R == [q \in Nat |-> ReadSized(s, q)]
    <2>1. Finds(s, n, e, items, R) /\ Lies(s, p, Varint(n) \o FlattenSeq(e))
      BY <1>2, <1>5, <1>7
    <2>2. \A j \in 1..n : Len(e[j]) >= 1
      BY <1>3
    <2> HIDE DEF R
    <2>3. ReadVector(s, p, R)
            = Found([k \in 1..n |-> items[k]], p + Len(Varint(n) \o FlattenSeq(e)))
      BY ONLY s \in Cells, <1>1, <1>4, <2>1, <2>2, VectorRead
    <2> QED
      BY <1>1, <1>2, <2>3 DEF ReadStack, R
  <1> QED
    BY <1>6, <1>7

(* A reader of the witness of a writable transaction finds it. *)
LEMMA WitnessesRead ==
  ASSUME NEW t \in ATx, Len(t.witness) = in_count(t),
         \A j \in 1..in_count(t) : Len(t.witness[j]) \in {0, in_count(t)}
  PROVE  \A s \in Cells : \A p : Lies(s, p, Witnesses(t)) =>
           ReadVector(s, p, [q \in Nat |-> ReadStack(s, q)])
             = Found(t.witness, p + Len(Witnesses(t)))
  <1> DEFINE v == t.witness
             n == in_count(t)
             W(j) == StackBytes(t, v[j])
             e == [j \in 1..n |-> W(j)]
  <1>1. /\ n \in UInt(8) /\ n \in Nat /\ v = [k \in 1..n |-> v[k]]
        /\ \A j \in 1..n : v[j] \in Vector(Vector(UInt(1)))
    BY TxFacts, LenProperties, ElementOfSeq
  <1>2. Witnesses(t) = Varint(n) \o FlattenSeq(e)
    BY DEF Witnesses, Many, StackBytes
  <1>3. \A j \in 1..n : Fields(t, v[j]) = Len(v[j])
    <2> TAKE j \in 1..n
    <2>1. v[j] \in Seq(Vector(UInt(1)))
      BY <1>1 DEF Vector
    <2>2. v[j] = <<>> <=> Len(v[j]) = 0
      BY <2>1, EmptySeq
    <2> QED
      BY <2>2 DEF Fields
  <1> HIDE DEF n, v
  <1>4. \A j \in 1..n : e[j] \in Cells /\ Len(e[j]) >= 1
    BY <1>1, <1>3, StackRead
  <1>5. e \in Seq(Cells) /\ Len(e) = n
    <2>1. e = [j \in 1..n |-> e[j]]
      OBVIOUS
    <2> HIDE DEF e
    <2> QED
      BY <1>1, <1>4, <2>1, IsASeq, LenProperties
  <1>6. ASSUME NEW s \in Cells
        PROVE  Finds(s, n, e, v, [q \in Nat |-> ReadStack(s, q)])
    BY <1>1, <1>3, StackRead DEF Finds
  <1> HIDE DEF e
  <1> TAKE s \in Cells
  <1> TAKE p
  <1> HAVE Lies(s, p, Witnesses(t))
  <1> DEFINE R == [q \in Nat |-> ReadStack(s, q)]
  <1>7. Finds(s, n, e, v, R) /\ Lies(s, p, Varint(n) \o FlattenSeq(e))
    BY <1>2, <1>6
  <1>8. \A j \in 1..n : Len(e[j]) >= 1
    BY <1>4
  <1> HIDE DEF R
  <1>9. ReadVector(s, p, R) = Found([k \in 1..n |-> v[k]], p + Len(Varint(n) \o FlattenSeq(e)))
    BY ONLY s \in Cells, <1>1, <1>5, <1>7, <1>8, VectorRead
  <1> QED
    BY <1>1, <1>2, <1>9 DEF v, R

(* A reader of a byte finds it. *)
LEMMA ByteRead ==
  ASSUME NEW v \in UInt(1)
  PROVE  /\ U(1, v) \in Cells /\ Len(U(1, v)) = 1
         /\ \A s \in Cells : \A p :
              Lies(s, p, U(1, v)) => p \in Nat \ {0} /\ p <= Len(s) /\ Cell(s, p) = v
  <1>1. 1 \in 1..8 /\ 1 \in 0..8 /\ 1 \in 1..1 /\ 1 - 1 = 0 /\ Power[0] = 1
    BY PowerFacts
  <1>2. Power[1] = ByteMod /\ ByteMod \in Nat /\ ByteMod > 0
    <2>1. Power[1] = Power[0] * ByteMod
      BY <1>1, PowerFacts
    <2> QED
      BY <1>1, <2>1, BaseFacts
  <1>3. v \in Nat /\ v < ByteMod
    BY <1>1, <1>2, UIntFacts
  <1>4. U(1, v) \in Cells /\ Len(U(1, v)) = 1
    BY <1>1, <1>3, UFacts
  <1>5. U(1, v)[1] = v
    <2>1. v \div 1 = v
      BY <1>3
    <2>2. v % ByteMod = v
      <3>1. v = 0 * ByteMod + v /\ 0 \in Nat
        BY <1>2, <1>3
      <3> QED
        BY <1>2, <1>3, <3>1, DivUnique
    <2>3. U(1, v)[1] = (v \div Power[0]) % ByteMod
      BY <1>1 DEF U
    <2> QED
      BY <1>1, <2>1, <2>2, <2>3
  <1>6. ASSUME NEW s \in Cells, NEW p, Lies(s, p, U(1, v))
        PROVE  p \in Nat \ {0} /\ p <= Len(s) /\ Cell(s, p) = v
    <2>1. Len(s) \in Nat /\ \A q \in Nat : q + 1 - 1 = q
      BY LenProperties DEF Cells
    <2>2. p \in Nat \ {0} /\ p + 1 <= Len(s) + 1 /\ s[p] = v
      BY <1>1, <1>4, <1>5, <1>6, <2>1 DEF Lies
    <2>3. p <= Len(s)
      BY <2>1, <2>2
    <2> QED
      BY <2>2, <2>3 DEF Cell
  <1> QED
    BY <1>4, <1>6

(* A reader of a transaction without a witness finds it: where the marker would be, it
   finds that there are inputs. *)
LEMMA LegacyRead ==
  ASSUME NEW t \in ATx, in_count(t) > 0, NEW s \in Cells, NEW p, Lies(s, p, Legacy(t))
  PROVE  ReadTx(s, p)
           = Found([version |-> t.version, marker |-> 0, flags |-> 0, ins |-> t.ins,
                    outs |-> t.outs, witness |-> <<>>, lock_time |-> t.lock_time],
                   p + Len(Legacy(t)))
  <1> DEFINE a == U(4, t.version)
             b == Inputs(t)
             c == Outputs(t)
             d == U(4, t.lock_time)
             ab == a \o b
             abc == ab \o c
             all == abc \o d
  <1>1. /\ t.version \in UInt(4) /\ t.lock_time \in UInt(4) /\ in_count(t) \in Nat
        /\ t.version \in Nat /\ t.lock_time \in Nat
    BY TxFacts
  <1>2. a \in Cells /\ b \in Cells /\ c \in Cells /\ d \in Cells
    BY <1>1, FourCells, InputsCells, OutputsCells
  <1>3. Legacy(t) = all /\ Lies(s, p, all)
    BY DEF Legacy
  <1>4. \A q :
          /\ Lies(s, q, a) => ReadU(s, q, 4) = Found(t.version, q + Len(a))
          /\ Lies(s, q, b) => /\ ReadVector(s, q, [r \in Nat |-> ReadInput(s, r)])
                                   = Found(t.ins, q + Len(b))
                              /\ q \in Nat /\ q <= Len(s) /\ s[q] # 0
          /\ Lies(s, q, c) => ReadVector(s, q, [r \in Nat |-> ReadOutput(s, r)])
                                = Found(t.outs, q + Len(c))
          /\ Lies(s, q, d) => ReadU(s, q, 4) = Found(t.lock_time, q + Len(d))
    <2> TAKE q
    <2>1. 4 \in {1, 4, 8} /\ in_count(t) # 0
      BY <1>1
    <2> QED
      BY <1>1, <2>1, IntRead, InputsRead, OutputsRead
  <1> HIDE DEF a, b, c, d
  <1>5. ab \in Cells /\ abc \in Cells
    BY <1>2, Joining
  <1> HIDE DEF abc
  <1>6. Lies(s, p, abc) /\ Lies(s, p + Len(abc), d) /\ p + Len(abc) + Len(d) = p + Len(all)
    BY ONLY s \in Cells, <1>2, <1>3, <1>5, LiesApart DEF all
  <1> HIDE DEF ab
  <1>7. Lies(s, p, ab) /\ Lies(s, p + Len(ab), c) /\ p + Len(ab) + Len(c) = p + Len(abc)
    <2>1. Lies(s, p, ab \o c)
      BY <1>6 DEF abc
    <2> QED
      BY ONLY s \in Cells, <1>2, <1>5, <2>1, LiesApart DEF abc
  <1>8. Lies(s, p, a) /\ Lies(s, p + Len(a), b) /\ p + Len(a) + Len(b) = p + Len(ab)
    <2>1. Lies(s, p, a \o b)
      BY <1>7 DEF ab
    <2> QED
      BY ONLY s \in Cells, <1>2, <2>1, LiesApart DEF ab
  <1> HIDE DEF all
  <1>9. ReadU(s, p, 4) = Found(t.version, p + Len(a)) /\ Cell(s, p + Len(a)) # 0
    BY <1>4, <1>8 DEF Cell
  <1>10. ReadVector(s, p + Len(a), [r \in Nat |-> ReadInput(s, r)]) = Found(t.ins, p + Len(ab))
    BY <1>4, <1>8
  <1>11. ReadVector(s, p + Len(ab), [r \in Nat |-> ReadOutput(s, r)]) = Found(t.outs, p + Len(abc))
    BY <1>4, <1>7
  <1>12. ReadU(s, p + Len(abc), 4) = Found(t.lock_time, p + Len(all))
    BY <1>4, <1>6
  <1>13. (p + Len(a)) + 0 = p + Len(a)
    <2>1. p + Len(a) \in Nat
      BY <1>4, <1>8
    <2> QED
      BY <2>1
  <1> QED
    BY <1>3, <1>9, <1>10, <1>11, <1>12, <1>13 DEF ReadTx, Found

(* What a reader of a transaction with flags makes of what it reads as the stacks, st, at o. *)
ReadAround(t, s, st) ==
  LET lock_time == ReadU(s, st.next, 4)
  IN  Found([version |-> t.version, marker |-> 0, flags |-> t.flags, ins |-> t.ins,
             outs |-> t.outs, witness |-> st.val, lock_time |-> lock_time.val],
            lock_time.next)

(* A reader of a transaction with flags finds all that is before its witness, and then reads
   the witness where it was written. *)
LEMMA SegwitAround ==
  ASSUME NEW t \in ATx, t.marker = 0, Len(t.witness) = in_count(t),
         NEW s \in Cells, NEW p, Lies(s, p, Segwit(t))
  PROVE  \E o :
           /\ Lies(s, o, Witnesses(t)) /\ Lies(s, o + Len(Witnesses(t)), U(4, t.lock_time))
           /\ o \in Nat /\ Len(Witnesses(t)) \in Nat
           /\ o + Len(Witnesses(t)) + 4 = p + Len(Segwit(t))
           /\ ReadTx(s, p)
                = ReadAround(t, s, ReadVector(s, o, [r \in Nat |-> ReadStack(s, r)]))
  <1> DEFINE a == U(4, t.version)
             m == U(1, t.marker)
             f == U(1, t.flags)
             b == Inputs(t)
             c == Outputs(t)
             w == Witnesses(t)
             d == U(4, t.lock_time)
             am == a \o m
             amf == am \o f
             toIns == amf \o b
             toOuts == toIns \o c
             toAll == toOuts \o w
             all == toAll \o d
  <1>1. /\ t.version \in UInt(4) /\ t.lock_time \in UInt(4) /\ in_count(t) \in Nat
        /\ t.version \in Nat /\ t.lock_time \in Nat /\ t.marker \in UInt(1) /\ t.flags \in UInt(1)
        /\ t.marker \in Nat /\ t.flags \in Nat
    BY TxFacts
  <1>2. /\ a \in Cells /\ m \in Cells /\ f \in Cells /\ b \in Cells /\ c \in Cells /\ w \in Cells
        /\ d \in Cells /\ Len(m) = 1 /\ Len(f) = 1
    BY <1>1, FourCells, InputsCells, OutputsCells, WitnessesCells, ByteRead
  <1>3. Segwit(t) = all /\ Lies(s, p, all)
    BY DEF Segwit
  <1>4. \A q :
          /\ Lies(s, q, a) => ReadU(s, q, 4) = Found(t.version, q + Len(a))
          /\ Lies(s, q, m) => Cell(s, q) = 0 /\ q \in Nat
          /\ Lies(s, q, f) => Cell(s, q) = t.flags /\ q \in Nat
          /\ Lies(s, q, b) => ReadVector(s, q, [r \in Nat |-> ReadInput(s, r)])
                                = Found(t.ins, q + Len(b))
          /\ Lies(s, q, c) => ReadVector(s, q, [r \in Nat |-> ReadOutput(s, r)])
                                = Found(t.outs, q + Len(c))
    <2> TAKE q
    <2>1. 4 \in {1, 4, 8}
      OBVIOUS
    <2>2. Lies(s, q, a) => ReadU(s, q, 4) = Found(t.version, q + Len(a))
      BY <1>1, <2>1, IntRead
    <2>3. /\ Lies(s, q, m) => Cell(s, q) = 0 /\ q \in Nat
          /\ Lies(s, q, f) => Cell(s, q) = t.flags /\ q \in Nat
      BY <1>1, ByteRead
    <2>4. /\ Lies(s, q, b) => ReadVector(s, q, [r \in Nat |-> ReadInput(s, r)])
                                = Found(t.ins, q + Len(b))
          /\ Lies(s, q, c) => ReadVector(s, q, [r \in Nat |-> ReadOutput(s, r)])
                                = Found(t.outs, q + Len(c))
      BY InputsRead, OutputsRead
    <2> QED
      BY <2>2, <2>3, <2>4
  <1> HIDE DEF a, m, f, b, c, w, d
  <1>5. am \in Cells /\ amf \in Cells /\ toIns \in Cells /\ toOuts \in Cells /\ toAll \in Cells
    BY <1>2, Joining
  <1> HIDE DEF toAll
  <1>6. Lies(s, p, toAll) /\ Lies(s, p + Len(toAll), d) /\ p + Len(toAll) + Len(d) = p + Len(all)
    BY ONLY s \in Cells, <1>2, <1>3, <1>5, LiesApart DEF all
  <1> HIDE DEF toOuts, all
  <1>7. /\ Lies(s, p, toOuts) /\ Lies(s, p + Len(toOuts), w)
        /\ p + Len(toOuts) + Len(w) = p + Len(toAll)
    <2>1. Lies(s, p, toOuts \o w)
      BY <1>6 DEF toAll
    <2> QED
      BY ONLY s \in Cells, <1>2, <1>5, <2>1, LiesApart DEF toAll
  <1> HIDE DEF toIns
  <1>8. /\ Lies(s, p, toIns) /\ Lies(s, p + Len(toIns), c)
        /\ p + Len(toIns) + Len(c) = p + Len(toOuts)
    <2>1. Lies(s, p, toIns \o c)
      BY <1>7 DEF toOuts
    <2> QED
      BY ONLY s \in Cells, <1>2, <1>5, <2>1, LiesApart DEF toOuts
  <1> HIDE DEF amf
  <1>9. Lies(s, p, amf) /\ Lies(s, p + Len(amf), b) /\ p + Len(amf) + Len(b) = p + Len(toIns)
    <2>1. Lies(s, p, amf \o b)
      BY <1>8 DEF toIns
    <2> QED
      BY ONLY s \in Cells, <1>2, <1>5, <2>1, LiesApart DEF toIns
  <1> HIDE DEF am
  <1>10. Lies(s, p, am) /\ Lies(s, p + Len(am), f) /\ p + Len(am) + Len(f) = p + Len(amf)
    <2>1. Lies(s, p, am \o f) /\ am \in Cells /\ f \in Cells
      BY <1>2, <1>5, <1>9 DEF amf
    <2> QED
      BY ONLY s \in Cells, <2>1, LiesApart DEF amf
  <1>11. Lies(s, p, a) /\ Lies(s, p + Len(a), m) /\ p + Len(a) + Len(m) = p + Len(am)
    <2>1. Lies(s, p, a \o m) /\ a \in Cells /\ m \in Cells
      BY <1>2, <1>10 DEF am
    <2> QED
      BY ONLY s \in Cells, <2>1, LiesApart DEF am
  <1> DEFINE q == p + Len(a)
  <1>12. ReadU(s, p, 4) = Found(t.version, q) /\ Cell(s, q) = 0 /\ q \in Nat
    BY <1>4, <1>11
  <1>13. q + 1 = p + Len(am)
    BY <1>2, <1>11
  <1>14. q + 2 = p + Len(amf) /\ Cell(s, q + 1) = t.flags
    <2>1. (q + 1) + 1 = p + Len(amf)
      BY <1>2, <1>10, <1>13
    <2>2. (q + 1) + 1 = q + 2
      BY <1>12
    <2>3. Cell(s, p + Len(am)) = t.flags
      BY <1>4, <1>10
    <2> QED
      BY <1>13, <2>1, <2>2, <2>3
  <1> HIDE DEF q
  <1>15. ReadVector(s, q + 2, [r \in Nat |-> ReadInput(s, r)]) = Found(t.ins, p + Len(toIns))
    BY <1>4, <1>9, <1>14
  <1>16. ReadVector(s, p + Len(toIns), [r \in Nat |-> ReadOutput(s, r)])
           = Found(t.outs, p + Len(toOuts))
    BY <1>4, <1>8
  <1>17. Len(d) = 4
    <2>1. 4 \in 1..8
      OBVIOUS
    <2> QED
      BY <1>1, <2>1, UFacts DEF d
  <1> DEFINE o == p + Len(toOuts)
  <1>18. Lies(s, o, w) /\ Lies(s, o + Len(w), d) /\ o \in Nat /\ Len(w) \in Nat
    <2>1. o + Len(w) = p + Len(toAll) /\ o \in Nat
      BY <1>7 DEF Lies
    <2> QED
      BY <1>2, <1>6, <1>7, <2>1, LenProperties DEF Cells
  <1>19. o + Len(w) + 4 = p + Len(Segwit(t))
    BY <1>3, <1>6, <1>7, <1>17
  <1>20. ReadTx(s, p) = ReadAround(t, s, ReadVector(s, o, [r \in Nat |-> ReadStack(s, r)]))
    BY <1>12, <1>14, <1>15, <1>16 DEF ReadTx, ReadAround, Found
  <1> QED
    BY <1>18, <1>19, <1>20 DEF w, d

(* A reader of a writable transaction with a witness finds it. *)
LEMMA SegwitRead ==
  ASSUME NEW t \in ATx, t.marker = 0, Len(t.witness) = in_count(t),
         \A j \in 1..in_count(t) : Len(t.witness[j]) \in {0, in_count(t)},
         NEW s \in Cells, NEW p, Lies(s, p, Segwit(t))
  PROVE  ReadTx(s, p)
           = Found([version |-> t.version, marker |-> 0, flags |-> t.flags, ins |-> t.ins,
                    outs |-> t.outs, witness |-> t.witness, lock_time |-> t.lock_time],
                   p + Len(Segwit(t)))
  <1>1. PICK o :
          /\ Lies(s, o, Witnesses(t)) /\ Lies(s, o + Len(Witnesses(t)), U(4, t.lock_time))
          /\ o \in Nat /\ Len(Witnesses(t)) \in Nat
          /\ o + Len(Witnesses(t)) + 4 = p + Len(Segwit(t))
          /\ ReadTx(s, p)
               = ReadAround(t, s, ReadVector(s, o, [r \in Nat |-> ReadStack(s, r)]))
    BY SegwitAround
  <1>2. ReadVector(s, o, [r \in Nat |-> ReadStack(s, r)])
          = Found(t.witness, o + Len(Witnesses(t)))
    BY <1>1, WitnessesRead
  <1>3. ReadU(s, o + Len(Witnesses(t)), 4) = Found(t.lock_time, o + Len(Witnesses(t)) + 4)
    <2>1. t.lock_time \in UInt(4) /\ 4 \in 1..8
      BY TxFacts
    <2> QED
      BY <1>1, <2>1, URead
  <1> QED
    BY <1>1, <1>2, <1>3 DEF ReadAround, Found

(* A reader of a header finds it. *)
LEMMA HeaderRead ==
  ASSUME NEW h \in AHeaderOfCells, NEW s \in Cells, NEW p, Lies(s, p, Header(h))
  PROVE  ReadHeader(s, p) = Found(h, p + Len(Header(h)))
  <1> DEFINE a == U(4, h.version)
             b == h.hash_prev_block
             c == h.hash_merkle_root
             d == U(4, h.timestamp)
             e == U(4, h.bits)
             f == U(4, h.nonce)
             toPrev == a \o b
             toRoot == toPrev \o c
             toTime == toRoot \o d
             toBits == toTime \o e
             all == toBits \o f
  <1>1. /\ h.version \in UInt(4) /\ h.timestamp \in UInt(4) /\ h.bits \in UInt(4)
        /\ h.nonce \in UInt(4) /\ b \in Cells /\ Len(b) = HashSize /\ c \in Cells
        /\ Len(c) = HashSize
        /\ h = [version |-> h.version, hash_prev_block |-> b, hash_merkle_root |-> c,
                timestamp |-> h.timestamp, bits |-> h.bits, nonce |-> h.nonce]
    BY DEF AHeaderOfCells, HashOfCells
  <1>2. a \in Cells /\ d \in Cells /\ e \in Cells /\ f \in Cells
    <2>1. UInt(4) \subseteq Nat
      BY UInts
    <2> QED
      BY <1>1, <2>1, FourCells
  <1>3. Header(h) = all /\ Lies(s, p, all)
    BY DEF Header
  <1>4. \A q :
          /\ Lies(s, q, a) => ReadU(s, q, 4) = Found(h.version, q + Len(a))
          /\ Lies(s, q, d) => ReadU(s, q, 4) = Found(h.timestamp, q + Len(d))
          /\ Lies(s, q, e) => ReadU(s, q, 4) = Found(h.bits, q + Len(e))
          /\ Lies(s, q, f) => ReadU(s, q, 4) = Found(h.nonce, q + Len(f))
    <2>1. 4 \in {1, 4, 8}
      OBVIOUS
    <2> QED
      BY <1>1, <2>1, IntRead
  <1>5. \A q :
          /\ Lies(s, q, b) => ReadCells(s, q, HashSize) = Found(b, q + Len(b))
          /\ Lies(s, q, c) => ReadCells(s, q, HashSize) = Found(c, q + Len(c))
    BY <1>1, CellsRead
  <1> HIDE DEF a, b, c, d, e, f
  <1>6. toPrev \in Cells /\ toRoot \in Cells /\ toTime \in Cells /\ toBits \in Cells
    BY <1>1, <1>2, Joining
  <1> HIDE DEF toBits
  <1>7. Lies(s, p, toBits) /\ Lies(s, p + Len(toBits), f) /\ p + Len(toBits) + Len(f) = p + Len(all)
    BY ONLY s \in Cells, <1>2, <1>3, <1>6, LiesApart DEF all
  <1> HIDE DEF toTime, all
  <1>8. /\ Lies(s, p, toTime) /\ Lies(s, p + Len(toTime), e)
        /\ p + Len(toTime) + Len(e) = p + Len(toBits)
    <2>1. Lies(s, p, toTime \o e)
      BY <1>7 DEF toBits
    <2> QED
      BY ONLY s \in Cells, <1>2, <1>6, <2>1, LiesApart DEF toBits
  <1> HIDE DEF toRoot
  <1>9. /\ Lies(s, p, toRoot) /\ Lies(s, p + Len(toRoot), d)
        /\ p + Len(toRoot) + Len(d) = p + Len(toTime)
    <2>1. Lies(s, p, toRoot \o d)
      BY <1>8 DEF toTime
    <2> QED
      BY ONLY s \in Cells, <1>2, <1>6, <2>1, LiesApart DEF toTime
  <1> HIDE DEF toPrev
  <1>10. /\ Lies(s, p, toPrev) /\ Lies(s, p + Len(toPrev), c)
         /\ p + Len(toPrev) + Len(c) = p + Len(toRoot)
    <2>1. Lies(s, p, toPrev \o c) /\ c \in Cells
      BY <1>1, <1>9 DEF toRoot
    <2> QED
      BY ONLY s \in Cells, <1>6, <2>1, LiesApart DEF toRoot
  <1>11. Lies(s, p, a) /\ Lies(s, p + Len(a), b) /\ p + Len(a) + Len(b) = p + Len(toPrev)
    <2>1. Lies(s, p, a \o b) /\ b \in Cells
      BY <1>1, <1>10 DEF toPrev
    <2> QED
      BY ONLY s \in Cells, <1>2, <2>1, LiesApart DEF toPrev
  <1>12. ReadU(s, p, 4) = Found(h.version, p + Len(a))
    BY <1>4, <1>11
  <1>13. ReadCells(s, p + Len(a), HashSize) = Found(b, p + Len(toPrev))
    BY <1>5, <1>11
  <1>14. ReadCells(s, p + Len(toPrev), HashSize) = Found(c, p + Len(toRoot))
    BY <1>5, <1>10
  <1>15. ReadU(s, p + Len(toRoot), 4) = Found(h.timestamp, p + Len(toTime))
    BY <1>4, <1>9
  <1>16. ReadU(s, p + Len(toTime), 4) = Found(h.bits, p + Len(toBits))
    BY <1>4, <1>8
  <1>17. ReadU(s, p + Len(toBits), 4) = Found(h.nonce, p + Len(all))
    BY <1>4, <1>7
  <1> QED
    BY <1>1, <1>3, <1>12, <1>13, <1>14, <1>15, <1>16, <1>17 DEF ReadHeader, Found

(* A reader of a writable transaction finds what its bytes can show. *)
LEMMA TxRead ==
  ASSUME NEW t \in Txs, Writable(t), NEW s \in Cells, NEW p, Lies(s, p, Transaction(t))
  PROVE  ReadTx(s, p) = Found(Shown(t), p + Len(Transaction(t)))
  <1>1. t \in ATx /\ (t.flags # 0 => Len(t.witness) = in_count(t))
    BY TxsAssumption
  <1>2. t = [version |-> t.version, marker |-> t.marker, flags |-> t.flags, ins |-> t.ins,
             outs |-> t.outs, witness |-> t.witness, lock_time |-> t.lock_time]
    BY <1>1 DEF ATx
  <1>3. CASE t.flags = 0
    <2>1. in_count(t) > 0 /\ t.marker = 0 /\ Transaction(t) = Legacy(t)
      BY <1>3 DEF Writable, Expressible, Transaction
    <2>2. Lies(s, p, Legacy(t))
      BY <2>1
    <2>3. Shown(t) = [version |-> t.version, marker |-> 0, flags |-> 0, ins |-> t.ins,
                      outs |-> t.outs, witness |-> <<>>, lock_time |-> t.lock_time]
      BY <1>2, <1>3, <2>1 DEF Shown
    <2> QED
      BY <1>1, <2>1, <2>2, <2>3, LegacyRead
  <1>4. CASE t.flags # 0
    <2>1. /\ t.marker = 0 /\ Transaction(t) = Segwit(t) /\ Shown(t) = t
          /\ \A j \in 1..in_count(t) : Len(t.witness[j]) \in {0, in_count(t)}
      BY <1>4 DEF Writable, Expressible, Transaction, Shown
    <2>2. Lies(s, p, Segwit(t))
      BY <2>1
    <2>3. ReadTx(s, p)
            = Found([version |-> t.version, marker |-> 0, flags |-> t.flags, ins |-> t.ins,
                     outs |-> t.outs, witness |-> t.witness, lock_time |-> t.lock_time],
                    p + Len(Segwit(t)))
      BY <1>1, <1>4, <2>1, <2>2, SegwitRead
    <2> QED
      BY <1>2, <2>1, <2>3
  <1> QED
    BY <1>3, <1>4

(* A reader of the whole block finds what is before the transaction, and then reads the
   transaction where it was written. *)
LEMMA BlockAround ==
  ASSUME BuilderInv, buf # <<>>
  PROVE  /\ tx_info \in Txs /\ buf \in Cells
         /\ BlockHeader.val = header
         /\ TxCount.val = 1
         /\ \E o : /\ Lies(buf, o, Transaction(tx_info)) /\ FirstTx = ReadTx(buf, o)
                  /\ o + Len(Transaction(tx_info)) = Len(buf) + 1
  <1> DEFINE h == Header(header)
             n == Varint(1)
             t == Transaction(tx_info)
             hn == h \o n
             s == buf
  <1>1. /\ tx_info \in Txs /\ header \in AHeaderOfCells /\ s \in Cells
        /\ s = hn \o t
    BY DEF BuilderInv, BuilderTypeOK, Appended, Filled
  <1>2. 1 \in UInt(8)
    <2>1. Power[8] \in Nat /\ 1 < Power[8]
      <3>1. 7 \in 0..8 /\ 8 \in 0..8 /\ 8 \in 1..8 /\ 8 - 1 = 7
        OBVIOUS
      <3> DEFINE x == Power[7]
                 y == Power[8]
                 b == ByteMod
      <3>2. x \in Nat /\ x > 0 /\ y \in Nat /\ y = x * b /\ b \in Nat /\ b >= 4
        BY <3>1, PowerFacts, BaseFacts
      <3> HIDE DEF x, y, b
      <3>3. x * b >= x * 4
        <4>1. b - 4 \in Nat
          BY <3>2
        <4> DEFINE c == b - 4
        <4>2. b = 4 + c /\ c \in Nat
          BY <3>2, <4>1
        <4> HIDE DEF c
        <4>3. x * b = x * 4 + x * c /\ x * c \in Nat
          BY <3>2, <4>2
        <4> QED
          BY <3>2, <4>3
      <3>4. y > 1
        BY <3>2, <3>3
      <3> QED
        BY <3>2, <3>4 DEF y
    <2>2. 8 \in 0..8 /\ 1 \in Nat
      OBVIOUS
    <2> QED
      BY <2>1, <2>2, UIntFacts
  <1>3. h \in Cells /\ n \in Cells /\ t \in Cells
    BY <1>1, <1>2, HeaderCells, VarintLong, TransactionCells
  <1>4. Lies(s, 1, s)
    <2>1. Len(s) \in Nat /\ \A k \in Nat : 1 + k - 1 = k
      BY <1>1, LenProperties DEF Cells
    <2> QED
      BY <2>1 DEF Lies
  <1>5. Len(s) \in Nat
    BY <1>1, LenProperties DEF Cells
  <1> HIDE DEF h, n, t, s
  <1>6. hn \in Cells
    BY <1>3, Joining
  <1> HIDE DEF hn
  <1>7. Lies(s, 1, hn) /\ Lies(s, 1 + Len(hn), t) /\ 1 + Len(hn) + Len(t) = 1 + Len(s)
    <2>1. Lies(s, 1, hn \o t)
      BY <1>1, <1>4
    <2> QED
      BY ONLY <1>1, <1>3, <1>6, <2>1, LiesApart
  <1>8. Lies(s, 1, h) /\ Lies(s, 1 + Len(h), n) /\ 1 + Len(h) + Len(n) = 1 + Len(hn)
    <2>1. Lies(s, 1, h \o n)
      BY <1>7 DEF hn
    <2> QED
      BY ONLY <1>1, <1>3, <2>1, LiesApart DEF hn
  <1>9. BlockHeader = Found(header, 1 + Len(h))
    BY <1>1, <1>8, HeaderRead DEF BlockHeader, h, s
  <1>10. TxCount = Found(1, 1 + Len(hn))
    <2>1. BlockHeader.next = 1 + Len(h)
      BY <1>9 DEF Found
    <2>2. ReadVarint(s, 1 + Len(h)) = Found(1, 1 + Len(h) + Len(n))
      BY <1>1, <1>2, <1>8, VarintRead DEF n
    <2> QED
      BY <1>8, <2>1, <2>2 DEF TxCount, s
  <1>11. /\ Lies(s, 1 + Len(hn), t) /\ FirstTx = ReadTx(s, 1 + Len(hn))
         /\ (1 + Len(hn)) + Len(t) = Len(s) + 1
    <2>1. TxCount.next = 1 + Len(hn)
      BY <1>10 DEF Found
    <2>2. 1 + Len(s) = Len(s) + 1
      BY <1>5
    <2> QED
      BY <1>7, <2>1, <2>2 DEF FirstTx, s
  <1>12. BlockHeader.val = header /\ TxCount.val = 1
    BY <1>9, <1>10 DEF Found
  <1> QED
    BY <1>1, <1>11, <1>12 DEF s, t

(* A reader of the whole block finds what was written. *)
LEMMA BlockRead == BuilderInv => ReadBack
  <1> SUFFICES ASSUME BuilderInv, buf # <<>>
               PROVE  /\ BlockHeader.val = header
                      /\ TxCount.val = 1
                      /\ Writable(tx_info) => FirstTx = Found(Shown(tx_info), Len(buf) + 1)
    BY DEF ReadBack
  <1> QED
    BY BlockAround, TxRead

(* ReadBack: a reader of the format finds in the block of main_block_builder.c the header, the
   number of the transactions and every writable transaction, with any sizes of scripts and
   witnesses, and nothing behind it. *)
THEOREM ReadBackHolds == BuilderSpec => []ReadBack
  <1>1. BuilderInv => ReadBack
    BY BlockRead
  <1> QED
    BY <1>1, BuilderInvariance, PTL

(* A hash is displayed as the digits that it was made of. *)
LEMMA HashDisplayed ==
  ASSUME NEW d \in Seq(0..(Nibble - 1)), Len(d) >= HashStringSize
  PROVE  HexBackward(HashOfDigits(d)) = SubSeq(d, 1, HashStringSize) \o <<Nul>>
  <1> DEFINE n == HashSize
             h == HashOfDigits(d)
             r == Reverse(h)
             g(k) == DigitsOfByte(r[(k + 1) \div 2])[2 - (k % 2)]
             x == [k \in 1..(2 * n) |-> g(k)]
             y == SubSeq(d, 1, 2 * n)
  <1>1. n \in Nat /\ Nibble \in Nat /\ Nibble > 0 /\ Len(d) \in Nat /\ 2 * n <= Len(d)
    BY LenProperties, SizesAssumption, UInts, BaseFacts DEF HashStringSize
  <1>2. /\ h \in Cells /\ Len(h) = n
        /\ \A k \in 1..n : h[k] = d[2 * (n - k) + 1] * Nibble + d[2 * (n - k) + 2]
    BY PrevHashCells DEF HashOfCells
  <1> HIDE DEF h, n
  <1>3. r = [j \in 1..n |-> h[n - j + 1]]
    BY <1>2 DEF Reverse
  <1>4. Len(r) = n
    <2>1. \A j \in 1..n : h[n - j + 1] \in Nat
      <3> TAKE j \in 1..n
      <3>1. n - j + 1 \in 1..Len(h)
        BY <1>1, <1>2
      <3> QED
        BY <1>2, <3>1, ElementOfSeq DEF Cells
    <2> QED
      BY <1>1, <1>3, <2>1, IsASeq, LenProperties
  <1>5. \A q \in 1..(2 * n) : d[q] \in Nat /\ d[q] < Nibble
    <2> TAKE q \in 1..(2 * n)
    <2>1. q \in 1..Len(d)
      BY <1>1
    <2>2. d[q] \in 0..(Nibble - 1)
      BY <2>1, ElementOfSeq
    <2> QED
      BY <1>1, <2>2
  <1>6. ASSUME NEW j \in 1..n
        PROVE  DigitsOfByte(r[j])[1] = d[2 * j - 1] /\ DigitsOfByte(r[j])[2] = d[2 * j]
    <2>1. /\ n - j + 1 \in 1..n /\ 2 * (n - (n - j + 1)) + 1 = 2 * j - 1
          /\ 2 * (n - (n - j + 1)) + 2 = 2 * j
          /\ 2 * j - 1 \in 1..(2 * n) /\ 2 * j \in 1..(2 * n)
      BY <1>1
    <2> DEFINE u == d[2 * j - 1]
               v == d[2 * j]
               z == r[j]
    <2>2. u \in Nat /\ v \in Nat /\ v < Nibble
      BY <1>5, <2>1
    <2>3. r[j] = h[n - j + 1]
      BY <1>3
    <2>4. h[n - j + 1] = d[2 * (n - (n - j + 1)) + 1] * Nibble + d[2 * (n - (n - j + 1)) + 2]
      BY <1>2, <2>1
    <2>5. z = u * Nibble + v
      BY <2>1, <2>3, <2>4
    <2> HIDE DEF u, v, z
    <2>6. u * Nibble + v \in Nat
      BY <1>1, <2>2
    <2>7. z \div Nibble = u /\ z % Nibble = v
      <3>1. z \in Nat /\ z = u * Nibble + v
        BY <2>5, <2>6
      <3> QED
        BY ONLY <1>1, <2>2, <3>1, DivUnique
    <2>8. DigitsOfByte(z) = <<u, v>>
      BY <2>7 DEF DigitsOfByte
    <2> QED
      BY <2>8 DEF u, v, z
  <1> HIDE DEF r
  <1>7. ASSUME NEW k \in 1..(2 * n)
        PROVE  g(k) = d[k]
    <2> DEFINE j == (k + 1) \div 2
    <2>1. j \in 1..n /\ ((k = 2 * j - 1 /\ k % 2 = 1) \/ (k = 2 * j /\ k % 2 = 0))
      <3>1. k \in Nat /\ k >= 1 /\ k <= 2 * n /\ n \in Nat
        BY <1>1
      <3>2. j \in Nat /\ (k = 2 * j - 1 \/ k = 2 * j)
        BY <3>1
      <3>3. k = 2 * j - 1 => k % 2 = 1
        BY <3>1, <3>2
      <3>4. k = 2 * j => k % 2 = 0
        BY <3>1, <3>2
      <3> HIDE DEF j
      <3>5. j \in 1..n
        BY <3>1, <3>2
      <3> QED
        BY <3>2, <3>3, <3>4, <3>5
    <2>2. g(k) = DigitsOfByte(r[j])[2 - (k % 2)]
      OBVIOUS
    <2> HIDE DEF j, g
    <2>3. 2 - 1 = 1 /\ 2 - 0 = 2
      OBVIOUS
    <2> QED
      BY <1>6, <2>1, <2>2, <2>3
  <1>8. y \in Seq(0..(Nibble - 1)) /\ Len(y) = 2 * n /\ \A k \in 1..(2 * n) : y[k] = d[k]
    <2>1. 1 \in 1..(Len(d) + 1) /\ 2 * n \in 0..Len(d) /\ 2 * n \in Nat
      BY <1>1
    <2>2. \A k \in 1..(2 * n) : d[k] \in 0..(Nibble - 1)
      <3> TAKE k \in 1..(2 * n)
      <3>1. k \in 1..Len(d)
        BY <1>1
      <3> QED
        BY <3>1, ElementOfSeq
    <2>3. \A k \in Nat : 1 + k - 1 = k
      OBVIOUS
    <2> DEFINE m == 2 * n
    <2>4. m \in Nat /\ m \in 0..Len(d) /\ \A k \in 1..m : d[k] \in 0..(Nibble - 1)
      BY <2>1, <2>2
    <2> HIDE DEF m
    <2>5. SubSeq(d, 1, m) \in Seq(0..(Nibble - 1)) /\ Len(SubSeq(d, 1, m)) = m
          /\ \A k \in 1..m : SubSeq(d, 1, m)[k] = d[k]
      BY <2>3, <2>4, SubSeqProperties
    <2> QED
      BY <2>5 DEF m
  <1> HIDE DEF g, y
  <1>9. x = y
    <2>1. y = [k \in 1..(2 * n) |-> y[k]]
      BY <1>1, <1>8, LenProperties
    <2> QED
      BY <1>7, <1>8, <2>1
  <1>10. HexBackward(h) = x \o <<Nul>>
    BY <1>4 DEF HexBackward, HexForward, g, r
  <1> QED
    BY <1>9, <1>10 DEF y, n, h, HashStringSize

(* A hash of zeros is displayed as zeros. *)
LEMMA ZerosDisplayed == HexBackward(ZeroHash) = HexForward(ZeroHash)
  <1>1. HashSize \in Nat
    BY SizesAssumption, UInts
  <1>2. Len(ZeroHash) = HashSize /\ ZeroHash = [k \in 1..HashSize |-> 0]
    BY <1>1, IsASeq, LenProperties DEF ZeroHash
  <1>3. \A j \in 1..HashSize : HashSize - j + 1 \in 1..HashSize
    BY <1>1
  <1>4. Reverse(ZeroHash) = [j \in 1..HashSize |-> ZeroHash[(HashSize - j) + 1]]
    BY <1>2 DEF Reverse
  <1>5. Reverse(ZeroHash) = ZeroHash
    BY <1>2, <1>3, <1>4
  <1> QED
    BY <1>5 DEF HexBackward

(* The header that a reader finds commits to the transaction that it finds. *)
LEMMA BlockCommits == BuilderInv => HeaderCommits
  <1> SUFFICES ASSUME BuilderInv, buf # <<>>
               PROVE  /\ Writable(tx_info) =>
                           BlockHeader.val.hash_merkle_root = Hash256(Legacy(FirstTx.val))
                      /\ HexBackward(BlockHeader.val.hash_prev_block) =
                           (IF opts.prev_block_hash = Unset THEN HexForward(ZeroHash)
                            ELSE SubSeq(opts.prev_block_hash, 1, HashStringSize) \o <<Nul>>)
    BY DEF HeaderCommits
  <1>1. Filled /\ opts \in AnOptions
    BY DEF BuilderInv, BuilderTypeOK, Appended
  <1>2. /\ BlockHeader.val = header
        /\ Writable(tx_info) => FirstTx.val = Shown(tx_info)
    BY BlockRead DEF ReadBack, Found
  <1>3. Legacy(Shown(tx_info)) = Legacy(tx_info)
    <2>1. tx_info \in ATx
      BY <1>1, TxsAssumption DEF Filled
    <2> DEFINE u == Shown(tx_info)
    <2>2. /\ u.version = tx_info.version /\ u.ins = tx_info.ins /\ u.outs = tx_info.outs
          /\ u.lock_time = tx_info.lock_time
      BY <2>1 DEF Shown, ATx
    <2> HIDE DEF u
    <2>3. Inputs(u) = Inputs(tx_info) /\ Outputs(u) = Outputs(tx_info)
      BY <2>2 DEF Inputs, Outputs, in_count, Many
    <2> QED
      BY <2>2, <2>3 DEF Legacy, u
  <1>4. Writable(tx_info) => header.hash_merkle_root = Hash256(Legacy(FirstTx.val))
    BY <1>1, <1>2, <1>3 DEF Filled, Txid
  <1>5. HexBackward(header.hash_prev_block) =
          (IF opts.prev_block_hash = Unset THEN HexForward(ZeroHash)
           ELSE SubSeq(opts.prev_block_hash, 1, HashStringSize) \o <<Nul>>)
    <2>1. header.hash_prev_block = PrevHash
      BY <1>1 DEF Filled
    <2>2. CASE opts.prev_block_hash = Unset
      BY <2>1, <2>2, ZerosDisplayed DEF PrevHash
    <2>3. CASE opts.prev_block_hash # Unset
      <3> DEFINE d == opts.prev_block_hash
      <3>1. d \in Seq(0..(Nibble - 1)) /\ Len(d) >= HashStringSize
        BY <1>1, <2>3 DEF Filled, AnOptions
      <3> HIDE DEF d
      <3>2. HexBackward(HashOfDigits(d)) = SubSeq(d, 1, HashStringSize) \o <<Nul>>
        BY <3>1, HashDisplayed
      <3> QED
        BY <2>1, <2>3, <3>2 DEF PrevHash, d
    <2> QED
      BY <2>2, <2>3
  <1> QED
    BY <1>2, <1>4, <1>5

(* HeaderCommits: what the header of main_block_builder.c's block says of the transaction and
   of the previous block is true of what a reader finds, for every hash function. *)
THEOREM HeaderCommitsHolds == BuilderSpec => []HeaderCommits
  <1>1. BuilderInv => HeaderCommits
    BY BlockCommits
  <1> QED
    BY <1>1, BuilderInvariance, PTL

=============================================================================
