-------------------------- MODULE BlockDexorProofs --------------------------
(***************************************************************************)
(* Proofs about BlockDexor, for all files of blocks, sizes of fields and   *)
(* keys, and wherever the file ends.                                       *)
(***************************************************************************)
EXTENDS BlockDexor, SequenceTheorems, WellFoundedInduction, TLAPS

(* The file is the xor-ed bytes of the blocks, perhaps not to the end. *)
FileInv ==
  /\ Len(file) <= Len(Plain(blocks))
  /\ \A i \in 1..Len(file) : file[i] = <<Plain(blocks)[i], (i - 1) % KeySize>>

Prelude == MagicSize + SizeSize + HeaderSize

(* How far behind the beginning of a block the reading is, whatever is     *)
(* there.                                                                  *)
Passed ==
  /\ pc = "header" => pos = begin + MagicSize + SizeSize
  /\ pc = "count" => pos = header
  /\ pc \in {"count", "tx", "seek"} => header = begin + Prelude /\ header <= Len(file)

BaseInv == TypeOK /\ FileInv /\ Passed /\ OutputDecoded

(* Block k is the one being read, if the sizes lead there. *)
At(k) ==
  Led(k) => k \in 1..Len(blocks) /\ begin = Begins(k) /\ size = blocks[k].size

(* Where the reading is, after so many blocks have been printed. *)
PlaceInv ==
  /\ pc = "open" => pos = 0 /\ printed = <<>>
  /\ pc = "magic" => (Led(Len(printed) + 1) => pos = Begins(Len(printed) + 1))
  /\ pc \in {"header", "count", "tx"} => At(Len(printed) + 1)
  /\ pc = "seek" => At(Len(printed))

(* The count that was read is that of the block, if the file has all of it.*)
CountInv ==
  pc = "tx" =>
    LET k == Len(printed) + 1
    IN  Whole(k) => /\ blocks[k].txns > 0
                    /\ blocks[k].txns < 2^15 => txns = blocks[k].txns
                    /\ pos = header + Len(CountBytes(blocks[k].txns))

Printing == PlaceInv /\ CountInv /\ BlocksPrinted /\ CountsRight

Inv == BaseInv /\ Printing
-----------------------------------------------------------------------------
(***************************************************************************)
(* Induction on a set of naturals, and functions defined by recursion.     *)
(***************************************************************************)

LEMMA Induction ==
  ASSUME NEW T, NEW m \in Nat, 0 \in T,
         \A n \in 1..m : n - 1 \in T => n \in T
  PROVE  0..m \subseteq T
  <1> DEFINE Out == {n \in 0..m : n \notin T}
  <1>1. ASSUME NEW o \in Out
        PROVE  FALSE
    <2>1. Out \subseteq Nat /\ Out # {}
      BY <1>1
    <2>2. PICK n \in Out : \A k \in Out : ~ (<<k, n>> \in OpToRel(<, Nat))
      BY <2>1, WFMin, NatLessThanWellFounded
    <2>3. n \in 1..m /\ n \notin T
      OBVIOUS
    <2>4. n - 1 \in 0..m /\ n - 1 \in Nat /\ n \in Nat /\ n - 1 < n
      BY <2>3
    <2>5. n - 1 \in Out
      BY <2>3, <2>4
    <2>6. /\ <<n - 1, n>> \in Nat \X Nat
          /\ <<n - 1, n>>[1] = n - 1 /\ <<n - 1, n>>[2] = n
      BY <2>4
    <2>7. <<n - 1, n>> \in OpToRel(<, Nat)
      BY <2>4, <2>6 DEF OpToRel
    <2> QED
      BY <2>2, <2>5, <2>7
  <1> QED
    BY <1>1

(* f begins with a, each value being made of the one before by G. *)
Chain(f, V, a, m, G) ==
  f \in [0..m -> V] /\ f[0] = a /\ \A n \in 1..m : f[n] = G[n][f[n - 1]]

LEMMA ChainExists ==
  ASSUME NEW V, NEW a \in V, NEW m \in Nat, NEW G \in [1..m -> [V -> V]]
  PROVE  \E f : Chain(f, V, a, m, G)
  <1> DEFINE UpTo(n) == \E f \in [0..n -> V] :
                          f[0] = a /\ \A k \in 1..n : f[k] = G[k][f[k - 1]]
             T == {n \in 0..m : UpTo(n)}
  <1>1. 0 \in T
    <2> DEFINE f == [n \in 0..0 |-> a]
    <2>1. f \in [0..0 -> V] /\ f[0] = a /\ \A k \in 1..0 : f[k] = G[k][f[k - 1]]
      OBVIOUS
    <2> HIDE DEF f
    <2>2. UpTo(0)
      BY <2>1
    <2> QED
      BY <2>2
  <1>2. ASSUME NEW n \in 1..m, n - 1 \in T
        PROVE  n \in T
    <2>1. PICK g \in [0..(n - 1) -> V] :
            g[0] = a /\ \A k \in 1..(n - 1) : g[k] = G[k][g[k - 1]]
      BY <1>2
    <2> DEFINE f == [k \in 0..n |-> IF k = n THEN G[n][g[n - 1]] ELSE g[k]]
    <2>2. n - 1 \in 0..(n - 1) /\ g[n - 1] \in V
      OBVIOUS
    <2>3. G[n] \in [V -> V]
      OBVIOUS
    <2>4. G[n][g[n - 1]] \in V
      BY <2>2, <2>3
    <2>5. f \in [0..n -> V]
      BY <2>4
    <2>6. \A k \in 0..(n - 1) : f[k] = g[k]
      OBVIOUS
    <2>7. f[n] = G[n][g[n - 1]]
      OBVIOUS
    <2> HIDE DEF f
    <2>8. f[0] = a
      BY <2>1, <2>6
    <2>9. ASSUME NEW k \in 1..n
          PROVE  f[k] = G[k][f[k - 1]]
      <3>1. k - 1 \in 0..(n - 1) /\ f[k - 1] = g[k - 1]
        BY <2>6
      <3>2. CASE k = n
        BY <3>1, <3>2, <2>7
      <3>3. CASE k # n
        <4>1. k \in 1..(n - 1) /\ k \in 0..(n - 1)
          BY <3>3
        <4>2. f[k] = g[k] /\ g[k] = G[k][g[k - 1]]
          BY <4>1, <2>1, <2>6
        <4> QED
          BY <4>2, <3>1
      <3> QED
        BY <3>2, <3>3
    <2>10. UpTo(n)
      BY <2>5, <2>8, <2>9
    <2> QED
      BY <2>10
  <1> HIDE DEF T
  <1>3. 0..m \subseteq T
    BY <1>1, <1>2, Induction
  <1>4. m \in T
    BY <1>3
  <1> QED
    BY <1>4 DEF T, Chain
-----------------------------------------------------------------------------
(***************************************************************************)
(* Numbers and their bytes                                                 *)
(***************************************************************************)

LEMMA ByteFacts == \A b : b \in Byte <=> b \in Nat /\ b <= 255
  <1>1. \A m \in Nat : \A b : b \in 0..m <=> b \in Nat /\ b <= m
    BY SMT
  <1>2. 255 \in Nat
    BY SMT
  <1>3. \A b : b \in 0..255 <=> b \in Nat /\ b <= 255
    BY ONLY <1>1, <1>2, Zenon
  <1> QED
    BY ONLY <1>3, Zenon DEF Byte

LEMMA HigherDef ==
  ASSUME NEW n \in Nat
  PROVE  /\ Higher(n) \in [0..SizeSize -> Nat]
         /\ Higher(n)[0] = n
         /\ \A k \in 1..SizeSize : Higher(n)[k] = Higher(n)[k - 1] \div 256
  <1> DEFINE G == [k \in 1..SizeSize |-> [v \in Nat |-> v \div 256]]
  <1>1. SizeSize \in Nat
    BY SizeAssumption
  <1>2. G \in [1..SizeSize -> [Nat -> Nat]]
    <2>1. \A v \in Nat : v \div 256 \in Nat
      BY SMT
    <2> QED
      BY <2>1
  <1>3. \A k \in 1..SizeSize : \A v \in Nat : G[k][v] = v \div 256
    OBVIOUS
  <1> HIDE DEF G
  <1>4. PICK f : Chain(f, Nat, n, SizeSize, G)
    BY <1>1, <1>2, ChainExists
  <1>5. \A k \in 1..SizeSize : f[k] = f[k - 1] \div 256
    <2> SUFFICES ASSUME NEW k \in 1..SizeSize PROVE f[k] = f[k - 1] \div 256
      OBVIOUS
    <2>1. k - 1 \in 0..SizeSize
      BY <1>1
    <2>2. f[k - 1] \in Nat /\ f[k] = G[k][f[k - 1]]
      BY <2>1, <1>4 DEF Chain
    <2>3. G[k][f[k - 1]] = f[k - 1] \div 256
      BY ONLY <1>3, <2>2, k \in 1..SizeSize
    <2> QED
      BY <2>2, <2>3
  <1>6. f = [k \in 0..SizeSize |-> IF k = 0 THEN n ELSE f[k - 1] \div 256]
    <2>1. ASSUME NEW k \in 0..SizeSize
          PROVE  f[k] = IF k = 0 THEN n ELSE f[k - 1] \div 256
      <3>1. CASE k = 0
        BY <3>1, <1>4 DEF Chain
      <3>2. CASE k # 0
        <4>1. k \in 1..SizeSize
          BY <3>2, <1>1
        <4> QED
          BY <4>1, <3>2, <1>5
      <3> QED
        BY <3>1, <3>2
    <2> QED
      BY <1>4, <2>1 DEF Chain
  <1> DEFINE h == Higher(n)
  <1>7. h = [k \in 0..SizeSize |-> IF k = 0 THEN n ELSE h[k - 1] \div 256]
    BY <1>6 DEF Higher
  <1> HIDE DEF h
  <1>8. h[0] = n /\ \A k \in 1..SizeSize : h[k] = h[k - 1] \div 256
    <2>1. 0 \in 0..SizeSize /\ \A k \in 1..SizeSize : k \in 0..SizeSize /\ k # 0
      BY <1>1
    <2> QED
      BY <2>1, <1>7
  <1> DEFINE T == {k \in 0..SizeSize : h[k] \in Nat}
  <1>9. 0 \in T
    BY <1>1, <1>8
  <1>10. ASSUME NEW k \in 1..SizeSize, k - 1 \in T
         PROVE  k \in T
    <2>1. h[k - 1] \in Nat /\ h[k] = h[k - 1] \div 256
      BY <1>8, <1>10
    <2>2. h[k] \in Nat
      BY <2>1, SMT
    <2> QED
      BY <2>2
  <1> HIDE DEF T
  <1>11. 0..SizeSize \subseteq T
    BY <1>1, <1>9, <1>10, Induction
  <1>12. h \in [0..SizeSize -> Nat]
    BY <1>7, <1>11 DEF T
  <1> QED
    BY <1>8, <1>12 DEF h

LEMMA EndingDef ==
  ASSUME NEW s \in Seq(Byte)
  PROVE  /\ Ending(s) \in [0..Len(s) -> Nat]
         /\ Ending(s)[0] = 0
         /\ \A n \in 1..Len(s) :
              Ending(s)[n] = s[Len(s) - n + 1] + 256 * Ending(s)[n - 1]
  <1> DEFINE m == Len(s)
             G == [n \in 1..m |-> [v \in Nat |-> s[m - n + 1] + 256 * v]]
  <1>1. m \in Nat /\ \A n \in 1..m : s[m - n + 1] \in Nat
    <2>1. m \in Nat
      OBVIOUS
    <2>2. ASSUME NEW n \in 1..m
          PROVE  s[m - n + 1] \in Nat
      <3>1. m - n + 1 \in 1..m
        BY <2>1
      <3>2. s[m - n + 1] \in Byte
        BY <3>1, ElementOfSeq
      <3> QED
        BY <3>2, ByteFacts
    <2> QED
      BY <2>1, <2>2
  <1> HIDE DEF m
  <1>2. G \in [1..m -> [Nat -> Nat]]
    BY <1>1
  <1>3. \A n \in 1..m : \A v \in Nat : G[n][v] = s[m - n + 1] + 256 * v
    OBVIOUS
  <1> HIDE DEF G
  <1>4. PICK f : Chain(f, Nat, 0, m, G)
    BY <1>1, <1>2, ChainExists
  <1>5. \A n \in 1..m : f[n] = s[m - n + 1] + 256 * f[n - 1]
    <2> SUFFICES ASSUME NEW n \in 1..m PROVE f[n] = s[m - n + 1] + 256 * f[n - 1]
      OBVIOUS
    <2>1. n - 1 \in 0..m
      BY <1>1
    <2>2. f[n - 1] \in Nat /\ f[n] = G[n][f[n - 1]]
      BY <2>1, <1>4 DEF Chain
    <2>3. G[n][f[n - 1]] = s[m - n + 1] + 256 * f[n - 1]
      BY ONLY <1>3, <2>2, n \in 1..m
    <2> QED
      BY <2>2, <2>3
  <1>6. f = [n \in 0..m |-> IF n = 0 THEN 0 ELSE s[m - n + 1] + 256 * f[n - 1]]
    <2>1. ASSUME NEW n \in 0..m
          PROVE  f[n] = IF n = 0 THEN 0 ELSE s[m - n + 1] + 256 * f[n - 1]
      <3>1. CASE n = 0
        BY <3>1, <1>4 DEF Chain
      <3>2. CASE n # 0
        <4>1. n \in 1..m
          BY <3>2, <1>1
        <4> QED
          BY <4>1, <3>2, <1>5
      <3> QED
        BY <3>1, <3>2
    <2> QED
      BY <1>4, <2>1 DEF Chain
  <1> DEFINE h == Ending(s)
  <1>7. h = [n \in 0..m |-> IF n = 0 THEN 0 ELSE s[m - n + 1] + 256 * h[n - 1]]
    BY <1>6 DEF Ending, m
  <1> HIDE DEF h
  <1>8. h[0] = 0 /\ \A n \in 1..m : h[n] = s[m - n + 1] + 256 * h[n - 1]
    <2>1. 0 \in 0..m /\ \A n \in 1..m : n \in 0..m /\ n # 0
      BY <1>1
    <2> QED
      BY <2>1, <1>7
  <1> DEFINE T == {n \in 0..m : h[n] \in Nat}
  <1>9. 0 \in T
    BY <1>1, <1>8
  <1>10. ASSUME NEW n \in 1..m, n - 1 \in T
         PROVE  n \in T
    <2>1. h[n - 1] \in Nat /\ h[n] = s[m - n + 1] + 256 * h[n - 1]
      BY <1>8, <1>10
    <2>2. s[m - n + 1] \in Nat
      BY <1>1
    <2>3. \A x, y \in Nat : x + 256 * y \in Nat
      BY SMT
    <2>4. h[n] \in Nat
      BY ONLY <2>1, <2>2, <2>3
    <2> QED
      BY <2>4
  <1> HIDE DEF T
  <1>11. 0..m \subseteq T
    BY <1>1, <1>9, <1>10, Induction
  <1>12. h \in [0..m -> Nat]
    BY <1>7, <1>11 DEF T
  <1> QED
    BY <1>8, <1>12 DEF h, m

LEMMA NumberNat ==
  ASSUME NEW s \in Seq(Byte)
  PROVE  Number(s) \in Nat
  <1>1. Len(s) \in 0..Len(s)
    OBVIOUS
  <1> QED
    BY <1>1, EndingDef DEF Number

(* The bytes of a number that the field holds give the number back. *)
LEMMA NumberOfBytes ==
  ASSUME NEW n \in Nat, Higher(n)[SizeSize] = 0,
         NEW s \in Seq(Byte), Len(s) = SizeSize,
         \A i \in 1..SizeSize : s[i] = Higher(n)[i - 1] % 256
  PROVE  Number(s) = n
  <1>1. SizeSize \in Nat
    BY SizeAssumption
  <1>2. /\ Ending(s)[0] = 0
        /\ \A k \in 1..SizeSize :
             Ending(s)[k] = s[SizeSize - k + 1] + 256 * Ending(s)[k - 1]
    <2>1. /\ Ending(s)[0] = 0
          /\ \A k \in 1..Len(s) :
               Ending(s)[k] = s[Len(s) - k + 1] + 256 * Ending(s)[k - 1]
      BY EndingDef
    <2> QED
      BY <2>1
  <1>3. /\ Higher(n)[0] = n
        /\ \A k \in 1..SizeSize : Higher(n)[k] = Higher(n)[k - 1] \div 256
        /\ \A k \in 0..SizeSize : Higher(n)[k] \in Nat
    <2>1. Higher(n) \in [0..SizeSize -> Nat]
      BY HigherDef
    <2>2. /\ Higher(n)[0] = n
          /\ \A k \in 1..SizeSize : Higher(n)[k] = Higher(n)[k - 1] \div 256
      BY HigherDef
    <2> QED
      BY <2>1, <2>2
  <1> DEFINE T == {k \in 0..SizeSize : Ending(s)[k] = Higher(n)[SizeSize - k]}
  <1>4. 0 \in T
    BY <1>1, <1>2
  <1>5. ASSUME NEW k \in 1..SizeSize, k - 1 \in T
        PROVE  k \in T
    <2> DEFINE r == SizeSize - k
    <2>1. /\ r \in 0..SizeSize /\ r + 1 \in 1..SizeSize
          /\ (r + 1) - 1 = r /\ SizeSize - (k - 1) = r + 1
      BY <1>1
    <2>2. Ending(s)[k - 1] = Higher(n)[r + 1]
      BY <1>5, <2>1
    <2> HIDE DEF T
    <2>3. Ending(s)[k] = s[r + 1] + 256 * Ending(s)[k - 1]
      BY <1>2
    <2> HIDE DEF r
    <2>4. s[r + 1] = Higher(n)[r] % 256
      BY <2>1
    <2>5. Higher(n)[r + 1] = Higher(n)[r] \div 256 /\ Higher(n)[r] \in Nat
      BY <2>1, <1>3
    <2>6. \A x \in Nat : (x % 256) + 256 * (x \div 256) = x
      BY SMT
    <2>7. Ending(s)[k] = Higher(n)[r]
      BY ONLY <2>2, <2>3, <2>4, <2>5, <2>6
    <2> QED
      BY <2>7 DEF T, r
  <1> HIDE DEF T
  <1>6. 0..SizeSize \subseteq T
    BY ONLY <1>1, <1>4, <1>5, Induction
  <1>7. SizeSize \in T
    BY <1>1, <1>6
  <1>8. Ending(s)[SizeSize] = Higher(n)[0]
    BY <1>1, <1>7 DEF T
  <1> QED
    BY <1>3, <1>8 DEF Number
-----------------------------------------------------------------------------
(***************************************************************************)
(* The plain bytes of a file                                               *)
(***************************************************************************)

LEMMA SizesNat ==
  /\ KeySize \in Nat /\ KeySize > 0
  /\ MagicSize \in Nat /\ MagicSize > 0
  /\ SizeSize \in Nat /\ SizeSize > 0
  /\ HeaderSize \in Nat /\ HeaderSize > 0
  /\ VersionSize \in Nat /\ VersionSize > 0
  BY SizeAssumption

LEMMA ImageFacts ==
  ASSUME NEW b \in BlockType
  PROVE  /\ Image(b) \in Seq(Byte)
         /\ Len(Image(b)) = Prelude + Len(b.body)
         /\ \A i \in 1..SizeSize :
              Image(b)[MagicSize + i] = Higher(b.size)[i - 1] % 256
         /\ \A i \in 1..Len(b.body) : Image(b)[Prelude + i] = b.body[i]
  <1> DEFINE A == [i \in 1..MagicSize |-> 249]
             B == [i \in 1..SizeSize |-> Higher(b.size)[i - 1] % 256]
             C == [i \in 1..HeaderSize |-> 0]
             D == b.body
  <1>1. D \in Seq(Byte) /\ b.size \in Nat
    BY DEF BlockType
  <1>2. A \in Seq(Byte) /\ Len(A) = MagicSize
    <2>1. \A i \in 1..MagicSize : 249 \in Byte
      BY ByteFacts
    <2>2. A \in Seq(Byte)
      BY <2>1, SizesNat, IsASeq
    <2> QED
      BY <2>2, SizesNat
  <1>3. B \in Seq(Byte) /\ Len(B) = SizeSize
    <2>1. ASSUME NEW i \in 1..SizeSize
          PROVE  Higher(b.size)[i - 1] % 256 \in Byte
      <3>1. i - 1 \in 0..SizeSize
        BY SizesNat
      <3>2. Higher(b.size) \in [0..SizeSize -> Nat]
        BY <1>1, HigherDef
      <3>3. Higher(b.size)[i - 1] \in Nat
        BY <3>1, <3>2
      <3>4. \A x \in Nat : x % 256 \in Nat /\ x % 256 <= 255
        BY SMT
      <3> QED
        BY <3>3, <3>4, ByteFacts
    <2>2. B \in Seq(Byte)
      BY <2>1, SizesNat, IsASeq
    <2> QED
      BY <2>2, SizesNat
  <1>4. C \in Seq(Byte) /\ Len(C) = HeaderSize
    <2>1. \A i \in 1..HeaderSize : 0 \in Byte
      BY ByteFacts
    <2>2. C \in Seq(Byte)
      BY <2>1, SizesNat, IsASeq
    <2> QED
      BY <2>2, SizesNat
  <1>5. \A i \in 1..SizeSize : B[i] = Higher(b.size)[i - 1] % 256
    OBVIOUS
  <1>6. Image(b) = ((A \o B) \o C) \o D
    BY DEF Image
  <1> HIDE DEF A, B, C, D
  <1>7. /\ A \o B \in Seq(Byte) /\ Len(A \o B) = MagicSize + SizeSize
        /\ \A i \in 1..SizeSize : (A \o B)[MagicSize + i] = B[i]
    <2>1. /\ A \o B \in Seq(Byte) /\ Len(A \o B) = Len(A) + Len(B)
          /\ \A i \in 1..Len(A) + Len(B) :
               (A \o B)[i] = IF i <= Len(A) THEN A[i] ELSE B[i - Len(A)]
      BY <1>2, <1>3, ConcatProperties
    <2>2. ASSUME NEW i \in 1..SizeSize
          PROVE  (A \o B)[MagicSize + i] = B[i]
      <3>1. /\ MagicSize + i \in 1..Len(A) + Len(B)
            /\ ~ (MagicSize + i <= Len(A)) /\ (MagicSize + i) - Len(A) = i
        BY <1>2, <1>3, SizesNat
      <3> QED
        BY <2>1, <3>1
    <2> QED
      BY <1>2, <1>3, <2>1, <2>2
  <1> DEFINE E == A \o B
  <1>8. E \in Seq(Byte) /\ Len(E) = MagicSize + SizeSize
    BY <1>7
  <1> HIDE DEF E
  <1>9. /\ E \o C \in Seq(Byte) /\ Len(E \o C) = Prelude
        /\ \A i \in 1..(MagicSize + SizeSize) : (E \o C)[i] = E[i]
    <2>1. /\ E \o C \in Seq(Byte) /\ Len(E \o C) = Len(E) + Len(C)
          /\ \A i \in 1..Len(E) + Len(C) :
               (E \o C)[i] = IF i <= Len(E) THEN E[i] ELSE C[i - Len(E)]
      BY <1>4, <1>8, ConcatProperties
    <2> QED
      BY <1>4, <1>8, <2>1, SizesNat DEF Prelude
  <1> DEFINE F == E \o C
  <1>10. F \in Seq(Byte) /\ Len(F) = Prelude
    BY <1>9
  <1> HIDE DEF F
  <1>11. /\ F \o D \in Seq(Byte) /\ Len(F \o D) = Prelude + Len(D)
         /\ \A i \in 1..(MagicSize + SizeSize) : (F \o D)[i] = F[i]
         /\ \A i \in 1..Len(D) : (F \o D)[Prelude + i] = D[i]
    <2>1. /\ F \o D \in Seq(Byte) /\ Len(F \o D) = Len(F) + Len(D)
          /\ \A i \in 1..Len(F) + Len(D) :
               (F \o D)[i] = IF i <= Len(F) THEN F[i] ELSE D[i - Len(F)]
      BY <1>1, <1>10, ConcatProperties
    <2>2. Len(D) \in Nat
      BY <1>1
    <2>3. Prelude \in Nat /\ Prelude >= MagicSize + SizeSize
      BY SizesNat DEF Prelude
    <2> HIDE DEF Prelude
    <2>4. ASSUME NEW i \in 1..Len(D)
          PROVE  (F \o D)[Prelude + i] = D[i]
      <3>1. /\ Prelude + i \in 1..Len(F) + Len(D) /\ ~ (Prelude + i <= Len(F))
            /\ (Prelude + i) - Len(F) = i
        BY <1>10, <2>2, <2>3
      <3> QED
        BY <2>1, <3>1
    <2>5. \A i \in 1..(MagicSize + SizeSize) : (F \o D)[i] = F[i]
      BY <1>10, <2>1, <2>2, <2>3, SizesNat
    <2> QED
      BY <1>10, <2>1, <2>2, <2>4, <2>5
  <1>12. Image(b) = F \o D
    BY <1>6 DEF E, F
  <1>13. ASSUME NEW i \in 1..SizeSize
         PROVE  Image(b)[MagicSize + i] = Higher(b.size)[i - 1] % 256
    <2>1. MagicSize + i \in 1..(MagicSize + SizeSize)
      BY SizesNat
    <2>2. Image(b)[MagicSize + i] = F[MagicSize + i]
      BY <2>1, <1>11, <1>12
    <2>3. F[MagicSize + i] = E[MagicSize + i]
      BY <2>1, <1>9 DEF F
    <2>4. E[MagicSize + i] = B[i]
      BY <1>7 DEF E
    <2> QED
      BY <2>2, <2>3, <2>4, <1>5
  <1> QED
    BY <1>11, <1>12, <1>13 DEF D

LEMMA PlainDef ==
  ASSUME NEW s \in Seq(BlockType)
  PROVE  /\ PlainUpTo(s) \in [0..Len(s) -> Seq(Byte)]
         /\ PlainUpTo(s)[0] = <<>>
         /\ \A n \in 1..Len(s) :
              PlainUpTo(s)[n] = PlainUpTo(s)[n - 1] \o Image(s[n])
  <1> DEFINE m == Len(s)
             V == Seq(Byte)
             G == [n \in 1..m |-> [v \in V |-> v \o Image(s[n])]]
  <1>1. m \in Nat /\ \A n \in 1..m : Image(s[n]) \in V
    <2>1. m \in Nat
      OBVIOUS
    <2>2. ASSUME NEW n \in 1..m
          PROVE  Image(s[n]) \in V
      <3>1. s[n] \in BlockType
        BY ElementOfSeq
      <3> QED
        BY <3>1, ImageFacts
    <2> QED
      BY <2>1, <2>2
  <1>2. \A v, w \in V : v \o w \in V
    BY ConcatProperties
  <1>3. <<>> \in V
    OBVIOUS
  <1> HIDE DEF m, V
  <1>4. G \in [1..m -> [V -> V]]
    BY <1>1, <1>2
  <1>5. \A n \in 1..m : \A v \in V : G[n][v] = v \o Image(s[n])
    OBVIOUS
  <1> HIDE DEF G
  <1>6. PICK f : Chain(f, V, <<>>, m, G)
    BY <1>1, <1>3, <1>4, ChainExists
  <1>7. \A n \in 1..m : f[n] = f[n - 1] \o Image(s[n])
    <2> SUFFICES ASSUME NEW n \in 1..m PROVE f[n] = f[n - 1] \o Image(s[n])
      OBVIOUS
    <2>1. n - 1 \in 0..m
      BY <1>1
    <2>2. f[n - 1] \in V /\ f[n] = G[n][f[n - 1]]
      BY <2>1, <1>6 DEF Chain
    <2>3. G[n][f[n - 1]] = f[n - 1] \o Image(s[n])
      BY ONLY <1>5, <2>2, n \in 1..m
    <2> QED
      BY <2>2, <2>3
  <1>8. f = [n \in 0..m |-> IF n = 0 THEN <<>> ELSE f[n - 1] \o Image(s[n])]
    <2>1. ASSUME NEW n \in 0..m
          PROVE  f[n] = IF n = 0 THEN <<>> ELSE f[n - 1] \o Image(s[n])
      <3>1. CASE n = 0
        BY <3>1, <1>6 DEF Chain
      <3>2. CASE n # 0
        <4>1. n \in 1..m
          BY <3>2, <1>1
        <4> QED
          BY <4>1, <3>2, <1>7
      <3> QED
        BY <3>1, <3>2
    <2> QED
      BY <1>6, <2>1 DEF Chain
  <1> DEFINE h == PlainUpTo(s)
  <1>9. h = [n \in 0..m |-> IF n = 0 THEN <<>> ELSE h[n - 1] \o Image(s[n])]
    BY <1>8 DEF PlainUpTo, m
  <1> HIDE DEF h
  <1>10. h[0] = <<>> /\ \A n \in 1..m : h[n] = h[n - 1] \o Image(s[n])
    <2>1. 0 \in 0..m /\ \A n \in 1..m : n \in 0..m /\ n # 0
      BY <1>1
    <2> QED
      BY <2>1, <1>9
  <1> DEFINE T == {n \in 0..m : h[n] \in V}
  <1>11. 0 \in T
    BY <1>1, <1>3, <1>10
  <1>12. ASSUME NEW n \in 1..m, n - 1 \in T
         PROVE  n \in T
    <2>1. h[n - 1] \in V /\ h[n] = h[n - 1] \o Image(s[n])
      BY <1>10, <1>12
    <2>2. h[n] \in V
      BY <2>1, <1>1, <1>2
    <2> QED
      BY <2>2
  <1> HIDE DEF T
  <1>13. 0..m \subseteq T
    BY ONLY <1>1, <1>11, <1>12, Induction
  <1>14. h \in [0..m -> V]
    BY <1>9, <1>13 DEF T
  <1> QED
    BY <1>10, <1>14 DEF h, m, V

(* The bytes of the first k blocks are where those of more blocks begin. *)
LEMMA PlainPrefix ==
  ASSUME NEW s \in Seq(BlockType), NEW k \in 0..Len(s), NEW n \in k..Len(s)
  PROVE  /\ Len(PlainUpTo(s)[k]) \in Nat /\ Len(PlainUpTo(s)[n]) \in Nat
         /\ Len(PlainUpTo(s)[k]) <= Len(PlainUpTo(s)[n])
         /\ \A i \in 1..Len(PlainUpTo(s)[k]) : PlainUpTo(s)[n][i] = PlainUpTo(s)[k][i]
  <1> DEFINE m == Len(s)
             h == PlainUpTo(s)
             Begun(j) == /\ Len(h[k]) <= Len(h[j])
                         /\ \A i \in 1..Len(h[k]) : h[j][i] = h[k][i]
             T == {j \in 0..m : j >= k => Begun(j)}
  <1>1. m \in Nat /\ k \in Nat
    OBVIOUS
  <1>2. /\ h \in [0..m -> Seq(Byte)]
        /\ \A j \in 1..m : h[j] = h[j - 1] \o Image(s[j])
    <2>1. h \in [0..m -> Seq(Byte)]
      BY PlainDef
    <2>2. \A j \in 1..m : h[j] = h[j - 1] \o Image(s[j])
      BY PlainDef
    <2> QED
      BY <2>1, <2>2
  <1>3. \A j \in 1..m : Image(s[j]) \in Seq(Byte)
    <2> SUFFICES ASSUME NEW j \in 1..m PROVE Image(s[j]) \in Seq(Byte)
      OBVIOUS
    <2>1. s[j] \in BlockType
      BY ElementOfSeq
    <2> QED
      BY <2>1, ImageFacts
  <1>4. \A j \in 0..m : Len(h[j]) \in Nat
    <2> HIDE DEF h
    <2> QED
      BY <1>2
  <1>5. n \in 0..m /\ n >= k
    BY <1>1
  <1> HIDE DEF h, m
  <1>6. Begun(k)
    BY <1>1, <1>4 DEF m
  <1>7. 0 \in T
    BY <1>1, <1>6
  <1>8. ASSUME NEW j \in 1..m, j - 1 \in T
        PROVE  j \in T
    <2>1. CASE j < k
      BY <2>1, <1>1
    <2>2. CASE j = k
      BY <2>2, <1>6
    <2>3. CASE j > k
      <3>1. j - 1 >= k /\ j - 1 \in 0..m
        BY <2>3, <1>1
      <3>2. Begun(j - 1)
        BY <3>1, <1>8
      <3>3. h[j - 1] \in Seq(Byte) /\ Image(s[j]) \in Seq(Byte)
        BY <3>1, <1>2, <1>3
      <3> DEFINE a == h[j - 1]
                 b == Image(s[j])
      <3>4. h[j] = a \o b
        BY <1>2
      <3>5. a \in Seq(Byte) /\ b \in Seq(Byte)
        BY <3>3
      <3>6. Len(h[k]) <= Len(a) /\ \A i \in 1..Len(h[k]) : a[i] = h[k][i]
        BY <3>2
      <3>7. Len(h[k]) \in Nat
        BY <1>4, k \in 0..m DEF m
      <3> HIDE DEF a, b, T
      <3>8. /\ Len(a \o b) = Len(a) + Len(b)
            /\ \A i \in 1..Len(a) + Len(b) :
                 (a \o b)[i] = IF i <= Len(a) THEN a[i] ELSE b[i - Len(a)]
        BY <3>5, ConcatProperties
      <3>9. Len(a) \in Nat /\ Len(b) \in Nat
        BY <3>5
      <3>10. Len(h[k]) <= Len(h[j])
        BY <3>4, <3>6, <3>7, <3>8, <3>9
      <3>11. ASSUME NEW i \in 1..Len(h[k])
             PROVE  h[j][i] = h[k][i]
        <4>1. i \in 1..Len(a) + Len(b) /\ i <= Len(a)
          BY <3>6, <3>7, <3>9
        <4>2. (a \o b)[i] = a[i]
          BY <4>1, <3>8
        <4> QED
          BY <4>2, <3>4, <3>6
      <3> QED
        BY <3>10, <3>11 DEF T
    <2> QED
      BY <2>1, <2>2, <2>3, <1>1
  <1> HIDE DEF T
  <1>9. 0..m \subseteq T
    BY ONLY <1>1, <1>7, <1>8, Induction
  <1>10. Begun(n)
    BY <1>5, <1>9 DEF T
  <1>11. Len(h[k]) \in Nat /\ Len(h[n]) \in Nat
    BY <1>4, <1>5, k \in 0..m DEF m
  <1> QED
    BY <1>10, <1>11 DEF h
-----------------------------------------------------------------------------
(***************************************************************************)
(* What is read                                                            *)
(***************************************************************************)

LEMMA NumberOfTwo ==
  ASSUME NEW s \in Seq(Byte), Len(s) = 2
  PROVE  /\ Number(s) = s[1] + 256 * s[2]
         /\ s[1] \in Nat /\ s[1] <= 255 /\ s[2] \in Nat /\ s[2] <= 255
  <1> DEFINE n == Number(s)
             x == s[1]
             y == s[2]
  <1>1. x \in Nat /\ x <= 255 /\ y \in Nat /\ y <= 255
    <2>1. 1 \in 1..Len(s) /\ 2 \in 1..Len(s)
      OBVIOUS
    <2>2. s[1] \in Byte /\ s[2] \in Byte
      BY <2>1, ElementOfSeq
    <2> QED
      BY <2>2, ByteFacts
  <1>2. Ending(s)[0] = 0
    BY EndingDef
  <1>3. \A k \in 1..Len(s) : Ending(s)[k] = s[Len(s) - k + 1] + 256 * Ending(s)[k - 1]
    BY EndingDef
  <1>4. 1 \in 1..Len(s) /\ 2 \in 1..Len(s) /\ Len(s) - 1 + 1 = 2 /\ Len(s) - 2 + 1 = 1
        /\ 1 - 1 = 0 /\ 2 - 1 = 1
    OBVIOUS
  <1>5. Ending(s)[1] = y + 256 * Ending(s)[0]
    BY ONLY <1>3, <1>4
  <1>6. Ending(s)[2] = x + 256 * Ending(s)[1]
    BY ONLY <1>3, <1>4
  <1>7. n = Ending(s)[2]
    BY DEF Number
  <1> HIDE DEF n, x, y
  <1>8. n = x + 256 * (y + 256 * 0)
    BY ONLY <1>2, <1>5, <1>6, <1>7
  <1>9. n = x + 256 * y
    BY ONLY <1>1, <1>8
  <1> QED
    BY <1>1, <1>9 DEF n, x, y

(* A short is one, whatever its two bytes. *)
LEMMA ShortOfTwo ==
  ASSUME NEW s \in Seq(Byte), Len(s) = 2
  PROVE  Short(s) \in Shorts
  <1> DEFINE n == Number(s)
             x == s[1]
             y == s[2]
  <1>1. n = x + 256 * y /\ x \in Nat /\ x <= 255 /\ y \in Nat /\ y <= 255
    BY NumberOfTwo
  <1> HIDE DEF n, x, y
  <1>2. n \in Nat /\ n <= 65535
    BY ONLY <1>1
  <1> DEFINE low == -(2^15)
             high == 2^15 - 1
             short == IF n < 2^15 THEN n ELSE n - 2^16
  <1>3. /\ short \in Int /\ low \in Int /\ high \in Int
        /\ low <= short /\ short <= high
    BY ONLY <1>2
  <1>4. Short(s) = short
    BY DEF Short, n
  <1> HIDE DEF low, high, short
  <1>5. short \in low..high
    BY ONLY <1>3
  <1> QED
    BY ONLY <1>4, <1>5, Zenon DEF Shorts, low, high

(* Adding within a phase of the key. *)
LEMMA ModSum ==
  ASSUME NEW M \in Nat, M > 0, NEW x \in Nat, NEW y \in Nat
  PROVE  ((x % M) + y) % M = (x + y) % M
  <1> DEFINE q == x \div M
             r == x % M
             u == (r + y) \div M
             v == (r + y) % M
  <1>1. q \in Nat /\ r \in Nat /\ x = M * q + r
    BY SMT
  <1>2. u \in Nat /\ v \in 0..(M - 1) /\ r + y = M * u + v
    <2> HIDE DEF r
    <2> QED
      BY <1>1, SMT
  <1> HIDE DEF q, r, u, v
  <1>3. x + y = M * (q + u) + v
    <2>1. M * (q + u) = M * q + M * u
      BY <1>1, <1>2, SMT
    <2> DEFINE a == M * q
               b == M * u
    <2>2. a \in Nat /\ b \in Nat
      BY <1>1, <1>2, SMT
    <2> HIDE DEF a, b
    <2>3. x = a + r /\ r + y = b + v
      BY <1>1, <1>2 DEF a, b
    <2>4. x + y = a + b + v
      BY <2>2, <2>3, <1>1, <1>2
    <2> QED
      BY <2>1, <2>4 DEF a, b
  <1>4. (x + y) % M = v
    <2> DEFINE w == q + u
    <2>1. w \in Nat
      BY <1>1, <1>2
    <2> HIDE DEF w
    <2>2. (M * w + v) % M = v
      BY <1>2, <2>1, SMT
    <2> QED
      BY <1>3, <2>2 DEF w
  <1> QED
    BY <1>4 DEF v, r

(* A read within the file gives the plain bytes, wherever it begins. *)
LEMMA BytesPlain ==
  ASSUME TypeOK, FileInv, NEW p \in Nat, NEW n \in Nat, Fits(p, n)
  PROVE  Bytes(p, n) = [i \in 1..n |-> Plain(blocks)[p + i]]
  <1>1. ASSUME NEW i \in 1..n
        PROVE  Dexor(file[p + i], KeyIndex(p, i - 1)) = Plain(blocks)[p + i]
    <2>1. Len(file) \in Nat
      BY DEF TypeOK
    <2>2. p + i \in 1..Len(file) /\ i - 1 \in Nat /\ (p + i) - 1 = p + (i - 1)
      BY <2>1 DEF Fits
    <2>3. file[p + i] = <<Plain(blocks)[p + i], (p + (i - 1)) % KeySize>>
      BY <2>2 DEF FileInv
    <2>4. KeyIndex(p, i - 1) = (p + (i - 1)) % KeySize
      BY <2>2, SizesNat, ModSum DEF KeyIndex
    <2> QED
      BY <2>3, <2>4 DEF Dexor
  <1> QED
    BY <1>1 DEF Bytes

LEMMA FileBlocks ==
  ASSUME TypeOK
  PROVE  /\ blocks \in Seq(BlockType) /\ Len(blocks) \in Nat /\ Len(file) \in Nat
         /\ DOMAIN blocks = 1..Len(blocks)
         /\ \A k \in 1..Len(blocks) :
              /\ blocks[k] \in BlockType
              /\ Higher(blocks[k].size)[SizeSize] = 0
              /\ blocks[k].size \in Nat /\ Len(blocks[k].body) \in Nat
  <1>1. blocks \in Files /\ Len(file) \in Nat
    BY DEF TypeOK
  <1>2. blocks \in Seq(BlockType) /\ Len(blocks) \in Nat /\ DOMAIN blocks = 1..Len(blocks)
    BY <1>1, FilesAssumption
  <1>3. ASSUME NEW k \in 1..Len(blocks)
        PROVE  /\ blocks[k] \in BlockType
               /\ Higher(blocks[k].size)[SizeSize] = 0
               /\ blocks[k].size \in Nat /\ Len(blocks[k].body) \in Nat
    <2>1. blocks[k] \in BlockType
      BY <1>2, ElementOfSeq
    <2>2. blocks[k].size \in Nat /\ Len(blocks[k].body) \in Nat
      BY <2>1 DEF BlockType
    <2> QED
      BY <1>1, <2>1, <2>2, FilesAssumption
  <1> QED
    BY <1>1, <1>2, <1>3

LEMMA PlainBytes ==
  ASSUME TypeOK
  PROVE  Plain(blocks) \in Seq(Byte)
  <1>1. blocks \in Seq(BlockType) /\ Len(blocks) \in 0..Len(blocks)
    BY FileBlocks
  <1> QED
    BY <1>1, PlainDef DEF Plain

(* Where blocks begin. *)
LEMMA BeginsFacts ==
  ASSUME TypeOK
  PROVE  /\ Begins(1) = 0
         /\ Begins(Len(blocks) + 1) = Len(Plain(blocks))
         /\ \A k \in 1..(Len(blocks) + 1) : Begins(k) \in Nat
         /\ \A k \in 1..Len(blocks) :
              Begins(k + 1) = Begins(k) + Prelude + Len(blocks[k].body)
         /\ \A k \in 1..(Len(blocks) + 1) : \A n \in k..(Len(blocks) + 1) :
              Begins(k) <= Begins(n)
  <1> DEFINE m == Len(blocks)
             h == PlainUpTo(blocks)
  <1>1. m \in Nat /\ blocks \in Seq(BlockType)
    BY FileBlocks
  <1>2. h \in [0..m -> Seq(Byte)]
    BY <1>1, PlainDef
  <1>3. h[0] = <<>> /\ \A k \in 1..m : h[k] = h[k - 1] \o Image(blocks[k])
    BY <1>1, PlainDef
  <1>4. \A k : Begins(k) = Len(h[k - 1])
    BY DEF Begins
  <1>5. \A k \in 1..m : blocks[k] \in BlockType
    BY FileBlocks
  <1>6. \A k \in 0..m : \A n \in k..m : Len(h[k]) <= Len(h[n])
    BY <1>1, PlainPrefix
  <1>7. Begins(m + 1) = Len(Plain(blocks))
    <2>1. (m + 1) - 1 = m
      BY <1>1
    <2> QED
      BY <2>1, <1>4 DEF Plain
  <1> HIDE DEF h, m
  <1>8. Begins(1) = 0
    BY <1>3, <1>4
  <1>9. ASSUME NEW k \in 1..(m + 1)
        PROVE  Begins(k) \in Nat
    <2>1. k - 1 \in 0..m
      BY <1>1
    <2>2. h[k - 1] \in Seq(Byte)
      BY <2>1, <1>2
    <2> QED
      BY <2>2, <1>4
  <1>10. ASSUME NEW k \in 1..m
         PROVE  Begins(k + 1) = Begins(k) + Prelude + Len(blocks[k].body)
    <2>1. k - 1 \in 0..m /\ (k + 1) - 1 = k
      BY <1>1
    <2>2. h[k - 1] \in Seq(Byte)
      BY <2>1, <1>2
    <2>3. /\ Image(blocks[k]) \in Seq(Byte)
          /\ Len(Image(blocks[k])) = Prelude + Len(blocks[k].body)
      BY <1>5, ImageFacts
    <2>4. Len(h[k - 1] \o Image(blocks[k])) = Len(h[k - 1]) + Len(Image(blocks[k]))
      BY <2>2, <2>3, ConcatProperties
    <2>5. Begins(k + 1) = Begins(k) + Len(Image(blocks[k]))
      BY <2>1, <2>4, <1>3, <1>4
    <2>6. Begins(k) \in Nat /\ Prelude \in Nat /\ Len(blocks[k].body) \in Nat
      <3>1. k \in 1..(m + 1)
        BY <1>1
      <3>2. Prelude \in Nat
        BY SizesNat DEF Prelude
      <3>3. Len(blocks[k].body) \in Nat
        BY FileBlocks DEF m
      <3> QED
        BY <3>1, <3>2, <3>3, <1>9
    <2> QED
      BY <2>3, <2>5, <2>6
  <1>11. ASSUME NEW k \in 1..(m + 1), NEW n \in k..(m + 1)
         PROVE  Begins(k) <= Begins(n)
    <2>1. k - 1 \in 0..m /\ n - 1 \in (k - 1)..m
      BY <1>1
    <2> QED
      BY <2>1, <1>4, <1>6
  <1> QED
    BY <1>7, <1>8, <1>9, <1>10, <1>11 DEF m

(* The bytes of block k are where it begins. *)
LEMMA PlainImage ==
  ASSUME TypeOK, NEW k \in 1..Len(blocks), NEW i \in 1..Len(Image(blocks[k]))
  PROVE  Plain(blocks)[Begins(k) + i] = Image(blocks[k])[i]
  <1> DEFINE h == PlainUpTo(blocks)
             m == Len(blocks)
             a == h[k - 1]
             c == Image(blocks[k])
  <1>1. m \in Nat /\ blocks \in Seq(BlockType)
    BY FileBlocks
  <1>2. c \in Seq(Byte)
    BY FileBlocks, ImageFacts
  <1>3. k - 1 \in 0..m /\ k \in 0..m /\ m \in k..m /\ Begins(k) = Len(a)
    BY <1>1 DEF Begins
  <1>4. h \in [0..m -> Seq(Byte)]
    BY <1>1, PlainDef
  <1>5. h[k] = a \o c
    BY <1>1, PlainDef
  <1>6. \A j \in 1..Len(h[k]) : h[m][j] = h[k][j]
    BY <1>1, <1>3, PlainPrefix
  <1>7. Plain(blocks) = h[m]
    BY DEF Plain
  <1>8. a \in Seq(Byte) /\ i \in 1..Len(c)
    BY <1>3, <1>4
  <1> HIDE DEF a, c, h, m
  <1>9. /\ Len(a \o c) = Len(a) + Len(c)
        /\ \A j \in 1..Len(a) + Len(c) :
             (a \o c)[j] = IF j <= Len(a) THEN a[j] ELSE c[j - Len(a)]
    BY <1>2, <1>8, ConcatProperties
  <1>10. Len(a) \in Nat /\ Len(c) \in Nat
    BY <1>2, <1>8
  <1>11. /\ Len(a) + i \in 1..Len(a) + Len(c) /\ ~ (Len(a) + i <= Len(a))
         /\ (Len(a) + i) - Len(a) = i
    BY <1>8, <1>10
  <1>12. Plain(blocks)[Len(a) + i] = c[i]
    BY <1>5, <1>6, <1>7, <1>9, <1>11
  <1> QED
    BY <1>3, <1>12 DEF c

(* The size of block k is where it should be. *)
LEMMA SizeField ==
  ASSUME TypeOK, FileInv, NEW k \in 1..Len(blocks),
         Fits(Begins(k), MagicSize + SizeSize)
  PROVE  Number(Bytes(Begins(k) + MagicSize, SizeSize)) = blocks[k].size
  <1> DEFINE b == blocks[k]
             p == Begins(k) + MagicSize
             f == Bytes(p, SizeSize)
  <1>1. Len(blocks) \in Nat /\ Len(file) \in Nat
    BY FileBlocks
  <1>2. /\ b \in BlockType /\ b.size \in Nat /\ Len(b.body) \in Nat
        /\ Higher(b.size)[SizeSize] = 0
    BY FileBlocks
  <1>3. Begins(k) \in Nat /\ p \in Nat
    <2>1. k \in 1..(Len(blocks) + 1)
      BY <1>1
    <2>2. Begins(k) \in Nat
      BY <2>1, BeginsFacts
    <2> QED
      BY <2>2, SizesNat
  <1>4. Fits(p, SizeSize)
    <2>1. p + SizeSize = Begins(k) + (MagicSize + SizeSize)
      BY <1>3, SizesNat
    <2> QED
      BY <2>1 DEF Fits
  <1>5. f = [i \in 1..SizeSize |-> Plain(blocks)[p + i]]
    BY <1>3, <1>4, SizesNat, BytesPlain
  <1>6. /\ Image(b) \in Seq(Byte) /\ Len(Image(b)) = Prelude + Len(b.body)
        /\ \A i \in 1..SizeSize : Image(b)[MagicSize + i] = Higher(b.size)[i - 1] % 256
    BY <1>2, ImageFacts
  <1>7. ASSUME NEW i \in 1..SizeSize
        PROVE  /\ Plain(blocks)[p + i] = Higher(b.size)[i - 1] % 256
               /\ Plain(blocks)[p + i] \in Byte
    <2>1. MagicSize + i \in 1..Len(Image(b)) /\ Begins(k) + (MagicSize + i) = p + i
      <3>1. Prelude \in Nat /\ Prelude >= MagicSize + SizeSize
        BY SizesNat DEF Prelude
      <3>2. p + i = Begins(k) + (MagicSize + i)
        BY <1>3, SizesNat
      <3> HIDE DEF Prelude, b, p
      <3>3. MagicSize + i \in 1..Len(Image(b))
        BY <1>2, <1>6, <3>1, SizesNat
      <3> QED
        BY <3>2, <3>3
    <2>2. Plain(blocks)[p + i] = Image(b)[MagicSize + i]
      BY <2>1, PlainImage
    <2>3. Image(b)[MagicSize + i] \in Byte
      BY <2>1, <1>6, ElementOfSeq
    <2> QED
      BY <2>2, <2>3, <1>6
  <1> HIDE DEF b, p
  <1>8. \A i \in 1..SizeSize : f[i] = Higher(b.size)[i - 1] % 256
    BY <1>5, <1>7
  <1>9. f \in Seq(Byte) /\ Len(f) = SizeSize
    <2>1. [i \in 1..SizeSize |-> Plain(blocks)[p + i]] \in Seq(Byte)
      BY <1>7, SizesNat, IsASeq
    <2> QED
      BY <2>1, <1>5, SizesNat
  <1> HIDE DEF f
  <1>10. Number(f) = b.size
    BY <1>2, <1>8, <1>9, NumberOfBytes
  <1> QED
    BY <1>10 DEF b, p, f

(* The file has t behind its first p bytes. *)
InFile(p, t) ==
  /\ p + Len(t) <= Len(file)
  /\ \A i \in 1..Len(t) : Plain(blocks)[p + i] = t[i]

(* What the body of a whole block has, the file has. *)
LEMMA BodyInFile ==
  ASSUME TypeOK, FileInv, NEW k \in 1..Len(blocks), Whole(k), NEW n \in Nat,
         NEW t, Len(t) \in Nat, HasAt(blocks[k], n, t)
  PROVE  InFile(Begins(k) + Prelude + n, t)
  <1> DEFINE b == blocks[k]
             w == Prelude
             p == Begins(k)
             l == Len(b.body)
  <1>1. w \in Nat
    BY SizesNat DEF Prelude
  <1>2. b \in BlockType /\ l \in Nat
    BY FileBlocks
  <1>3. p \in Nat /\ Begins(k + 1) = p + w + l /\ Begins(k + 1) <= Len(file)
    <2>1. k \in 1..(Len(blocks) + 1)
      BY FileBlocks
    <2> QED
      BY <2>1, BeginsFacts DEF Whole
  <1>4. n + Len(t) <= l /\ \A i \in 1..Len(t) : b.body[n + i] = t[i]
    BY DEF HasAt
  <1>5. Len(file) \in Nat
    BY FileBlocks
  <1>6. /\ Len(Image(b)) = w + l
        /\ \A i \in 1..l : Image(b)[w + i] = b.body[i]
    BY <1>2, ImageFacts
  <1> HIDE DEF w, l
  <1>7. p + w + n + Len(t) <= Len(file)
    <2> HIDE DEF p
    <2> QED
      BY <1>1, <1>2, <1>3, <1>4, <1>5
  <1>8. ASSUME NEW i \in 1..Len(t)
        PROVE  Plain(blocks)[(p + w + n) + i] = t[i]
    <2>1. n + i \in 1..l /\ w + (n + i) \in 1..(w + l)
      BY <1>1, <1>2, <1>4
    <2>2. p + (w + (n + i)) = (p + w + n) + i
      <3> HIDE DEF p
      <3> QED
        BY <1>1, <1>3
    <2>3. Plain(blocks)[p + (w + (n + i))] = Image(b)[w + (n + i)]
      BY <2>1, <1>6, PlainImage
    <2>4. Image(b)[w + (n + i)] = b.body[n + i]
      BY <2>1, <1>6
    <2> QED
      BY <2>2, <2>3, <2>4, <1>4
  <1> QED
    BY <1>7, <1>8 DEF InFile, w

LEMMA SmallShort ==
  ASSUME NEW v \in Nat, v <= 255
  PROVE  v \in Shorts
  <1> DEFINE low == -(2^15)
             high == 2^15 - 1
  <1>1. low \in Int /\ high \in Int /\ low <= v /\ v <= high
    OBVIOUS
  <1> HIDE DEF low, high
  <1>2. v \in low..high
    BY ONLY <1>1, v \in Nat
  <1> QED
    BY ONLY <1>2, Zenon DEF Shorts, low, high

LEMMA BytesType ==
  ASSUME TypeOK, FileInv, NEW p \in Nat, NEW n \in Nat, Fits(p, n)
  PROVE  Bytes(p, n) \in Seq(Byte) /\ Len(Bytes(p, n)) = n
  <1> DEFINE plain == Plain(blocks)
  <1>1. Bytes(p, n) = [i \in 1..n |-> plain[p + i]]
    BY BytesPlain
  <1>2. plain \in Seq(Byte) /\ Len(file) <= Len(plain)
    BY PlainBytes DEF FileInv
  <1>3. Len(file) \in Nat
    BY FileBlocks
  <1> HIDE DEF plain
  <1>4. ASSUME NEW i \in 1..n
        PROVE  plain[p + i] \in Byte
    <2>1. p + i \in 1..Len(plain)
      BY <1>2, <1>3 DEF Fits
    <2> QED
      BY <2>1, <1>2, ElementOfSeq
  <1>5. [i \in 1..n |-> plain[p + i]] \in Seq(Byte)
    BY <1>4, IsASeq
  <1> QED
    BY <1>1, <1>5

LEMMA AfterFacts ==
  ASSUME TypeOK, NEW p \in Nat, NEW n \in Nat
  PROVE  After(p, n) \in Nat /\ (Fits(p, n) => After(p, n) = p + n)
  <1>1. Len(file) \in Nat
    BY FileBlocks
  <1> QED
    BY <1>1 DEF After, Fits

LEMMA VarIntType ==
  ASSUME TypeOK, FileInv, NEW p \in Nat
  PROVE  VarInt(p) \in [ec : BOOLEAN, val : Shorts, at : Nat]
  <1> DEFINE b == Bytes(p, 1)[1]
             R == [ec : BOOLEAN, val : Shorts, at : Nat]
             result(ec, val, at) == [ec |-> ec, val |-> val, at |-> at]
  <1>1. 0 \in Shorts
    BY SmallShort
  <1>2. CASE ~Fits(p, 1) \/ b \in {254, 255}
    <2>1. After(p, 1) \in Nat
      BY AfterFacts
    <2>2. VarInt(p) = result(TRUE, 0, After(p, 1))
      BY <1>2 DEF VarInt
    <2> QED
      BY <2>1, <2>2, <1>1
  <1>3. CASE Fits(p, 1) /\ b \notin {254, 255} /\ b # 253
    <2>1. Bytes(p, 1) \in Seq(Byte) /\ Len(Bytes(p, 1)) = 1
      BY <1>3, BytesType
    <2>2. b \in Byte
      BY <2>1, ElementOfSeq
    <2>3. b \in Shorts /\ p + 1 \in Nat
      BY <2>2, ByteFacts, SmallShort
    <2>4. VarInt(p) = result(FALSE, b, p + 1)
      BY <1>3 DEF VarInt
    <2> HIDE DEF b
    <2> QED
      BY <2>3, <2>4
  <1>4. CASE Fits(p, 1) /\ b = 253 /\ ~Fits(p + 1, 2)
    <2>1. After(p + 1, 2) \in Nat
      BY AfterFacts
    <2>2. VarInt(p) = result(TRUE, 0, After(p + 1, 2))
      BY <1>4 DEF VarInt
    <2> QED
      BY <2>1, <2>2, <1>1
  <1>5. CASE Fits(p, 1) /\ b = 253 /\ Fits(p + 1, 2)
    <2>1. Bytes(p + 1, 2) \in Seq(Byte) /\ Len(Bytes(p + 1, 2)) = 2
      <3> DEFINE q == p + 1
      <3>1. q \in Nat /\ Fits(q, 2)
        BY <1>5
      <3> HIDE DEF q
      <3>2. Bytes(q, 2) \in Seq(Byte) /\ Len(Bytes(q, 2)) = 2
        BY <3>1, BytesType
      <3> QED
        BY <3>2 DEF q
    <2> DEFINE v == Short(Bytes(p + 1, 2))
    <2>2. v \in Shorts /\ p + 3 \in Nat
      BY <2>1, ShortOfTwo
    <2>3. VarInt(p) = result(FALSE, v, p + 3)
      BY <1>5 DEF VarInt
    <2> HIDE DEF v
    <2> QED
      BY <2>2, <2>3
  <1> QED
    BY <1>2, <1>3, <1>4, <1>5

(* A count is one that a short holds, or one that is misread as negative,  *)
(* or one that ends in an error.                                           *)
LEMMA VarIntReads ==
  ASSUME TypeOK, FileInv, NEW p \in Nat, NEW n \in Nat, InFile(p, CountBytes(n))
  PROVE  /\ Len(CountBytes(n)) \in Nat
         /\ n < 2^15 => VarInt(p).val = n
         /\ n < 2^16 => /\ ~VarInt(p).ec /\ (n # 0 => VarInt(p).val # 0)
                        /\ VarInt(p).at = p + Len(CountBytes(n))
         /\ n >= 2^16 => VarInt(p).val = 0
  <1> DEFINE t == CountBytes(n)
             plain == Plain(blocks)
             b == Bytes(p, 1)[1]
             result(ec, val, at) == [ec |-> ec, val |-> val, at |-> at]
  <1>1. p + Len(t) <= Len(file) /\ \A i \in 1..Len(t) : plain[p + i] = t[i]
    BY DEF InFile
  <1>2. Len(file) \in Nat
    BY FileBlocks
  <1>3. ASSUME Len(t) \in Nat, Len(t) >= 1
        PROVE  Fits(p, 1) /\ b = t[1]
    <2> HIDE DEF t, plain
    <2>1. Fits(p, 1)
      BY <1>1, <1>2, <1>3 DEF Fits
    <2>2. Bytes(p, 1) = [i \in 1..1 |-> plain[p + i]]
      BY <2>1, BytesPlain DEF plain
    <2>3. 1 \in 1..Len(t) /\ 1 \in 1..1
      BY <1>3
    <2> QED
      BY <2>1, <2>2, <2>3, <1>1
  <1>4. CASE n < 253
    <2>1. t = <<n>>
      BY <1>4 DEF CountBytes
    <2>2. Len(t) = 1 /\ t[1] = n
      BY <2>1
    <2>3. Fits(p, 1) /\ b = n
      BY <2>2, <1>3
    <2> HIDE DEF b, t
    <2>4. b # 253 /\ b \notin {254, 255}
      BY <2>3, <1>4
    <2>5. VarInt(p) = result(FALSE, b, p + 1)
      BY <2>3, <2>4 DEF VarInt, b
    <2>6. ~(n >= 2^16)
      BY <1>4
    <2> QED
      BY <2>2, <2>3, <2>5, <2>6 DEF t
  <1>5. CASE n >= 253 /\ n < 2^16
    <2> DEFINE x == n % 256
               y == n \div 256
               s == Bytes(p + 1, 2)
    <2>1. t = <<253, x, y>>
      <3>1. ~(n < 253)
        BY <1>5
      <3> QED
        BY <1>5, <3>1 DEF CountBytes
    <2>2. x \in Nat /\ y \in Nat /\ n = x + 256 * y
      BY SMT
    <2> HIDE DEF x, y
    <2>3. Len(t) = 3 /\ t[1] = 253 /\ t[2] = x /\ t[3] = y
      BY <2>1
    <2>4. Fits(p, 1) /\ b = 253
      BY <2>3, <1>3
    <2> HIDE DEF b, t
    <2> DEFINE q == p + 1
    <2>5. q \in Nat /\ Fits(q, 2)
      BY <1>1, <1>2, <2>3 DEF Fits
    <2> HIDE DEF plain
    <2>6. s = [i \in 1..2 |-> plain[q + i]] /\ s \in Seq(Byte) /\ Len(s) = 2
      <3> HIDE DEF q
      <3>1. Bytes(q, 2) = [i \in 1..2 |-> plain[q + i]]
        BY <2>5, BytesPlain DEF plain
      <3>2. Bytes(q, 2) \in Seq(Byte) /\ Len(Bytes(q, 2)) = 2
        BY <2>5, BytesType
      <3> QED
        BY <3>1, <3>2 DEF q
    <2>7. s[1] = x /\ s[2] = y
      <3>1. q + 1 = p + 2 /\ q + 2 = p + 3
        OBVIOUS
      <3>2. plain[p + 2] = x /\ plain[p + 3] = y
        <4>1. 2 \in 1..Len(t) /\ 3 \in 1..Len(t)
          BY <2>3
        <4> QED
          BY <4>1, <1>1, <2>3
      <3> HIDE DEF q, s
      <3>3. s[1] = plain[q + 1] /\ s[2] = plain[q + 2]
        BY <2>6
      <3> QED
        BY <3>1, <3>2, <3>3
    <2>8. Number(s) = n
      <3> HIDE DEF s
      <3> QED
        BY <2>2, <2>6, <2>7, NumberOfTwo
    <2>9. VarInt(p) = result(FALSE, Short(s), p + 3)
      BY <2>4, <2>5 DEF VarInt, b
    <2>10. Short(s) = IF n < 2^15 THEN n ELSE n - 2^16
      BY <2>8 DEF Short
    <2> HIDE DEF s
    <2> DEFINE v == Short(s)
    <2>11. (n < 2^15 => v = n) /\ (n # 0 => v # 0)
      BY <1>5, <2>10
    <2>12. VarInt(p).val = v /\ VarInt(p).ec = FALSE /\ VarInt(p).at = p + 3
      BY <2>9
    <2>13. ~(n >= 2^16)
      BY <1>5
    <2> HIDE DEF v
    <2> QED
      BY <2>3, <2>11, <2>12, <2>13 DEF t
  <1>6. CASE n >= 2^16
    <2>1. ~(n < 253) /\ ~(n < 2^16) /\ ~(n < 2^15)
      BY <1>6
    <2>2. t = <<254, n % 256, (n \div 256) % 256, (n \div 2^16) % 256, n \div 2^24>>
      BY <2>1 DEF CountBytes
    <2>3. Len(t) = 5 /\ t[1] = 254
      BY <2>2
    <2>4. Fits(p, 1) /\ b = 254
      BY <2>3, <1>3
    <2> HIDE DEF b, t
    <2>5. VarInt(p) = result(TRUE, 0, After(p, 1))
      BY <2>4 DEF VarInt, b
    <2> QED
      BY <2>1, <2>3, <2>5 DEF t
  <1> QED
    BY <1>4, <1>5, <1>6

LEMMA TxHeaderType ==
  ASSUME TypeOK, FileInv, NEW p \in Nat
  PROVE  TxHeader(p) \in [ec : BOOLEAN, in_count : Shorts, at : Nat]
  <1> DEFINE n == VarInt(p + VersionSize)
             again == VarInt(n.at + 1)
             result(ec, in_count, at) == [ec |-> ec, in_count |-> in_count, at |-> at]
  <1>1. 0 \in Shorts
    BY SmallShort
  <1>2. After(p, VersionSize) \in Nat /\ p + VersionSize \in Nat
    BY AfterFacts, SizesNat
  <1>3. n \in [ec : BOOLEAN, val : Shorts, at : Nat]
    BY <1>2, VarIntType
  <1>4. n.ec \in BOOLEAN /\ n.val \in Shorts /\ n.at \in Nat
    BY <1>3
  <1>5. again \in [ec : BOOLEAN, val : Shorts, at : Nat]
    BY <1>4, VarIntType
  <1>6. again.ec \in BOOLEAN /\ again.at \in Nat /\ After(n.at, 1) \in Nat
    BY <1>4, <1>5, AfterFacts
  <1>7. TxHeader(p) =
          IF ~Fits(p, VersionSize) THEN result(TRUE, 0, After(p, VersionSize))
          ELSE IF n.ec THEN result(TRUE, 0, n.at)
          ELSE IF n.val # 0 THEN result(FALSE, n.val, n.at)
          ELSE IF ~Fits(n.at, 1) \/ Bytes(n.at, 1) # <<1>>
            THEN result(TRUE, 0, After(n.at, 1))
          ELSE result(again.ec, 0, again.at)
    BY DEF TxHeader
  <1> HIDE DEF n, again
  <1> QED
    BY <1>1, <1>2, <1>4, <1>6, <1>7

(* What is printed of the first transaction of a whole block. *)
LEMMA TxHeaderReads ==
  ASSUME TypeOK, FileInv, NEW k \in 1..Len(blocks), Whole(k), NEW p \in Nat,
         blocks[k].txns > 0, Len(CountBytes(blocks[k].txns)) \in Nat,
         p = Begins(k) + Prelude + Len(CountBytes(blocks[k].txns)),
         ~TxHeader(p).ec, ~blocks[k].segwit, blocks[k].ins < 2^15
  PROVE  TxHeader(p).in_count = blocks[k].ins
  <1> DEFINE b == blocks[k]
             l == Len(CountBytes(b.txns))
             q == p + VersionSize
             n == VarInt(q)
             again == VarInt(n.at + 1)
             result(ec, in_count, at) == [ec |-> ec, in_count |-> in_count, at |-> at]
  <1>1. b \in BlockType /\ Says(b) /\ b.ins \in Nat
    BY FileBlocks DEF BlockType, Whole
  <1>2. Begins(k) \in Nat /\ Prelude \in Nat /\ l \in Nat /\ VersionSize \in Nat
    <2>1. k \in 1..(Len(blocks) + 1)
      BY FileBlocks
    <2> QED
      BY <2>1, BeginsFacts, SizesNat DEF Prelude
  <1>3. q \in Nat /\ l + VersionSize \in Nat
        /\ q = Begins(k) + Prelude + (l + VersionSize)
    <2> DEFINE d == Begins(k)
    <2>1. p = d + Prelude + l /\ d \in Nat
      BY <1>2
    <2> HIDE DEF l, Prelude, d
    <2>2. p + VersionSize = d + Prelude + (l + VersionSize)
      BY <1>2, <2>1
    <2> QED
      BY <1>2, <2>2 DEF d
  <1>4. TxHeader(p) =
          IF ~Fits(p, VersionSize) THEN result(TRUE, 0, After(p, VersionSize))
          ELSE IF n.ec THEN result(TRUE, 0, n.at)
          ELSE IF n.val # 0 THEN result(FALSE, n.val, n.at)
          ELSE IF ~Fits(n.at, 1) \/ Bytes(n.at, 1) # <<1>>
            THEN result(TRUE, 0, After(n.at, 1))
          ELSE result(again.ec, 0, again.at)
    BY DEF TxHeader
  <1>5. b.ins # 0 /\ HasAt(b, l + VersionSize, CountBytes(b.ins))
    <2>1. b.txns > 0 /\ ~b.segwit
      OBVIOUS
    <2> HIDE DEF b
    <2>2. b.ins > 0 /\ HasAt(b, l + VersionSize, CountBytes(b.ins))
      BY <1>1, <2>1 DEF Says
    <2> QED
      BY <1>1, <2>2
  <1> DEFINE c == b.ins
  <1>6. c \in Nat /\ c < 2^15 /\ c # 0 /\ Len(CountBytes(c)) \in Nat
    <2>1. c \in Nat /\ c < 2^15 /\ c # 0
      BY <1>1, <1>5
    <2> HIDE DEF c
    <2>2. Len(CountBytes(c)) \in Nat
      BY DEF CountBytes
    <2> QED
      BY <2>1, <2>2
  <1> HIDE DEF l, q, c
  <1>7. InFile(q, CountBytes(c))
    BY <1>3, <1>5, <1>6, BodyInFile DEF c
  <1>8. n.val = c
    BY <1>3, <1>6, <1>7, VarIntReads
  <1> HIDE DEF n, again
  <1>9. TxHeader(p).in_count = n.val
    BY <1>4, <1>6, <1>8
  <1> QED
    BY <1>8, <1>9 DEF c

-----------------------------------------------------------------------------
(***************************************************************************)
(* The steps                                                               *)
(***************************************************************************)

(* No step changes the file. *)
LEMMA SameFile ==
  ASSUME UNCHANGED input
  PROVE  /\ \A i : Begins(i)' = Begins(i)
         /\ \A i : Led(i)' <=> Led(i)
         /\ \A i : Reached(i)' <=> Reached(i)
         /\ \A i : Whole(i)' <=> Whole(i)
         /\ FileInv => FileInv'
  <1>1. blocks' = blocks /\ file' = file
    BY DEF input
  <1>2. \A i : Begins(i)' = Begins(i)
    BY <1>1 DEF Begins
  <1>3. \A i : Led(i)' <=> Led(i)
    BY <1>1 DEF Led
  <1>4. \A i : Reached(i)' <=> Reached(i)
    BY <1>1, <1>2, <1>3 DEF Reached
  <1>5. FileInv => FileInv'
    BY <1>1 DEF FileInv
  <1>6. \A i : Whole(i)' <=> Whole(i)
    BY <1>1, <1>2, <1>3 DEF Whole
  <1> QED
    BY <1>2, <1>3, <1>4, <1>5, <1>6

LEMMA InitBase == Init => BaseInv
  <1> SUFFICES ASSUME Init PROVE BaseInv
    OBVIOUS
  <1> DEFINE plain == Plain(blocks)
  <1>1. blocks \in Files /\ blocks \in Seq(BlockType) /\ Len(blocks) \in Nat
    BY FilesAssumption DEF Init
  <1>2. plain \in Seq(Byte)
    <2>1. Len(blocks) \in 0..Len(blocks)
      BY <1>1
    <2> QED
      BY <1>1, <2>1, PlainDef DEF Plain
  <1>3. PICK n \in 0..Len(plain) : file = SubSeq(Xored(plain), 1, n)
    BY DEF Init
  <1> HIDE DEF plain
  <1>4. Xored(plain) \in Seq(Byte \X Nat) /\ Len(Xored(plain)) = Len(plain)
    <2>1. Len(plain) \in Nat
      BY <1>2
    <2>2. ASSUME NEW i \in 1..Len(plain)
          PROVE  <<plain[i], (i - 1) % KeySize>> \in Byte \X Nat
      <3>1. plain[i] \in Byte
        BY <1>2, ElementOfSeq
      <3>2. i - 1 \in Nat /\ \A x \in Nat : x % KeySize \in Nat
        BY <2>1, SizesNat, SMT
      <3> QED
        BY <3>1, <3>2
    <2> DEFINE x == Xored(plain)
               l == Len(plain)
               V == Byte \X Nat
    <2>3. x = [i \in 1..l |-> x[i]] /\ \A i \in 1..l : x[i] \in V
      BY <2>2 DEF Xored
    <2> HIDE DEF x, l, V
    <2>4. [i \in 1..l |-> x[i]] \in Seq(V) /\ l \in Nat
      BY <2>1, <2>3, IsASeq DEF l
    <2>5. x \in Seq(V) /\ Len(x) = l
      BY <2>3, <2>4
    <2> QED
      BY <2>5 DEF x, l, V
  <1>5. \A i \in 1..Len(plain) : Xored(plain)[i] = <<plain[i], (i - 1) % KeySize>>
    BY DEF Xored
  <1>6. Len(plain) \in Nat /\ n \in Nat /\ n <= Len(plain)
    BY <1>2
  <1>7. /\ file \in Seq(Byte \X Nat) /\ Len(file) = n
        /\ \A i \in 1..n : file[i] = Xored(plain)[i]
    <2> DEFINE x == Xored(plain)
    <2>1. \A i \in 1..n : x[i] \in Byte \X Nat
      <3> SUFFICES ASSUME NEW i \in 1..n PROVE x[i] \in Byte \X Nat
        OBVIOUS
      <3>1. i \in 1..Len(x)
        BY <1>4, <1>6
      <3> QED
        BY <3>1, <1>4, ElementOfSeq
    <2> HIDE DEF x
    <2>2. /\ SubSeq(x, 1, n) \in Seq(Byte \X Nat)
          /\ Len(SubSeq(x, 1, n)) = IF 1 <= n THEN n - 1 + 1 ELSE 0
          /\ \A i \in 1..(n - 1 + 1) : SubSeq(x, 1, n)[i] = x[1 + i - 1]
      BY <2>1, <1>6, SubSeqProperties
    <2>3. file = SubSeq(x, 1, n)
      BY <1>3 DEF x
    <2>4. n - 1 + 1 = n /\ \A i \in 1..n : 1 + i - 1 = i
      BY <1>6
    <2>5. Len(file) = n
      BY <2>2, <2>3, <2>4, <1>6
    <2> QED
      BY <2>2, <2>3, <2>4, <2>5 DEF x
  <1>8. FileInv
    <2>1. \A i \in 1..n : i \in 1..Len(plain)
      BY <1>6
    <2> QED
      BY <1>5, <1>6, <1>7, <2>1 DEF FileInv, plain
  <1>9. TypeOK
    <2>1. 0 \in Shorts
      BY SmallShort
    <2> QED
      BY <1>1, <1>7, <2>1 DEF Init, TypeOK
  <1>10. Passed /\ OutputDecoded
    BY DEF Init, Passed, OutputDecoded
  <1> QED
    BY <1>8, <1>9, <1>10 DEF BaseInv

LEMMA InitPrinting == Init => Printing
  <1> SUFFICES ASSUME Init PROVE Printing
    OBVIOUS
  <1>1. PlaceInv /\ CountInv
    BY DEF Init, PlaceInv, CountInv
  <1>2. BlocksPrinted /\ CountsRight
    BY DEF Init, BlocksPrinted, CountsRight
  <1> QED
    BY <1>1, <1>2 DEF Printing

(* The whole file is within the file. *)
LEMMA ReadAllPlain ==
  ASSUME TypeOK, FileInv
  PROVE  ReadAll \in Seq(Byte) /\ ReadAll = SubSeq(Plain(blocks), 1, Len(file))
  <1> DEFINE plain == Plain(blocks)
             n == Len(file)
  <1>1. n \in Nat /\ plain \in Seq(Byte) /\ n <= Len(plain)
    BY FileBlocks, PlainBytes DEF FileInv
  <1>2. Fits(0, n)
    BY <1>1 DEF Fits
  <1>3. Bytes(0, n) = [i \in 1..n |-> plain[0 + i]]
    BY <1>1, <1>2, BytesPlain
  <1>4. ReadAll \in Seq(Byte) /\ Len(ReadAll) = n
    BY <1>1, <1>2, BytesType DEF ReadAll
  <1> HIDE DEF plain, n
  <1>5. \A i \in 1..n : plain[i] \in Byte
    <2> SUFFICES ASSUME NEW i \in 1..n PROVE plain[i] \in Byte
      OBVIOUS
    <2>1. i \in 1..Len(plain)
      BY <1>1
    <2> QED
      BY <2>1, <1>1, ElementOfSeq
  <1>6. /\ SubSeq(plain, 1, n) \in Seq(Byte)
        /\ Len(SubSeq(plain, 1, n)) = IF 1 <= n THEN n - 1 + 1 ELSE 0
        /\ \A i \in 1..(n - 1 + 1) : SubSeq(plain, 1, n)[i] = plain[1 + i - 1]
    BY <1>1, <1>5, SubSeqProperties
  <1>7. Len(SubSeq(plain, 1, n)) = n
    BY <1>1, <1>6
  <1>8. \A i \in 1..n : ReadAll[i] = SubSeq(plain, 1, n)[i]
    <2> SUFFICES ASSUME NEW i \in 1..n PROVE ReadAll[i] = SubSeq(plain, 1, n)[i]
      OBVIOUS
    <2>1. n - 1 + 1 = n /\ 1 + i - 1 = i /\ 0 + i = i
      BY <1>1
    <2>2. ReadAll[i] = plain[i]
      BY <2>1, <1>3 DEF ReadAll, n
    <2> QED
      BY <2>1, <2>2, <1>6
  <1>9. ReadAll = SubSeq(plain, 1, n)
    BY <1>4, <1>6, <1>7, <1>8, SeqEqual
  <1> QED
    BY <1>4, <1>9 DEF plain, n

(* Wherever the reading is, and whatever it finds there, variables keep    *)
(* their types, and the position is where the reads have moved it.         *)
LEMMA BaseOpen == BaseInv /\ Open => BaseInv'
  <1> SUFFICES ASSUME BaseInv, Open PROVE BaseInv'
    OBVIOUS
  <1>1. TypeOK'
    BY DEF BaseInv, TypeOK, Open, locals, input
  <1>2. FileInv'
    BY SameFile DEF BaseInv, Open
  <1>3. Passed' /\ OutputDecoded'
    BY DEF Passed, OutputDecoded, Open
  <1> QED
    BY <1>1, <1>2, <1>3 DEF BaseInv

LEMMA BaseReadMagic == BaseInv /\ ReadMagic => BaseInv'
  <1> SUFFICES ASSUME BaseInv, ReadMagic PROVE BaseInv'
    OBVIOUS
  <1> DEFINE w == MagicSize + SizeSize
  <1>1. /\ UNCHANGED <<input, txns, printed, buf>> /\ begin' = pos /\ header' = -1
        /\ pos' = After(pos, w) /\ blocks' = blocks /\ file' = file
        /\ pc' \in {"header", "write"} /\ (pc' = "header" => Fits(pos, w))
        /\ size' = 0 \/ (Fits(pos, w) /\ size' = Number(Bytes(pos + MagicSize, SizeSize)))
    BY DEF ReadMagic, input
  <1>2. pos \in Nat /\ w \in Nat /\ MagicSize \in Nat /\ SizeSize \in Nat /\ pos + MagicSize \in Nat
    BY SizesNat DEF BaseInv, TypeOK
  <1>3. pos' \in Nat /\ (Fits(pos, w) => pos' = pos + w)
    BY <1>1, <1>2, AfterFacts DEF BaseInv
  <1>4. ASSUME Fits(pos, w)
        PROVE  Number(Bytes(pos + MagicSize, SizeSize)) \in Nat
    <2>1. (pos + MagicSize) + SizeSize = pos + w
      BY <1>2
    <2>2. Fits(pos + MagicSize, SizeSize)
      BY <1>4, <2>1 DEF Fits
    <2> QED
      BY <1>2, <2>2, BytesType, NumberNat DEF BaseInv
  <1>5. size' \in Nat
    BY <1>1, <1>4
  <1>6. TypeOK'
    BY <1>1, <1>2, <1>3, <1>5 DEF BaseInv, TypeOK
  <1>7. Passed'
    <2>1. pc' = "header" => pos' = begin' + MagicSize + SizeSize
      BY <1>1, <1>2, <1>3
    <2> QED
      BY <1>1, <2>1 DEF Passed
  <1>8. FileInv'
    BY <1>1, SameFile DEF BaseInv
  <1>9. OutputDecoded'
    BY <1>1 DEF OutputDecoded
  <1> QED
    BY <1>6, <1>7, <1>8, <1>9 DEF BaseInv

LEMMA BaseReadHeader == BaseInv /\ ReadHeader => BaseInv'
  <1> SUFFICES ASSUME BaseInv, ReadHeader PROVE BaseInv'
    OBVIOUS
  <1>1. /\ UNCHANGED <<input, begin, size, txns, printed, buf>> /\ pc = "header"
        /\ pos' = After(pos, HeaderSize) /\ blocks' = blocks /\ file' = file
        /\ \/ Fits(pos, HeaderSize) /\ header' = pos' /\ pc' = "count"
           \/ header' = header /\ pc' = "write"
    BY DEF ReadHeader, input
  <1>2. /\ pos \in Nat /\ begin \in Nat /\ pos = begin + MagicSize + SizeSize
        /\ HeaderSize \in Nat /\ MagicSize \in Nat /\ SizeSize \in Nat /\ Len(file) \in Nat
    BY <1>1, SizesNat, FileBlocks DEF BaseInv, TypeOK, Passed
  <1>3. pos' \in Nat /\ (Fits(pos, HeaderSize) => pos' = pos + HeaderSize)
    BY <1>1, <1>2, AfterFacts DEF BaseInv
  <1>4. TypeOK'
    BY <1>1, <1>2, <1>3 DEF BaseInv, TypeOK
  <1>5. pc' = "count" => pos' = header' /\ header' = begin' + Prelude /\ header' <= Len(file')
    BY <1>1, <1>2, <1>3 DEF Fits, Prelude
  <1>6. Passed'
    BY <1>1, <1>5 DEF Passed
  <1>7. FileInv' /\ OutputDecoded'
    BY <1>1, SameFile DEF BaseInv, OutputDecoded
  <1> QED
    BY <1>4, <1>6, <1>7 DEF BaseInv

LEMMA BaseReadCount == BaseInv /\ ReadCount => BaseInv'
  <1> SUFFICES ASSUME BaseInv, ReadCount PROVE BaseInv'
    OBVIOUS
  <1> DEFINE e == Entry(0, FALSE, 0)
             E == [begin : Nat, txns : Shorts, coinbase : BOOLEAN, ins : Shorts]
  <1>1. /\ UNCHANGED <<input, begin, header, size, buf>> /\ pc = "count"
        /\ txns' = VarInt(pos).val /\ pos' = VarInt(pos).at /\ blocks' = blocks /\ file' = file
        /\ pc' \in {"seek", "tx"}
        /\ printed' = printed \/ printed' = Append(printed, e)
    BY DEF ReadCount, input
  <1>2. VarInt(pos) \in [ec : BOOLEAN, val : Shorts, at : Nat]
    BY VarIntType DEF BaseInv, TypeOK
  <1>3. txns' \in Shorts /\ pos' \in Nat
    BY <1>1, <1>2
  <1>4. printed \in Seq(E) /\ e \in E
    BY SmallShort DEF BaseInv, TypeOK, Entry
  <1> HIDE DEF e, E
  <1>5. printed' \in Seq(E)
    BY <1>1, <1>4
  <1>6. TypeOK'
    BY <1>1, <1>3, <1>5 DEF BaseInv, TypeOK, E
  <1>7. Passed'
    BY <1>1 DEF BaseInv, Passed
  <1>8. FileInv' /\ OutputDecoded'
    BY <1>1, SameFile DEF BaseInv, OutputDecoded
  <1> QED
    BY <1>6, <1>7, <1>8 DEF BaseInv

LEMMA BaseReadTx == BaseInv /\ ReadTx => BaseInv'
  <1> SUFFICES ASSUME BaseInv, ReadTx PROVE BaseInv'
    OBVIOUS
  <1> DEFINE h == TxHeader(pos)
             e == Entry(txns, ~h.ec, h.in_count)
             E == [begin : Nat, txns : Shorts, coinbase : BOOLEAN, ins : Shorts]
  <1>1. /\ UNCHANGED <<input, begin, header, size, txns, buf>> /\ pc = "tx" /\ pc' = "seek"
        /\ pos' = h.at /\ blocks' = blocks /\ file' = file /\ printed' = Append(printed, e)
    BY DEF ReadTx, input, locals
  <1>2. h \in [ec : BOOLEAN, in_count : Shorts, at : Nat]
    BY TxHeaderType DEF BaseInv, TypeOK
  <1>3. begin \in Nat /\ txns \in Shorts /\ printed \in Seq(E)
    BY DEF BaseInv, TypeOK
  <1> HIDE DEF h
  <1>4. e \in E /\ h.at \in Nat
    BY <1>2, <1>3 DEF Entry
  <1> HIDE DEF e, E
  <1>5. printed' \in Seq(E)
    BY <1>1, <1>3, <1>4
  <1>6. TypeOK'
    BY <1>1, <1>4, <1>5 DEF BaseInv, TypeOK, E
  <1>7. Passed'
    BY <1>1 DEF BaseInv, Passed
  <1>8. FileInv' /\ OutputDecoded'
    BY <1>1, SameFile DEF BaseInv, OutputDecoded
  <1> QED
    BY <1>6, <1>7, <1>8 DEF BaseInv

LEMMA BaseSeek == BaseInv /\ Seek => BaseInv'
  <1> SUFFICES ASSUME BaseInv, Seek PROVE BaseInv'
    OBVIOUS
  <1>1. /\ UNCHANGED <<input, begin, header, size, txns, printed, buf>> /\ pc = "seek"
        /\ blocks' = blocks /\ file' = file
        /\ \/ pc' = "write" /\ pos' = pos
           \/ ~(size < HeaderSize) /\ pc' = "magic" /\ pos' = header + size - HeaderSize
    BY DEF Seek, input, locals, NextBlock
  <1>2. /\ begin \in Nat /\ header = begin + Prelude /\ size \in Nat /\ pos \in Nat
        /\ Prelude \in Nat /\ HeaderSize \in Nat
    BY <1>1, SizesNat DEF BaseInv, TypeOK, Passed, Prelude
  <1>3. pos' \in Nat
    <2> HIDE DEF Prelude
    <2> QED
      BY ONLY <1>1, <1>2
  <1>4. TypeOK'
    BY <1>1, <1>3 DEF BaseInv, TypeOK
  <1>5. Passed'
    BY <1>1 DEF Passed
  <1>6. FileInv' /\ OutputDecoded'
    BY <1>1, SameFile DEF BaseInv, OutputDecoded
  <1> QED
    BY <1>4, <1>5, <1>6 DEF BaseInv

LEMMA BaseWrite == BaseInv /\ Write => BaseInv'
  <1> SUFFICES ASSUME BaseInv, Write PROVE BaseInv'
    OBVIOUS
  <1>1. /\ UNCHANGED <<input, pos, begin, header, size, txns, printed>>
        /\ blocks' = blocks /\ file' = file
        /\ \/ buf' = ReadAll /\ pc' = "done"
           \/ buf' = buf /\ pc' = "unwritten"
    BY DEF Write, input, locals
  <1>2. ReadAll \in Seq(Byte) /\ ReadAll = SubSeq(Plain(blocks), 1, Len(file))
    BY ReadAllPlain DEF BaseInv
  <1>3. TypeOK'
    BY <1>1, <1>2 DEF BaseInv, TypeOK
  <1>4. FileInv'
    BY <1>1, SameFile DEF BaseInv
  <1>5. Passed' /\ OutputDecoded'
    BY <1>1, <1>2 DEF Passed, OutputDecoded
  <1> QED
    BY <1>3, <1>4, <1>5 DEF BaseInv

LEMMA BaseStutter == BaseInv /\ UNCHANGED vars => BaseInv'
  BY DEF BaseInv, TypeOK, FileInv, Passed, OutputDecoded, vars, input, locals

(* Every step of the printing loop and of the copy keeps this invariant, whatever the file
   holds (btc_file_print_info and blkdat_dexor of main_block_dexor.c). *)
THEOREM BaseInvariance == Spec => []BaseInv
  <1>1. BaseInv /\ [Next]_vars => BaseInv'
    BY BaseOpen, BaseReadMagic, BaseReadHeader, BaseReadCount, BaseReadTx, BaseSeek,
       BaseWrite, BaseStutter
    DEF Next, Ended
  <1> QED
    BY InitBase, <1>1, PTL DEF Spec

-----------------------------------------------------------------------------
(***************************************************************************)
(* What is printed, as far as the sizes lead                               *)
(***************************************************************************)

(* Sizes that lead to a block lead to those before it. *)
LEMMA LedFacts ==
  ASSUME TypeOK, NEW k \in Nat \ {0}, Led(k)
  PROVE  k \in 1..(Len(blocks) + 1) /\ \A n \in 1..k : Led(n)
  <1>1. Len(blocks) \in Nat /\ DOMAIN blocks = 1..Len(blocks)
    BY FileBlocks
  <1>2. \A j \in 1..(k - 1) : j \in 1..Len(blocks)
    BY <1>1 DEF Led
  <1>3. k \in 1..(Len(blocks) + 1)
    <2>1. CASE k = 1
      BY <1>1, <2>1
    <2>2. CASE k # 1
      <3>1. k - 1 \in 1..(k - 1)
        BY <2>2
      <3>2. k - 1 \in 1..Len(blocks)
        BY <1>2, <3>1
      <3> QED
        BY <1>1, <3>2
    <2> QED
      BY <2>1, <2>2
  <1>4. ASSUME NEW n \in 1..k
        PROVE  Led(n)
    <2>1. \A j \in 1..(n - 1) : j \in 1..(k - 1)
      OBVIOUS
    <2> QED
      BY <2>1 DEF Led
  <1> QED
    BY <1>3, <1>4

(* So many blocks have been printed. *)
LEMMA PrintedFacts ==
  ASSUME TypeOK
  PROVE  /\ DOMAIN printed = 1..Len(printed) /\ Len(printed) \in Nat
         /\ DOMAIN blocks = 1..Len(blocks) /\ Len(blocks) \in Nat
         /\ Len(printed) + 1 \in Nat \ {0}
  <1>1. Len(printed) \in Nat /\ DOMAIN printed = 1..Len(printed)
    BY DEF TypeOK
  <1> QED
    BY <1>1, FileBlocks

(* Nothing after the printed blocks is reached if the next one is not.     *)
LEMMA NoneReached ==
  ASSUME TypeOK, Led(Len(printed) + 1) => Begins(Len(printed) + 1) + Prelude > Len(file)
  PROVE  \A i \in DOMAIN blocks : Reached(i) => i \in DOMAIN printed
  <1> SUFFICES ASSUME NEW i \in DOMAIN blocks, Reached(i), i \notin DOMAIN printed
               PROVE  FALSE
    OBVIOUS
  <1> DEFINE k == Len(printed) + 1
             m == Len(blocks)
  <1>1. k \in 1..i /\ i \in Nat \ {0} /\ m \in Nat /\ i <= m /\ k \in Nat
    BY PrintedFacts
  <1>2. Led(k)
    BY <1>1, LedFacts DEF Reached
  <1>3. k \in 1..(m + 1) /\ i \in k..(m + 1) /\ i \in 1..(m + 1)
    BY <1>1
  <1>4. Begins(k) <= Begins(i) /\ Begins(k) \in Nat /\ Begins(i) \in Nat
    BY <1>3, BeginsFacts
  <1>5. Begins(i) + Prelude <= Len(file)
    <2>1. Begins(i) + MagicSize + SizeSize + HeaderSize <= Len(file)
      BY DEF Reached
    <2> QED
      BY <2>1, <1>4, SizesNat DEF Prelude
  <1>6. Len(file) \in Nat /\ Prelude \in Nat
    BY FileBlocks, SizesNat DEF Prelude
  <1> HIDE DEF Prelude
  <1> QED
    BY <1>2, <1>4, <1>5, <1>6

(* What does not depend on the place in the file. *)
LEMMA SameBut ==
  ASSUME Inv, UNCHANGED <<input, printed>>
  PROVE  /\ CountsRight'
         /\ \A i \in DOMAIN printed' :
              (Led(i) => i \in DOMAIN blocks /\ Reached(i) /\ printed[i].begin = Begins(i))'
  <1>1. /\ UNCHANGED input /\ printed' = printed /\ blocks' = blocks
    BY DEF input
  <1>2. \A i \in DOMAIN printed' :
          (Led(i) => i \in DOMAIN blocks /\ Reached(i) /\ printed[i].begin = Begins(i))'
    BY <1>1, SameFile DEF Inv, Printing, BlocksPrinted
  <1>3. CountsRight'
    BY <1>1, SameFile DEF Inv, Printing, CountsRight
  <1> QED
    BY <1>2, <1>3

(* The place is where it was. *)
LEMMA SameAt ==
  ASSUME UNCHANGED input, begin' = begin, size' = size, NEW k
  PROVE  (Led(k) => k \in 1..Len(blocks) /\ begin = Begins(k) /\ size = blocks[k].size)'
           <=> At(k)
  BY SameFile DEF At, input

LEMMA StepOpen == Inv /\ Open => Printing'
  <1> SUFFICES ASSUME Inv, Open PROVE Printing'
    OBVIOUS
  <1>1. /\ UNCHANGED input /\ UNCHANGED <<input, printed>> /\ blocks' = blocks
        /\ pos' = pos /\ printed' = printed /\ pc = "open" /\ pc' \in {"magic", "crashed"}
    BY DEF Open, input
  <1>2. PlaceInv'
    <2>1. pos = 0 /\ printed = <<>> /\ Begins(1) = 0
      BY <1>1, BeginsFacts DEF Inv, BaseInv, Printing, PlaceInv
    <2>2. Len(printed) + 1 = 1
      BY <2>1
    <2>3. pos' = Begins(Len(printed) + 1)'
      BY <1>1, <2>1, <2>2, SameFile
    <2> QED
      BY <1>1, <2>3 DEF PlaceInv
  <1>3. BlocksPrinted' /\ CountsRight'
    BY <1>1, SameBut DEF BlocksPrinted
  <1>4. CountInv'
    BY <1>1 DEF CountInv
  <1> QED
    BY <1>2, <1>3, <1>4 DEF Printing

(* What is read where a block may begin is a block, if the file goes on.   *)
LEMMA StepReadMagic == Inv /\ ReadMagic => Printing'
  <1> SUFFICES ASSUME Inv, ReadMagic PROVE Printing'
    OBVIOUS
  <1> DEFINE k == Len(printed) + 1
             w == MagicSize + SizeSize
  <1>1. /\ UNCHANGED <<input, txns, printed, buf>> /\ pc = "magic"
        /\ begin' = pos /\ blocks' = blocks /\ file' = file /\ UNCHANGED input
        /\ UNCHANGED <<input, printed>>
    BY DEF ReadMagic, input
  <1>2. Led(k) => pos = Begins(k)
    BY <1>1 DEF Inv, Printing, PlaceInv
  <1>3. /\ w \in Nat /\ MagicSize \in Nat /\ SizeSize \in Nat /\ w > 0 /\ pos \in Nat
        /\ TypeOK /\ FileInv /\ Len(file) \in Nat
    BY SizesNat, FileBlocks DEF Inv, BaseInv, TypeOK
  <1>5. CASE Fits(pos, w)
    <2>1. size' = Number(Bytes(pos + MagicSize, SizeSize)) /\ pc' = "header"
      BY <1>5 DEF ReadMagic
    <2>2. ASSUME Led(k)
          PROVE  k \in 1..Len(blocks) /\ size' = blocks[k].size
      <3>1. k \in 1..(Len(blocks) + 1) /\ Len(blocks) \in Nat
        BY <1>3, <2>2, LedFacts, PrintedFacts
      <3>2. ASSUME k = Len(blocks) + 1
            PROVE  FALSE
        <4>1. Begins(k) = Len(Plain(blocks)) /\ Begins(k) \in Nat
          BY <1>3, <3>1, <3>2, BeginsFacts
        <4>2. Len(file) <= Len(Plain(blocks))
          BY <1>3 DEF FileInv
        <4> HIDE DEF w, k
        <4>3. pos + w <= Len(file)
          BY <1>5 DEF Fits
        <4> QED
          BY <4>1, <4>2, <4>3, <1>2, <1>3, <2>2
      <3> HIDE DEF k
      <3>3. k \in 1..Len(blocks)
        BY <3>1, <3>2
      <3>4. pos = Begins(k)
        BY <1>2, <2>2
      <3> QED
        BY <1>3, <1>5, <2>1, <3>3, <3>4, SizeField
    <2>3. At(k)'
      <3>1. k' = k /\ Begins(k)' = Begins(k) /\ (Led(k)' <=> Led(k))
        BY <1>1, SameFile
      <3> HIDE DEF k
      <3>2. Led(k) => k \in 1..Len(blocks') /\ begin' = Begins(k)' /\ size' = blocks'[k].size
        BY <1>1, <1>2, <2>2, <3>1
      <3> QED
        BY <3>1, <3>2 DEF At
    <2>4. PlaceInv' /\ CountInv'
      BY <2>1, <2>3 DEF PlaceInv, CountInv
    <2> QED
      BY <1>1, <2>1, <2>4, SameBut DEF Printing, BlocksPrinted
  <1>6. CASE ~Fits(pos, w)
    <2>1. pc' = "write"
      BY <1>6 DEF ReadMagic
    <2>2. Led(k) => Begins(k) + Prelude > Len(file)
      BY <1>2, <1>3, <1>6, SizesNat DEF Fits, Prelude
    <2>3. \A i \in DOMAIN blocks : Reached(i) => i \in DOMAIN printed
      BY <1>3, <2>2, NoneReached
    <2>4. PlaceInv' /\ CountInv'
      BY <2>1 DEF PlaceInv, CountInv
    <2> QED
      BY <1>1, <2>1, <2>3, <2>4, SameBut, SameFile DEF Printing, BlocksPrinted
  <1> QED
    BY <1>5, <1>6

LEMMA StepReadHeader == Inv /\ ReadHeader => Printing'
  <1> SUFFICES ASSUME Inv, ReadHeader PROVE Printing'
    OBVIOUS
  <1> DEFINE k == Len(printed) + 1
  <1>1. /\ pc = "header" /\ UNCHANGED input /\ UNCHANGED <<input, printed>>
        /\ blocks' = blocks /\ printed' = printed /\ begin' = begin /\ size' = size
    BY DEF ReadHeader, input
  <1>2. At(k) /\ pos = begin + MagicSize + SizeSize /\ pos \in Nat /\ begin \in Nat
        /\ TypeOK /\ Len(file) \in Nat
    BY <1>1, FileBlocks DEF Inv, BaseInv, Passed, Printing, PlaceInv, TypeOK
  <1>3. At(k)'
    <2>1. k' = k
      BY <1>1
    <2> HIDE DEF k
    <2> QED
      BY <1>1, <1>2, <2>1, SameAt DEF At
  <1>4. CASE Fits(pos, HeaderSize)
    <2>1. pc' = "count"
      BY <1>4 DEF ReadHeader
    <2>2. PlaceInv' /\ CountInv'
      BY <1>3, <2>1 DEF PlaceInv, CountInv
    <2> QED
      BY <1>1, <2>1, <2>2, SameBut DEF Printing, BlocksPrinted
  <1>5. CASE ~Fits(pos, HeaderSize)
    <2>1. pc' = "write"
      BY <1>5 DEF ReadHeader
    <2>2. Led(k) => Begins(k) + Prelude > Len(file)
      <3>1. HeaderSize \in Nat /\ MagicSize \in Nat /\ SizeSize \in Nat
        BY SizesNat
      <3> QED
        BY <1>2, <1>5, <3>1 DEF At, Fits, Prelude
    <2>3. \A i \in DOMAIN blocks : Reached(i) => i \in DOMAIN printed
      BY <1>2, <2>2, NoneReached
    <2>4. PlaceInv' /\ CountInv'
      BY <2>1 DEF PlaceInv, CountInv
    <2> QED
      BY <1>1, <2>1, <2>3, <2>4, SameBut, SameFile DEF Printing, BlocksPrinted
  <1> QED
    BY <1>4, <1>5

(* What is printed of block k is right, as far as a short holds it. *)
Right(k, e) ==
  /\ blocks[k].txns < 2^15 => e.txns = blocks[k].txns
  /\ e.coinbase /\ ~blocks[k].segwit /\ blocks[k].ins < 2^15 => e.ins = blocks[k].ins

(* Both ways of printing block Len(printed) + 1. *)
LEMMA PrintBlock ==
  ASSUME Inv, pc \in {"count", "tx"}, UNCHANGED <<input, begin, header, size, buf>>,
         NEW e \in [begin : Nat, txns : Shorts, coinbase : BOOLEAN, ins : Shorts],
         e.begin = begin, printed' = Append(printed, e), pc' = "seek",
         Whole(Len(printed) + 1) => Right(Len(printed) + 1, e)
  PROVE  Printing'
  <1> DEFINE k == Len(printed) + 1
             E == [begin : Nat, txns : Shorts, coinbase : BOOLEAN, ins : Shorts]
  <1>1. /\ UNCHANGED input /\ blocks' = blocks /\ file' = file
        /\ begin' = begin /\ header' = header /\ size' = size /\ buf' = buf
    BY DEF input
  <1>2. At(k) /\ header = begin + Prelude /\ header <= Len(file) /\ TypeOK
    BY DEF Inv, BaseInv, Passed, Printing, PlaceInv
  <1>3. printed \in Seq(E) /\ e \in E
    BY DEF Inv, BaseInv, TypeOK
  <1> HIDE DEF E
  <1>4. /\ printed' \in Seq(E) /\ Len(printed') = k /\ DOMAIN printed' = 1..k
        /\ \A i \in 1..Len(printed) : printed'[i] = printed[i]
        /\ printed'[k] = e
    BY <1>3
  <1>5. PlaceInv'
    <2>1. At(Len(printed))'
      <3>1. Len(printed)' = k
        BY <1>4
      <3> HIDE DEF k
      <3> QED
        BY <1>1, <1>2, <3>1, SameAt DEF At
    <2> QED
      BY <2>1 DEF PlaceInv
  <1>6. ASSUME Led(k)
        PROVE  Reached(k) /\ k \in DOMAIN blocks /\ begin = Begins(k)
    <2>1. k \in DOMAIN blocks /\ begin = Begins(k)
      BY <1>2, <1>6, PrintedFacts DEF At
    <2>2. begin + MagicSize + SizeSize + HeaderSize <= Len(file)
      BY <1>2, SizesNat DEF TypeOK, Prelude
    <2> QED
      BY <1>6, <2>1, <2>2 DEF Reached
  <1>7. ASSUME NEW i \in DOMAIN printed', Led(i)'
        PROVE  i \in DOMAIN blocks' /\ Reached(i)' /\ printed'[i].begin = Begins(i)'
    <2>1. Led(i)
      BY <1>1, <1>7, SameFile
    <2>2. CASE i = k
      BY <2>1, <2>2, <1>1, <1>4, <1>6, SameFile
    <2>3. CASE i # k
      <3>1. i \in 1..Len(printed) /\ i \in DOMAIN printed
        BY <2>3, <1>2, <1>4, PrintedFacts
      <3>2. i \in DOMAIN blocks /\ Reached(i) /\ printed[i].begin = Begins(i)
        BY <2>1, <3>1 DEF Inv, Printing, BlocksPrinted
      <3> QED
        BY <3>1, <3>2, <1>1, <1>4, SameFile
    <2> QED
      BY <2>2, <2>3
  <1>8. BlocksPrinted'
    BY <1>7 DEF BlocksPrinted
  <1>9. CountInv'
    BY DEF CountInv
  <1>10. ASSUME NEW i \in DOMAIN printed', Whole(i)'
         PROVE  Right(i, printed'[i])
    <2>1. Whole(i)
      BY <1>1, <1>10, SameFile
    <2>2. CASE i = k
      BY <2>1, <2>2, <1>4
    <2>3. CASE i # k
      <3>1. i \in 1..Len(printed) /\ i \in DOMAIN printed
        BY <2>3, <1>2, <1>4, PrintedFacts
      <3>2. Right(i, printed[i])
        BY <2>1, <3>1 DEF Inv, Printing, CountsRight, Right
      <3> QED
        BY <3>1, <3>2, <1>4
    <2> QED
      BY <2>2, <2>3
  <1>11. CountsRight'
    BY <1>1, <1>10 DEF CountsRight, Right
  <1> QED
    BY <1>5, <1>8, <1>9, <1>11 DEF Printing

LEMMA StepReadCount == Inv /\ ReadCount => Printing'
  <1> SUFFICES ASSUME Inv, ReadCount PROVE Printing'
    OBVIOUS
  <1>1. /\ UNCHANGED <<input, begin, header, size, buf>> /\ pc = "count"
        /\ txns' = VarInt(pos).val /\ pos' = VarInt(pos).at
    BY DEF ReadCount
  <1>4. begin \in Nat /\ 0 \in Shorts
    BY SmallShort DEF Inv, BaseInv, TypeOK
  <1> DEFINE c == blocks[Len(printed) + 1].txns
  <1>5a. ASSUME Whole(Len(printed) + 1)
         PROVE  /\ c \in Nat /\ Len(CountBytes(c)) \in Nat
                /\ c < 2^15 => txns' = c
                /\ c < 2^16 => (c # 0 => txns' # 0) /\ pos' = pos + Len(CountBytes(c))
                /\ c >= 2^16 => txns' = 0
    <2> DEFINE k == Len(printed) + 1
    <2>1. k \in 1..Len(blocks) /\ header = Begins(k) + Prelude /\ pos = header /\ pos \in Nat
      BY <1>1, <1>5a DEF Inv, BaseInv, Passed, Printing, PlaceInv, At, TypeOK, Whole
    <2>2. c \in Nat /\ HasAt(blocks[k], 0, CountBytes(c))
      BY <1>5a, <2>1, FileBlocks DEF Inv, BaseInv, BlockType, Says, Whole
    <2>3. Len(CountBytes(c)) \in Nat
      <3> HIDE DEF c
      <3> QED
        BY DEF CountBytes
    <2>4. InFile(Begins(k) + Prelude + 0, CountBytes(c))
      BY <2>1, <2>2, <2>3, <1>5a, BodyInFile DEF Inv, BaseInv
    <2>5. Begins(k) + Prelude + 0 = pos
      <3> DEFINE d == Begins(k) + Prelude
      <3>1. d = pos /\ d \in Nat
        BY <2>1
      <3> HIDE DEF d
      <3>2. d + 0 = pos
        BY <3>1
      <3> QED
        BY <3>2 DEF d
    <2>6. InFile(pos, CountBytes(c))
      BY <2>4, <2>5
    <2> HIDE DEF c
    <2> QED
      BY <1>1, <2>1, <2>2, <2>3, <2>6, VarIntReads DEF Inv, BaseInv
  <1>5. CASE txns' = 0
    <2>1. printed' = Append(printed, Entry(0, FALSE, 0)) /\ pc' = "seek"
      BY <1>5 DEF ReadCount
    <2> DEFINE e == Entry(0, FALSE, 0)
    <2>2. /\ e \in [begin : Nat, txns : Shorts, coinbase : BOOLEAN, ins : Shorts]
          /\ e.begin = begin
      BY <1>4 DEF Entry
    <2>4. e.txns = 0 /\ ~e.coinbase
      BY DEF Entry
    <2> HIDE DEF e
    <2>3. printed' = Append(printed, e)
      BY <2>1 DEF e
    <2>5. Whole(Len(printed) + 1) => Right(Len(printed) + 1, e)
      BY <1>5, <1>5a, <2>4 DEF Right
    <2> QED
      BY <1>1, <2>1, <2>2, <2>3, <2>5, PrintBlock
  <1>6. CASE txns' # 0
    <2>1. printed' = printed /\ pc' = "tx"
      BY <1>6 DEF ReadCount
    <2>2. /\ UNCHANGED input /\ UNCHANGED <<input, printed>>
          /\ begin' = begin /\ header' = header /\ size' = size
      BY <1>1, <2>1
    <2> DEFINE k == Len(printed) + 1
    <2>5. At(k)'
      <3>1. k' = k /\ At(k)
        BY <1>1, <2>1 DEF Inv, Printing, PlaceInv
      <3> HIDE DEF k
      <3> QED
        BY <2>2, <3>1, SameAt DEF At
    <2>6. PlaceInv'
      BY <2>1, <2>5 DEF PlaceInv
    <2>7. CountInv'
      <3>1. ASSUME Whole(k)
            PROVE  c > 0 /\ (c < 2^15 => txns' = c) /\ pos' = header + Len(CountBytes(c))
        <4>1. pos = header
          BY <1>1 DEF Inv, BaseInv, Passed
        <4>2. c # 0 /\ c < 2^16 /\ c \in Nat
          BY <3>1, <1>5a, <1>6
        <4> QED
          BY <3>1, <4>1, <4>2, <1>5a
      <3>2. Len(printed') + 1 = k /\ (Whole(k)' <=> Whole(k))
        BY <2>1, <2>2, SameFile
      <3> QED
        BY <2>1, <2>2, <3>1, <3>2 DEF CountInv, input
    <2> QED
      BY <2>1, <2>2, <2>6, <2>7, SameBut DEF Printing, BlocksPrinted
  <1> QED
    BY <1>5, <1>6

LEMMA StepReadTx == Inv /\ ReadTx => Printing'
  <1> SUFFICES ASSUME Inv, ReadTx PROVE Printing'
    OBVIOUS
  <1> DEFINE h == TxHeader(pos)
             e == Entry(txns, ~h.ec, h.in_count)
  <1>1. /\ UNCHANGED <<input, begin, header, size, buf>> /\ txns' = txns /\ pc = "tx"
        /\ printed' = Append(printed, e) /\ pos' = h.at /\ pc' = "seek"
    BY DEF ReadTx, locals
  <1>2. h \in [ec : BOOLEAN, in_count : Shorts, at : Nat]
    BY TxHeaderType DEF Inv, BaseInv, TypeOK
  <1>3. begin \in Nat /\ txns \in Shorts
    BY DEF Inv, BaseInv, TypeOK
  <1> HIDE DEF h
  <1>4. h.at \in Nat /\ h.in_count \in Shorts /\ (~h.ec) \in BOOLEAN
    BY <1>2
  <1>5. /\ e \in [begin : Nat, txns : Shorts, coinbase : BOOLEAN, ins : Shorts]
        /\ e.begin = begin
    BY <1>3, <1>4 DEF Entry
  <1>6. ASSUME Whole(Len(printed) + 1)
        PROVE  Right(Len(printed) + 1, e)
    <2> DEFINE k == Len(printed) + 1
               c == blocks[k].txns
    <2>1. k \in 1..Len(blocks) /\ header = Begins(k) + Prelude
      BY <1>1, <1>6 DEF Inv, BaseInv, Passed, Printing, PlaceInv, At, Whole
    <2>2. c > 0 /\ (c < 2^15 => txns = c) /\ pos = header + Len(CountBytes(c))
      BY <1>1, <1>6 DEF Inv, Printing, CountInv
    <2>3. e.txns = txns /\ e.coinbase = ~h.ec /\ e.ins = h.in_count
      BY DEF Entry
    <2> HIDE DEF e, c
    <2>4. pos = Begins(k) + Prelude + Len(CountBytes(c)) /\ pos \in Nat
      BY <2>1, <2>2 DEF Inv, BaseInv, TypeOK
    <2>5. Len(CountBytes(c)) \in Nat
      BY DEF CountBytes
    <2>6. ASSUME ~h.ec, ~blocks[k].segwit, blocks[k].ins < 2^15
          PROVE  h.in_count = blocks[k].ins
      BY <2>1, <2>2, <2>4, <2>5, <2>6, <1>6, TxHeaderReads DEF Inv, BaseInv, h, c
    <2> QED
      BY <2>2, <2>3, <2>6 DEF c, Right
  <1> HIDE DEF e
  <1> QED
    BY <1>1, <1>5, <1>6, PrintBlock

LEMMA StepSeek == Inv /\ Seek => Printing'
  <1> SUFFICES ASSUME Inv, Seek PROVE Printing'
    OBVIOUS
  <1> DEFINE k == Len(printed)
  <1>1. /\ UNCHANGED <<input, printed>> /\ pc = "seek" /\ UNCHANGED input
        /\ blocks' = blocks /\ printed' = printed
    BY DEF Seek, input, locals
  <1>2. At(k) /\ header = begin + Prelude /\ begin \in Nat /\ TypeOK /\ size \in Nat
    BY <1>1 DEF Inv, BaseInv, Passed, Printing, PlaceInv, TypeOK
  <1>3. HeaderSize \in Nat /\ k \in Nat
    BY <1>2, SizesNat, PrintedFacts
  <1>4. ASSUME Led(k)
        PROVE  k \in 1..Len(blocks) /\ begin = Begins(k) /\ size = blocks[k].size
    BY <1>2, <1>4 DEF At
  <1>5. CASE size < HeaderSize
    <2>1. pc' = "write"
      BY <1>5 DEF Seek
    <2>2. ASSUME NEW i \in DOMAIN blocks, Reached(i), i \notin DOMAIN printed
          PROVE  FALSE
      <3>1. i \in Nat \ {0} /\ k < i
        BY <1>2, <1>3, <2>2, PrintedFacts
      <3>2. Led(i)
        BY <2>2 DEF Reached
      <3>3. Led(k)
        <4>1. CASE k = 0
          <5>1. 1..(k - 1) = {}
            BY <4>1
          <5> QED
            BY <5>1 DEF Led
        <4>2. CASE k # 0
          <5>1. k \in 1..i
            BY <1>3, <3>1, <4>2
          <5> QED
            BY <1>2, <3>1, <3>2, <5>1, LedFacts
        <4> QED
          BY <4>1, <4>2
      <3>4. k \in 1..Len(blocks) /\ size = blocks[k].size
        BY <1>4, <3>3
      <3>5. k \in 1..(i - 1)
        BY <1>3, <3>1, <3>4
      <3>6. blocks[k].size = HeaderSize + Len(blocks[k].body)
        BY <3>2, <3>5 DEF Led
      <3>7. Len(blocks[k].body) \in Nat
        BY <1>2, <3>4, FileBlocks
      <3> QED
        BY <1>3, <1>5, <3>4, <3>6, <3>7
    <2>3. PlaceInv' /\ CountInv'
      BY <2>1 DEF PlaceInv, CountInv
    <2> QED
      BY <1>1, <2>1, <2>2, <2>3, SameBut, SameFile DEF Printing, BlocksPrinted
  <1>6. CASE ~ (size < HeaderSize)
    <2>1. pc' = "magic" /\ pos' = header + size - HeaderSize
      BY <1>6 DEF Seek, NextBlock
    <2>2. ASSUME Led(k + 1)
          PROVE  pos' = Begins(k + 1)
      <3>1. k + 1 \in Nat \ {0} /\ (k + 1) - 1 = k
        BY <1>3
      <3>2. Led(k)
        <4>1. CASE k = 0
          <5>1. 1..(k - 1) = {}
            BY <4>1
          <5> QED
            BY <5>1 DEF Led
        <4>2. CASE k # 0
          <5>1. k \in 1..(k + 1)
            BY <1>3, <4>2
          <5> QED
            BY <1>2, <2>2, <3>1, <5>1, LedFacts
        <4> QED
          BY <4>1, <4>2
      <3>3. k \in 1..Len(blocks) /\ begin = Begins(k) /\ size = blocks[k].size
        BY <1>4, <3>2
      <3> DEFINE b == Len(blocks[k].body)
      <3>4. k \in 1..k
        BY <1>3, <3>3
      <3>5. size = HeaderSize + b /\ b \in Nat
        BY <1>2, <2>2, <3>1, <3>3, <3>4, FileBlocks DEF Led
      <3>6. Begins(k + 1) = begin + Prelude + b
        BY <1>2, <3>3, BeginsFacts
      <3>7. Prelude \in Nat
        BY SizesNat DEF Prelude
      <3> HIDE DEF b, Prelude, k
      <3> QED
        BY <1>2, <1>3, <2>1, <3>5, <3>6, <3>7
    <2>3. Led(Len(printed) + 1)' => pos' = Begins(Len(printed) + 1)'
      BY <1>1, <2>2, SameFile
    <2>4. PlaceInv' /\ CountInv'
      BY <2>1, <2>3 DEF PlaceInv, CountInv
    <2> QED
      BY <1>1, <2>1, <2>4, SameBut DEF Printing, BlocksPrinted
  <1> QED
    BY <1>5, <1>6

LEMMA StepWrite == Inv /\ Write => Printing'
  <1> SUFFICES ASSUME Inv, Write PROVE Printing'
    OBVIOUS
  <1>1. /\ UNCHANGED input /\ UNCHANGED <<input, printed>> /\ pc = "write" /\ blocks' = blocks
        /\ printed' = printed /\ pc' \in {"done", "unwritten"}
    BY DEF Write, input
  <1>2. PlaceInv' /\ CountInv'
    BY <1>1 DEF PlaceInv, CountInv
  <1>3. BlocksPrinted' /\ CountsRight'
    BY <1>1, SameFile, SameBut DEF Inv, Printing, BlocksPrinted
  <1> QED
    BY <1>2, <1>3 DEF Printing

LEMMA StepStutter == Inv /\ UNCHANGED vars => Printing'
  <1> SUFFICES ASSUME Inv, UNCHANGED vars PROVE Printing'
    OBVIOUS
  <1>1. /\ UNCHANGED input /\ UNCHANGED <<input, printed>> /\ blocks' = blocks
        /\ printed' = printed /\ pos' = pos /\ pc' = pc
        /\ begin' = begin /\ header' = header /\ size' = size /\ txns' = txns
    BY DEF vars, input, locals
  <1>2. PlaceInv'
    <2> DEFINE k == Len(printed)
    <2>1. k' = k /\ (k + 1)' = k + 1
      BY <1>1
    <2> HIDE DEF k
    <2>2. (At(k)' <=> At(k)) /\ (At(k + 1)' <=> At(k + 1))
      BY <1>1, <2>1, SameAt DEF At
    <2>3. (Led(k + 1)' <=> Led(k + 1)) /\ Begins(k + 1)' = Begins(k + 1)
      BY <1>1, <2>1, SameFile
    <2> QED
      BY <1>1, <2>1, <2>2, <2>3 DEF Inv, Printing, PlaceInv, k
  <1>3. BlocksPrinted' /\ CountsRight'
    BY <1>1, SameFile, SameBut DEF Inv, Printing, BlocksPrinted
  <1>4. CountInv'
    <2> DEFINE k == Len(printed) + 1
    <2>1. Len(printed') + 1 = k /\ (Whole(k)' <=> Whole(k))
      BY <1>1, SameFile
    <2> HIDE DEF k
    <2> QED
      BY <1>1, <2>1 DEF Inv, Printing, CountInv, k
  <1> QED
    BY <1>2, <1>3, <1>4 DEF Printing

(* Every step keeps what is known of the printed blocks, whatever the file holds and wherever
   it ends (main of main_block_dexor.c). *)
THEOREM Invariance == Spec => []Inv
  <1>1. BaseInv /\ Printing /\ BaseInv' /\ [Next]_vars => Printing'
    BY StepOpen, StepReadMagic, StepReadHeader, StepReadCount, StepReadTx,
       StepSeek, StepWrite, StepStutter
    DEF Next, Ended, Inv
  <1>2. BaseInv /\ Printing => Inv
    BY DEF Inv
  <1> QED
    BY InitPrinting, BaseInvariance, <1>1, <1>2, PTL DEF Spec

(* Every variable has its type: counts are shorts, positions are not       *)
(* negative, and what is written are bytes.                                *)
THEOREM TypeCorrect == Spec => []TypeOK
  <1>1. BaseInv => TypeOK
    BY DEF BaseInv
  <1> QED
    BY BaseInvariance, <1>1, PTL

(* btc_file_print_info comes to every block whose header the file has, up  *)
(* to one that claims a wrong size, whatever reading a transaction did to  *)
(* the position (main_block_dexor.c:269-286).                              *)
THEOREM BlocksPrintedHolds == Spec => []BlocksPrinted
  <1>1. Inv => BlocksPrinted
    BY DEF Inv, Printing
  <1> QED
    BY Invariance, <1>1, PTL

(* The printed counts are those of the block, if a short holds them and    *)
(* the inputs have no segwit marker before them, at every place in the     *)
(* file and for every key: btc_file_read begins with the byte of the key   *)
(* that belongs to the position (main_block_dexor.c:61-78, 95-165).        *)
THEOREM CountsRightHolds == Spec => []CountsRight
  <1>1. Inv => CountsRight
    BY DEF Inv, Printing
  <1> QED
    BY Invariance, <1>1, PTL

(* blkdat_dexor writes all of the file, each byte decoded with its own     *)
(* byte of the key, whatever sizes its blocks claim                        *)
(* (main_block_dexor.c:80-93).                                             *)
THEOREM OutputDecodedHolds == Spec => []OutputDecoded
  <1>1. BaseInv => OutputDecoded
    BY DEF BaseInv
  <1> QED
    BY BaseInvariance, <1>1, PTL

(* How much of the file is behind place p. *)
Behind(p) == IF p < Len(file) THEN Len(file) - p ELSE 0

(* What is left to do: at most six steps for each byte that is behind the  *)
(* beginning of the block, and less the further the block has been read.   *)
StepsLeft ==
  CASE pc = "open" -> 6 * Len(file) + 8
    [] pc = "magic" -> 6 * Behind(pos) + 7
    [] pc = "header" -> 6 * Behind(begin) + 6
    [] pc = "count" -> 6 * Behind(begin) + 5
    [] pc = "tx" -> 6 * Behind(begin) + 4
    [] pc = "seek" -> 6 * Behind(begin) + 3
    [] pc = "write" -> 1
    [] OTHER -> 0

LEMMA BehindFacts ==
  ASSUME TypeOK
  PROVE  /\ Len(file) \in Nat
         /\ \A p \in Nat : Behind(p) \in Nat /\ Behind(p) <= Len(file)
         /\ \A p, q \in Nat : p < q /\ p < Len(file) => Behind(q) < Behind(p)
  <1>1. Len(file) \in Nat
    BY LenProperties DEF TypeOK
  <1> QED
    BY <1>1 DEF Behind

(* The next block begins behind this one, of which the file had some.      *)
LEMMA SeekMoves ==
  ASSUME BaseInv, Seek, pc' = "magic"
  PROVE  begin \in Nat /\ pos' \in Nat /\ begin < pos' /\ begin < Len(file)
  <1>1. pc = "seek" /\ ~ (size < HeaderSize) /\ pos' = header + size - HeaderSize
    BY DEF Seek, NextBlock
  <1>2. /\ header = begin + Prelude /\ begin \in Nat /\ size \in Nat
        /\ header <= Len(file) /\ Len(file) \in Nat
    BY <1>1, FileBlocks DEF BaseInv, Passed, TypeOK
  <1>3. Prelude \in Nat /\ Prelude > 0 /\ HeaderSize \in Nat
    BY SizeAssumption, SMT DEF Prelude
  <1> HIDE DEF Prelude
  <1> QED
    BY ONLY <1>1, <1>2, <1>3

LEMMA FewerSteps ==
  ASSUME BaseInv, Next, ~ UNCHANGED vars
  PROVE  StepsLeft' < StepsLeft /\ StepsLeft' \in Nat
  <1>1. /\ pos \in Nat /\ begin \in Nat /\ Len(file) \in Nat
        /\ \A p \in Nat : Behind(p) \in Nat /\ Behind(p) <= Len(file)
        /\ \A p, q \in Nat : p < q /\ p < Len(file) => Behind(q) < Behind(p)
    BY BehindFacts DEF BaseInv, TypeOK
  <1>2. file' = file
    BY DEF Next, Open, ReadMagic, ReadHeader, ReadCount, ReadTx, Seek, Write, Ended, input, vars
  <1>3. Len(file) \in Nat /\ Behind(pos) \in Nat /\ Behind(pos) <= Len(file)
    BY <1>1
  <1>4. Behind(pos) \in Nat /\ Behind(begin) \in Nat
    BY <1>1
  <1>5. CASE Open
    <2>1. StepsLeft = 6 * Len(file) + 8
      BY <1>5 DEF Open, StepsLeft
    <2>2. CASE pc' = "magic"
      <3>1. StepsLeft' = 6 * Behind(pos)' + 7
        BY <2>2 DEF StepsLeft
      <3>2. Behind(pos)' = Behind(pos)
        BY <1>2, <1>5 DEF Open, Behind
      <3> QED
        BY ONLY <1>3, <2>1, <3>1, <3>2, SMT
    <2>3. CASE pc' = "crashed"
      <3>1. StepsLeft' = 0
        BY <2>3 DEF StepsLeft
      <3> QED
        BY <1>1, <2>1, <3>1
    <2> QED
      BY <1>5, <2>2, <2>3 DEF Open
  <1>6. CASE ReadMagic
    <2>1. StepsLeft = 6 * Behind(pos) + 7
      BY <1>6 DEF ReadMagic, StepsLeft
    <2>2. CASE pc' = "header"
      <3>1. StepsLeft' = 6 * Behind(begin)' + 6
        BY <2>2 DEF StepsLeft
      <3>2. Behind(begin)' = Behind(pos)
        BY <1>2, <1>6 DEF ReadMagic, Behind
      <3> QED
        BY <1>4, <2>1, <3>1, <3>2
    <2>3. CASE pc' = "write"
      <3>1. StepsLeft' = 1
        BY <2>3 DEF StepsLeft
      <3> QED
        BY <1>4, <2>1, <3>1
    <2> QED
      BY <1>6, <2>2, <2>3 DEF ReadMagic
  <1>7. CASE ReadHeader
    <2>1. StepsLeft = 6 * Behind(begin) + 6
      BY <1>7 DEF ReadHeader, StepsLeft
    <2>2. CASE pc' = "count"
      <3>1. StepsLeft' = 6 * Behind(begin)' + 5
        BY <2>2 DEF StepsLeft
      <3>2. Behind(begin)' = Behind(begin)
        BY <1>2, <1>7 DEF ReadHeader, Behind
      <3> QED
        BY <1>4, <2>1, <3>1, <3>2
    <2>3. CASE pc' = "write"
      <3>1. StepsLeft' = 1
        BY <2>3 DEF StepsLeft
      <3> QED
        BY <1>4, <2>1, <3>1
    <2> QED
      BY <1>7, <2>2, <2>3 DEF ReadHeader
  <1>8. CASE ReadCount
    <2>1. StepsLeft = 6 * Behind(begin) + 5
      BY <1>8 DEF ReadCount, StepsLeft
    <2>2. Behind(begin)' = Behind(begin)
      BY <1>2, <1>8 DEF ReadCount, Behind
    <2>3. StepsLeft' \in {6 * Behind(begin)' + 4, 6 * Behind(begin)' + 3}
      BY <1>8 DEF ReadCount, StepsLeft
    <2> QED
      BY <1>4, <2>1, <2>2, <2>3
  <1>9. CASE ReadTx
    <2>1. StepsLeft = 6 * Behind(begin) + 4
      BY <1>9 DEF ReadTx, StepsLeft
    <2>2. Behind(begin)' = Behind(begin)
      BY <1>2, <1>9 DEF ReadTx, Behind, locals
    <2>3. StepsLeft' = 6 * Behind(begin)' + 3
      BY <1>9 DEF ReadTx, StepsLeft
    <2> QED
      BY <1>4, <2>1, <2>2, <2>3
  <1>10. CASE Seek
    <2>1. StepsLeft = 6 * Behind(begin) + 3
      BY <1>10 DEF Seek, StepsLeft
    <2>2. CASE pc' = "magic"
      <3>1. begin < pos' /\ begin < Len(file) /\ pos' \in Nat
        BY <1>10, <2>2, SeekMoves
      <3>2. StepsLeft' = 6 * Behind(pos)' + 7
        BY <2>2 DEF StepsLeft
      <3> DEFINE q == pos'
      <3>3. Behind(pos)' = Behind(q)
        BY <1>2 DEF Behind
      <3>4. q \in Nat /\ begin < q
        BY <3>1
      <3> HIDE DEF q
      <3>5. Behind(q) \in Nat /\ Behind(q) < Behind(begin)
        BY <1>1, <3>1, <3>4
      <3> QED
        BY <1>4, <2>1, <3>2, <3>3, <3>5
    <2>3. CASE pc' = "write"
      <3>1. StepsLeft' = 1
        BY <2>3 DEF StepsLeft
      <3> QED
        BY <1>4, <2>1, <3>1
    <2> QED
      BY <1>10, <2>2, <2>3 DEF Seek
  <1>11. CASE Write
    BY <1>11, SMT DEF Write, StepsLeft
  <1> QED
    BY <1>5, <1>6, <1>7, <1>8, <1>9, <1>10, <1>11 DEF Next, Ended

(* No file makes the printing go in circles, whatever sizes its blocks     *)
(* claim and wherever it ends: fseek never goes back to where a block      *)
(* began, as smaller sizes than that of a header end the loop.  At most    *)
(* six steps are taken for each byte of the file, and eight more           *)
(* (main_block_dexor.c:269-286).                                           *)
THEOREM Progress == Spec => [][StepsLeft' < StepsLeft /\ StepsLeft' \in Nat]_vars
  <1>1. BaseInv /\ [Next]_vars => [StepsLeft' < StepsLeft /\ StepsLeft' \in Nat]_vars
    BY FewerSteps
  <1> QED
    BY BaseInvariance, <1>1, PTL DEF Spec

=============================================================================
