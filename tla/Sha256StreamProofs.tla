------------------------- MODULE Sha256StreamProofs -------------------------
(***************************************************************************)
(* Proofs about Sha256Stream, for every block size, every size of the      *)
(* message length and all lengths that callers pass.                       *)
(***************************************************************************)
EXTENDS Sha256Stream, SequenceTheorems, TLAPS

(* What the loops of sha256_update keep, as long as no call began inside a *)
(* block and went past its end: in the first loop the call ends with the   *)
(* block at the latest, in the second one no block is started or nothing   *)
(* is left, and the third one copies what is left.                         *)
FillInv ==
  /\ len < BlockSize
  /\ IF i < len THEN /\ index > 0 /\ Len(msg) = len - i
                     /\ index + Len(msg) <= BlockSize
                ELSE msg = <<>>

BlocksInv ==
  \/ index = 0 /\ i = 0 /\ Len(msg) = len
  \/ msg = <<>> /\ len < BlockSize /\ i >= len

RestInv == IF i < len THEN Len(msg) = len - i ELSE msg = <<>>

(* The context and what is left of the call are the message. *)
LoopInv ==
  /\ pc \in {"fill", "blocks", "rest"} => Absorbed \o msg = given /\ msglen = Len(given)
  /\ pc = "fill" => FillInv
  /\ pc = "blocks" => BlocksInv
  /\ pc = "rest" => RestInv

InnerInv == pc # "finished" => inner = NoInner

Inv == TypeOK /\ InnerInv /\ Streams /\ PaddedRight /\ (~straddled => LoopInv)
-----------------------------------------------------------------------------
(* Arithmetic *)

LEMMA ModFacts ==
  ASSUME NEW M \in Nat, M > 0, NEW x \in Nat
  PROVE  /\ x % M \in 0..(M - 1)
         /\ x < M => x % M = x
         /\ x >= M /\ x < 2 * M => x % M = x - M
  BY SMT

(* Whole blocks: with one more they are still whole, what Pushed compresses*)
(* is whole, and a started block is rounded away.                          *)
LEMMA WholeFacts ==
  ASSUME NEW M \in Nat, M > 0, NEW x \in Nat
  PROVE  /\ x - (x % M) \in Nat /\ (x - (x % M)) % M = 0
         /\ x % M = 0 => (x + M) % M = 0
         /\ x % M = 0 => \A r \in 0..(M - 1) : ((x + r) \div M) * M = x
  <1>1. x % M \in 0..(M - 1) /\ x \div M \in Nat /\ x = (x \div M) * M + (x % M)
    BY SMT
  <1>2. x - (x % M) \in Nat /\ (x - (x % M)) % M = 0
    <2> DEFINE q == x \div M
    <2>1. x - (x % M) = q * M /\ q \in Nat
      BY <1>1
    <2> HIDE DEF q
    <2>2. (q * M) % M = 0 /\ q * M \in Nat
      BY <2>1, SMT
    <2> QED
      BY <2>1, <2>2
  <1>3. ASSUME x % M = 0
        PROVE  (x + M) % M = 0
    <2> DEFINE q == x \div M
    <2>1. x = q * M /\ q \in Nat
      BY <1>1, <1>3
    <2> HIDE DEF q
    <2>2. x + M = (q + 1) * M /\ q + 1 \in Nat
      BY <2>1, SMT
    <2>3. \A k \in Nat : (k * M) % M = 0
      BY SMT
    <2> QED
      BY <2>2, <2>3
  <1>4. ASSUME x % M = 0, NEW r \in 0..(M - 1)
        PROVE  ((x + r) \div M) * M = x
    <2> DEFINE q == x \div M
    <2>1. x = q * M /\ q \in Nat
      BY <1>1, <1>4
    <2> HIDE DEF q
    <2>2. (q * M + r) \div M = q
      BY <2>1, SMT
    <2> QED
      BY <2>1, <2>2
  <1> QED
    BY <1>2, <1>3, <1>4
LEMMA WholeSum ==
  ASSUME NEW M \in Nat, M > 0, NEW x \in Nat, NEW y \in Nat, x % M = 0, y % M = 0
  PROVE  (x + y) % M = 0
  <1> DEFINE p == x \div M
             q == y \div M
  <1>1. x = p * M /\ y = q * M /\ p \in Nat /\ q \in Nat
    BY SMT
  <1> HIDE DEF p, q
  <1>2. x + y = (p + q) * M /\ p + q \in Nat
    BY <1>1, SMT
  <1>3. \A k \in Nat : (k * M) % M = 0
    BY SMT
  <1> QED
    BY <1>2, <1>3

-----------------------------------------------------------------------------
(* Sequences *)

LEMMA Joined ==
  ASSUME NEW S, NEW s \in Seq(S), NEW t \in Seq(S)
  PROVE  /\ s \o t \in Seq(S) /\ Len(s \o t) = Len(s) + Len(t)
         /\ \A j \in 1..Len(s) : (s \o t)[j] = s[j]
         /\ \A j \in 1..Len(t) : (s \o t)[Len(s) + j] = t[j]
  <1>1. /\ s \o t \in Seq(S) /\ Len(s \o t) = Len(s) + Len(t)
        /\ \A j \in 1..(Len(s) + Len(t)) : (s \o t)[j] =
             IF j <= Len(s) THEN s[j] ELSE t[j - Len(s)]
    BY ConcatProperties
  <1>2. Len(s) \in Nat /\ Len(t) \in Nat
    BY LenProperties
  <1>3. ASSUME NEW j \in 1..Len(s)
        PROVE  (s \o t)[j] = s[j]
    BY <1>1, <1>2
  <1>4. ASSUME NEW j \in 1..Len(t)
        PROVE  (s \o t)[Len(s) + j] = t[j]
    <2>1. /\ Len(s) + j \in 1..(Len(s) + Len(t)) /\ ~(Len(s) + j <= Len(s))
          /\ (Len(s) + j) - Len(s) = j
      BY <1>2
    <2> QED
      BY <1>1, <2>1
  <1> QED
    BY <1>1, <1>3, <1>4

-----------------------------------------------------------------------------
(* Contexts, and the message bytes that they have taken in *)

Contexts == [hash : {h \in Seq(Byte) : Len(h) % BlockSize = 0},
             block : [1..BlockSize -> Byte],
             index : 0..(BlockSize - 1),
             msglen : 0..(MsgMod - 1)]

Holds(c) == c.hash \o SubSeq(c.block, 1, c.index)

LEMMA BlockIsSeq ==
  ASSUME NEW b \in [1..BlockSize -> Byte]
  PROVE  b \in Seq(Byte) /\ Len(b) = BlockSize
  BY SizeAssumption

LEMMA BlockAdded ==
  ASSUME NEW g \in Seq(Byte), NEW b \in [1..BlockSize -> Byte], NEW m \in Nat,
         Len(g) = m
  PROVE  /\ g \o b \in Seq(Byte) /\ Len(g \o b) = m + BlockSize
         /\ m + BlockSize \in Nat
         /\ \A j \in 1..m : (g \o b)[j] = g[j]
         /\ \A j \in 1..BlockSize : (g \o b)[m + j] = b[j]
  <1>1. b \in Seq(Byte) /\ Len(b) = BlockSize /\ BlockSize \in Nat
    BY BlockIsSeq, SizeAssumption
  <1>2. /\ g \o b \in Seq(Byte) /\ Len(g \o b) = Len(g) + Len(b)
        /\ \A j \in 1..Len(g) : (g \o b)[j] = g[j]
        /\ \A j \in 1..Len(b) : (g \o b)[Len(g) + j] = b[j]
    <2>1. \A x, y \in Seq(Byte) :
            /\ x \o y \in Seq(Byte) /\ Len(x \o y) = Len(x) + Len(y)
            /\ \A j \in 1..Len(x) : (x \o y)[j] = x[j]
            /\ \A j \in 1..Len(y) : (x \o y)[Len(x) + j] = y[j]
      BY Joined
    <2> QED
      BY <1>1, <2>1, Zenon
  <1> QED
    BY <1>1, <1>2

LEMMA Started ==
  ASSUME NEW b \in [1..BlockSize -> Byte], NEW n \in 0..BlockSize
  PROVE  /\ SubSeq(b, 1, n) \in Seq(Byte) /\ Len(SubSeq(b, 1, n)) = n
         /\ \A j \in 1..n : SubSeq(b, 1, n)[j] = b[j]
  <1>1. \A j \in 1..n : b[j] \in Byte
    BY SizeAssumption
  <1> QED
    BY <1>1, SubSeqProperties, SizeAssumption

LEMMA HoldsFacts ==
  ASSUME NEW c \in Contexts
  PROVE  /\ Holds(c) \in Seq(Byte) /\ Len(Holds(c)) = Len(c.hash) + c.index
         /\ \A j \in 1..Len(c.hash) : Holds(c)[j] = c.hash[j]
         /\ \A j \in 1..c.index : Holds(c)[Len(c.hash) + j] = c.block[j]
  <1>1. c.hash \in Seq(Byte) /\ c.block \in [1..BlockSize -> Byte]
        /\ c.index \in 0..BlockSize /\ Len(c.hash) \in Nat
    BY SizeAssumption DEF Contexts
  <1>2. /\ SubSeq(c.block, 1, c.index) \in Seq(Byte)
        /\ Len(SubSeq(c.block, 1, c.index)) = c.index
        /\ \A j \in 1..c.index : SubSeq(c.block, 1, c.index)[j] = c.block[j]
    BY <1>1, Started
  <1> QED
    BY <1>1, <1>2, ConcatProperties DEF Holds

LEMMA CurrentContext ==
  ASSUME TypeOK
  PROVE  Current \in Contexts /\ Absorbed = Holds(Current)
  BY DEF TypeOK, Current, Contexts, Holds, Absorbed

LEMMA FreshContext ==
  /\ Fresh \in Contexts /\ Holds(Fresh) = <<>>
  /\ Zeros(BlockSize) \in [1..BlockSize -> Byte] /\ 0 % BlockSize = 0
  <1>1. Zeros(BlockSize) \in [1..BlockSize -> Byte]
    BY DEF Zeros, Byte
  <1>2. BlockSize \in Nat /\ BlockSize > 0 /\ MsgMod > 0 /\ MsgMod \in Nat
    BY SizeAssumption
  <1>3. 0 % BlockSize = 0
    BY <1>2, ModFacts
  <1>4. <<>> \in Seq(Byte) /\ Len(<<>>) % BlockSize = 0
    BY <1>3
  <1>5. Fresh \in Contexts
    BY <1>1, <1>2, <1>4 DEF Fresh, Contexts
  <1>6. Holds(Fresh) = <<>>
    <2>1. Len(Holds(Fresh)) = 0 /\ Holds(Fresh) \in Seq(Byte)
      BY <1>5, HoldsFacts DEF Fresh
    <2> QED
      BY <2>1, EmptySeq
  <1> QED
    BY <1>1, <1>3, <1>5, <1>6

(* A byte is taken in, whether or not it completes the block. *)
LEMMA PushAbsorbs ==
  ASSUME TypeOK, NEW b \in Byte, PushByte(b)
  PROVE  /\ hash' \in Seq(Byte) /\ Len(hash') % BlockSize = 0
         /\ block' \in [1..BlockSize -> Byte] /\ index' \in 0..(BlockSize - 1)
         /\ Absorbed' = Append(Absorbed, b)
  <1> DEFINE s == Append(Absorbed, b)
  <1>1. /\ hash \in Seq(Byte) /\ Len(hash) \in Nat /\ Len(hash) % BlockSize = 0
        /\ block \in [1..BlockSize -> Byte] /\ index \in 0..(BlockSize - 1)
        /\ BlockSize \in Nat /\ BlockSize > 0
    BY SizeAssumption DEF TypeOK
  <1>2. /\ Absorbed \in Seq(Byte) /\ Len(Absorbed) = Len(hash) + index
        /\ \A j \in 1..Len(hash) : Absorbed[j] = hash[j]
        /\ \A j \in 1..index : Absorbed[Len(hash) + j] = block[j]
    BY CurrentContext, HoldsFacts DEF Current
  <1>3. /\ s \in Seq(Byte) /\ Len(s) = Len(hash) + index + 1
        /\ \A j \in 1..(Len(hash) + index) : s[j] = Absorbed[j]
        /\ s[Len(hash) + index + 1] = b
    <2>1. /\ s \in Seq(Byte) /\ Len(s) = Len(Absorbed) + 1
          /\ \A j \in 1..Len(Absorbed) : s[j] = Absorbed[j]
          /\ s[Len(Absorbed) + 1] = b
      BY <1>2, AppendProperties
    <2> QED
      BY <1>2, <2>1
  <1> HIDE DEF s
  <1>4. /\ Filled(b) \in [1..BlockSize -> Byte] /\ Filled(b)[index + 1] = b
        /\ \A j \in 1..index : Filled(b)[j] = block[j]
    BY <1>1 DEF Filled
  <1>5. CASE LastByte
    <2>1. hash' = hash \o Filled(b) /\ index' = 0 /\ block' = Filled(b)
      BY <1>5 DEF PushByte, sha256_solve_block
    <2>2. Filled(b) \in Seq(Byte) /\ Len(Filled(b)) = BlockSize
      BY <1>4, BlockIsSeq
    <2>3. /\ hash' \in Seq(Byte) /\ Len(hash') = Len(hash) + BlockSize
          /\ \A j \in 1..(Len(hash) + BlockSize) : hash'[j] =
               IF j <= Len(hash) THEN hash[j] ELSE Filled(b)[j - Len(hash)]
      BY <1>1, <2>1, <2>2, ConcatProperties
    <2>4. Len(hash') % BlockSize = 0
      BY <1>1, <2>3, WholeFacts
    <2>5. Absorbed' = hash'
      <3>1. SubSeq(block', 1, index') = <<>>
        BY <2>1, SubSeqEmpty
      <3> QED
        BY <2>3, <3>1, ConcatEmptySeq DEF Absorbed
    <2>6. hash' = s
      <3>1. Len(hash') = Len(s)
        <4>1. index + 1 = BlockSize
          BY <1>5 DEF LastByte
        <4>2. Len(hash) + BlockSize = Len(hash) + index + 1
          BY <1>1, <4>1
        <4> QED
          BY <1>3, <2>3, <4>2
      <3>2. ASSUME NEW j \in 1..Len(hash')
            PROVE  hash'[j] = s[j]
        <4>1. index + 1 = BlockSize
          BY <1>5 DEF LastByte
        <4>2. CASE j <= Len(hash)
          <5>1. /\ j \in 1..Len(hash) /\ j \in 1..(Len(hash) + index)
                /\ j \in 1..(Len(hash) + BlockSize)
            BY <1>1, <3>2, <2>3, <4>2
          <5> QED
            BY <1>2, <1>3, <2>3, <4>2, <5>1
        <4>3. CASE j > Len(hash) /\ j <= Len(hash) + index
          <5>1. j - Len(hash) \in 1..index /\ j = Len(hash) + (j - Len(hash))
            BY <1>1, <3>2, <4>3
          <5>2. hash'[j] = block[j - Len(hash)]
            BY <1>1, <1>4, <2>3, <3>2, <4>1, <4>3, <5>1
          <5>3. s[j] = Absorbed[j]
            BY <1>1, <1>3, <3>2, <4>3
          <5> QED
            BY <1>2, <5>1, <5>2, <5>3
        <4>4. CASE j = Len(hash) + index + 1
          BY <1>1, <1>3, <1>4, <2>3, <4>1, <4>4
        <4>5. j \in Nat /\ j <= Len(hash) + index + 1
          BY <1>1, <2>3, <3>2, <4>1
        <4> QED
          BY <1>1, <4>2, <4>3, <4>4, <4>5
      <3> QED
        BY <1>3, <2>3, <3>1, <3>2, SeqEqual
    <2> QED
      BY <1>1, <1>4, <2>1, <2>3, <2>4, <2>5, <2>6 DEF s
  <1>6. CASE ~LastByte
    <2>1. hash' = hash /\ index' = index + 1 /\ block' = Filled(b)
      BY <1>6 DEF PushByte
    <2>2. index + 1 \in 0..(BlockSize - 1) /\ index + 1 \in 0..BlockSize
      BY <1>1, <1>6 DEF LastByte
    <2> DEFINE t == SubSeq(Filled(b), 1, index + 1)
    <2>3. /\ t \in Seq(Byte) /\ Len(t) = index + 1
          /\ \A j \in 1..(index + 1) : t[j] = Filled(b)[j]
      BY <1>4, <2>2, Started
    <2> HIDE DEF t
    <2>4. Absorbed' = hash \o t
      BY <2>1 DEF Absorbed, t
    <2>5. /\ hash \o t \in Seq(Byte) /\ Len(hash \o t) = Len(hash) + index + 1
          /\ \A j \in 1..(Len(hash) + index + 1) : (hash \o t)[j] =
               IF j <= Len(hash) THEN hash[j] ELSE t[j - Len(hash)]
      <3>1. /\ hash \o t \in Seq(Byte) /\ Len(hash \o t) = Len(hash) + Len(t)
            /\ \A j \in 1..(Len(hash) + Len(t)) : (hash \o t)[j] =
                 IF j <= Len(hash) THEN hash[j] ELSE t[j - Len(hash)]
        BY <1>1, <2>3, ConcatProperties
      <3>2. Len(hash) + Len(t) = Len(hash) + index + 1
        BY <1>1, <2>3
      <3> QED
        BY <3>1, <3>2
    <2>6. hash \o t = s
      <3>1. ASSUME NEW j \in 1..Len(hash \o t)
            PROVE  (hash \o t)[j] = s[j]
        <4>1. CASE j <= Len(hash)
          <5>1. /\ j \in 1..Len(hash) /\ j \in 1..(Len(hash) + index)
                /\ j \in 1..(Len(hash) + index + 1)
            BY <1>1, <3>1, <2>5, <4>1
          <5> QED
            BY <1>2, <1>3, <2>5, <4>1, <5>1
        <4>2. CASE j > Len(hash) /\ j <= Len(hash) + index
          <5>1. j - Len(hash) \in 1..index /\ j = Len(hash) + (j - Len(hash))
            BY <1>1, <3>1, <4>2
          <5>2. (hash \o t)[j] = block[j - Len(hash)]
            BY <1>1, <1>4, <2>3, <2>5, <3>1, <4>2, <5>1
          <5>3. s[j] = Absorbed[j]
            BY <1>1, <1>3, <3>1, <4>2
          <5> QED
            BY <1>2, <5>1, <5>2, <5>3
        <4>3. CASE j = Len(hash) + index + 1
          BY <1>1, <1>3, <1>4, <2>3, <2>5, <4>3
        <4>4. j \in Nat /\ j <= Len(hash) + index + 1
          BY <1>1, <2>5, <3>1
        <4> QED
          BY <1>1, <4>1, <4>2, <4>3, <4>4
      <3> QED
        BY <1>3, <2>5, <3>1, SeqEqual
    <2> QED
      BY <1>1, <1>4, <2>1, <2>2, <2>4, <2>6 DEF s
  <1> QED
    BY <1>5, <1>6
-----------------------------------------------------------------------------
(* sha256_finish *)

(* The fields of the context that sha256_finish leaves. *)
LEMMA FinishedFields ==
  ASSUME NEW c \in Contexts
  PROVE  LET r == Finished(c)
             tail == Sized(IF NeedsTwo(c.index) THEN Zeros(BlockSize) ELSE Ending(c),
                           c.msglen)
         IN  /\ r.hash = IF NeedsTwo(c.index) THEN (c.hash \o Ending(c)) \o tail
                                              ELSE c.hash \o tail
             /\ r.block = tail /\ r.index = 0 /\ r.msglen = c.msglen
  BY DEF Finished, Contexts, sha256_solve_block

LEMMA LastBlocks ==
  ASSUME NEW c \in Contexts
  PROVE  /\ Ending(c) \in [1..BlockSize -> Byte]
         /\ Sized(Ending(c), c.msglen) \in [1..BlockSize -> Byte]
         /\ Sized(Zeros(BlockSize), c.msglen) \in [1..BlockSize -> Byte]
  <1>1. Zero \in Byte /\ <<"pad", 128>> \in Byte /\ <<"size", c.msglen>> \in Byte
    BY DEF Byte, Contexts
  <1>2. c.index \in 0..(BlockSize - 1) /\ c.block \in [1..BlockSize -> Byte]
    BY DEF Contexts
  <1>3. Ending(c) \in [1..BlockSize -> Byte]
    BY <1>1, <1>2, SizeAssumption DEF Ending
  <1> QED
    BY <1>1, <1>3, FreshContext DEF Sized

(* The number of bytes of the padded message: whole blocks, one more than  *)
(* were compressed, or two if the length does not fit.                     *)
LEMMA PaddedLength ==
  ASSUME NEW c \in Contexts
  PROVE  LET size == BlockSize - SizeOff
             n == Len(Holds(c))
         IN  ((n + size + BlockSize) \div BlockSize) * BlockSize =
               IF NeedsTwo(c.index) THEN Len(c.hash) + BlockSize + BlockSize
                                    ELSE Len(c.hash) + BlockSize
  <1> DEFINE h == Len(c.hash)
             k == c.index
             size == BlockSize - SizeOff
  <1>1. /\ h \in Nat /\ h % BlockSize = 0 /\ k \in 0..(BlockSize - 1)
        /\ BlockSize \in Nat /\ BlockSize > 0 /\ SizeOff \in 1..(BlockSize - 1)
    BY SizeAssumption DEF Contexts
  <1>2. Len(Holds(c)) = h + k
    BY HoldsFacts
  <1> HIDE DEF h, k
  <1>3. (h + BlockSize) % BlockSize = 0 /\ h + BlockSize \in Nat
    BY <1>1, WholeFacts
  <1>4. (h + BlockSize + BlockSize) % BlockSize = 0 /\ h + BlockSize + BlockSize \in Nat
    BY <1>1, <1>3, WholeFacts
  <1>5. CASE NeedsTwo(k)
    <2>1. k + size - BlockSize \in 0..(BlockSize - 1)
      BY <1>1, <1>5 DEF NeedsTwo
    <2>2. (((h + BlockSize + BlockSize) + (k + size - BlockSize)) \div BlockSize) * BlockSize
            = h + BlockSize + BlockSize
      BY <1>1, <1>4, <2>1, WholeFacts
    <2>3. (h + BlockSize + BlockSize) + (k + size - BlockSize) = h + k + size + BlockSize
      BY <1>1
    <2> QED
      BY <1>2, <1>5, <2>2, <2>3 DEF h, k
  <1>6. CASE ~NeedsTwo(k)
    <2>1. k + size \in 0..(BlockSize - 1)
      BY <1>1, <1>6 DEF NeedsTwo
    <2>2. (((h + BlockSize) + (k + size)) \div BlockSize) * BlockSize = h + BlockSize
      BY <1>1, <1>3, <2>1, WholeFacts
    <2>3. (h + BlockSize) + (k + size) = h + k + size + BlockSize
      BY <1>1
    <2> QED
      BY <1>2, <1>6, <2>2, <2>3 DEF h, k
  <1> QED
    BY <1>5, <1>6

LEMMA ByteAfter ==
  ASSUME NEW c \in Contexts, NEW j \in 1..BlockSize
  PROVE  /\ j <= c.index => Ending(c)[j] = c.block[j]
         /\ j = c.index + 1 => Ending(c)[j] = <<"pad", 128>>
         /\ j > c.index + 1 => Ending(c)[j] = Zero
         /\ Zeros(BlockSize)[j] = Zero
         /\ \A b \in [1..BlockSize -> Byte] :
              Sized(b, c.msglen)[j] = IF j > SizeOff THEN <<"size", c.msglen>> ELSE b[j]
  <1>1. c.index \in Nat /\ BlockSize \in Nat
    BY SizeAssumption DEF Contexts
  <1> QED
    BY <1>1 DEF Ending, Zeros, Sized

(* After sha256_finish the blocks compressed are the padded message. *)
LEMMA FinishPads ==
  ASSUME NEW c \in Contexts
  PROVE  /\ Finished(c) \in Contexts
         /\ c.msglen = Len(Holds(c)) => Finished(c).hash = Padding(Holds(c))
  <1> DEFINE s == Holds(c)
             h == Len(c.hash)
             k == c.index
             e == Ending(c)
             two == NeedsTwo(c.index)
             base == IF two THEN Zeros(BlockSize) ELSE e
             tail == Sized(base, c.msglen)
             r == Finished(c)
             total == IF two THEN h + BlockSize + BlockSize ELSE h + BlockSize
  <1>1. /\ c.hash \in Seq(Byte) /\ h \in Nat /\ h % BlockSize = 0
        /\ k \in 0..(BlockSize - 1) /\ BlockSize \in Nat /\ BlockSize > 0
        /\ SizeOff \in 1..(BlockSize - 1) /\ c.msglen \in 0..(MsgMod - 1)
    BY SizeAssumption DEF Contexts
  <1>2. /\ s \in Seq(Byte) /\ Len(s) = h + k
        /\ \A j \in 1..h : s[j] = c.hash[j]
        /\ \A j \in 1..k : s[h + j] = c.block[j]
    BY HoldsFacts
  <1>3. /\ e \in [1..BlockSize -> Byte] /\ tail \in [1..BlockSize -> Byte]
        /\ base \in [1..BlockSize -> Byte]
    BY LastBlocks, FreshContext
  <1>4. e \in Seq(Byte) /\ Len(e) = BlockSize /\ tail \in Seq(Byte) /\ Len(tail) = BlockSize
    BY <1>3, BlockIsSeq
  <1>5. /\ r.hash = IF two THEN (c.hash \o e) \o tail ELSE c.hash \o tail
        /\ r.block = tail /\ r.index = 0 /\ r.msglen = c.msglen
    BY FinishedFields
  <1>6. \A j \in 1..BlockSize :
          /\ j <= k => e[j] = c.block[j]
          /\ j = k + 1 => e[j] = <<"pad", 128>>
          /\ j > k + 1 => e[j] = Zero
          /\ tail[j] = IF j > SizeOff THEN <<"size", c.msglen>>
                       ELSE IF two THEN Zero ELSE e[j]
    <2> TAKE j \in 1..BlockSize
    <2> HIDE DEF base
    <2>1. /\ j <= k => e[j] = c.block[j]
          /\ j = k + 1 => e[j] = <<"pad", 128>>
          /\ j > k + 1 => e[j] = Zero
          /\ Zeros(BlockSize)[j] = Zero
          /\ tail[j] = IF j > SizeOff THEN <<"size", c.msglen>> ELSE base[j]
      BY <1>3, ByteAfter
    <2> QED
      BY <2>1 DEF base
  <1>7. ASSUME c.msglen = Len(s)
        PROVE  Padding(s) = [j \in 1..total |->
                               IF j <= h + k THEN s[j]
                               ELSE IF j = h + k + 1 THEN <<"pad", 128>>
                               ELSE IF j > total - (BlockSize - SizeOff) THEN <<"size", c.msglen>>
                               ELSE Zero]
    <2>1. total = ((Len(s) + (BlockSize - SizeOff) + BlockSize) \div BlockSize) * BlockSize
      BY PaddedLength
    <2> HIDE DEF total, s
    <2> QED
      BY <1>2, <1>7, <2>1 DEF Padding, s
  <1>8. two <=> k >= SizeOff
    BY DEF NeedsTwo
  <1>9. ASSUME r.hash \in Seq(Byte), Len(r.hash) % BlockSize = 0
        PROVE  r \in Contexts
    <2>1. r = [hash |-> r.hash, block |-> r.block, index |-> r.index, msglen |-> r.msglen]
      <3> DEFINE x == IF two THEN sha256_solve_block(c.hash, e) ELSE c.hash
      <3>1. r = [c EXCEPT !.hash = sha256_solve_block(x, tail), !.block = tail, !.index = 0]
        BY DEF Finished
      <3> HIDE DEF x, tail, r
      <3> QED
        BY <3>1 DEF Contexts
    <2>2. /\ r.hash \in {x \in Seq(Byte) : Len(x) % BlockSize = 0}
          /\ r.block \in [1..BlockSize -> Byte] /\ r.index \in 0..(BlockSize - 1)
          /\ r.msglen \in 0..(MsgMod - 1)
      <3>1. r.block = tail /\ r.index = 0 /\ r.msglen = c.msglen
        BY <1>5
      <3>2. tail \in [1..BlockSize -> Byte]
        BY <1>3
      <3> HIDE DEF r, tail
      <3>3. r.hash \in {x \in Seq(Byte) : Len(x) % BlockSize = 0}
        BY <1>9
      <3>4. r.index \in 0..(BlockSize - 1)
        BY <1>1, <3>1
      <3> QED
        BY <1>1, <3>1, <3>2, <3>3, <3>4
    <2> HIDE DEF r
    <2> QED
      BY <2>1, <2>2 DEF Contexts
  <1> HIDE DEF s, h, k, e, two, tail, r
  <1>10. CASE two
    <2> DEFINE p == c.hash \o e
               t == p \o tail
    <2>1. /\ p \in Seq(Byte) /\ Len(p) = h + BlockSize /\ h + BlockSize \in Nat
          /\ \A j \in 1..h : p[j] = c.hash[j]
          /\ \A j \in 1..BlockSize : p[h + j] = e[j]
      <3>1. /\ c.hash \in Seq(Byte) /\ h \in Nat /\ Len(c.hash) = h
            /\ e \in [1..BlockSize -> Byte]
        BY <1>1, <1>3 DEF h
      <3>2. \A g \in Seq(Byte), m \in Nat : Len(g) = m =>
              /\ g \o e \in Seq(Byte) /\ Len(g \o e) = m + BlockSize
              /\ m + BlockSize \in Nat
              /\ \A j \in 1..m : (g \o e)[j] = g[j]
              /\ \A j \in 1..BlockSize : (g \o e)[m + j] = e[j]
        BY <3>1, BlockAdded
      <3> QED
        BY <3>1, <3>2, Zenon
    <2> HIDE DEF p
    <2>2. /\ t \in Seq(Byte) /\ Len(t) = h + BlockSize + BlockSize
          /\ \A j \in 1..(h + BlockSize) : t[j] = p[j]
          /\ \A j \in 1..BlockSize : t[h + BlockSize + j] = tail[j]
      BY <1>3, <2>1, BlockAdded
    <2>3. r.hash = t
      BY <1>5, <1>10 DEF p
    <2> HIDE DEF t
    <2>4. Len(t) % BlockSize = 0
      <3>1. (h + BlockSize) % BlockSize = 0
        BY <1>1, WholeFacts
      <3>2. (h + BlockSize + BlockSize) % BlockSize = 0
        BY <1>1, <2>1, <3>1, WholeFacts
      <3> QED
        BY <2>2, <3>2
    <2>5. ASSUME c.msglen = Len(s)
          PROVE  t = Padding(s)
      <3> DEFINE q == [j \in 1..(h + BlockSize + BlockSize) |->
                         IF j <= h + k THEN s[j]
                         ELSE IF j = h + k + 1 THEN <<"pad", 128>>
                         ELSE IF j > (h + BlockSize + BlockSize) - (BlockSize - SizeOff)
                           THEN <<"size", c.msglen>>
                         ELSE Zero]
      <3>1. Padding(s) = q
        BY <1>7, <1>10, <2>5
      <3>2. DOMAIN t = 1..(h + BlockSize + BlockSize) /\ t = [j \in DOMAIN t |-> t[j]]
        BY <2>2, LenProperties
      <3>3. ASSUME NEW j \in 1..(h + BlockSize + BlockSize)
            PROVE  t[j] = q[j]
        <4>1. CASE j <= h
          <5>1. j \in 1..h /\ j \in 1..(h + BlockSize) /\ j <= h + k
            BY <1>1, <3>3, <4>1
          <5> QED
            BY <1>2, <2>1, <2>2, <3>3, <5>1
        <4>2. CASE j > h /\ j <= h + BlockSize
          <5> DEFINE i0 == j - h
          <5>1. i0 \in 1..BlockSize /\ j = h + i0 /\ j \in 1..(h + BlockSize)
            BY <1>1, <3>3, <4>2
          <5>2. t[j] = e[i0]
            BY <2>1, <2>2, <5>1
          <5> HIDE DEF i0
          <5>3. CASE i0 <= k
            <6>1. i0 \in 1..k /\ j <= h + k
              BY <1>1, <5>1, <5>3
            <6> QED
              BY <1>2, <1>6, <3>3, <5>1, <5>2, <5>3, <6>1
          <5>4. CASE i0 = k + 1
            <6>1. ~(j <= h + k) /\ j = h + k + 1
              BY <1>1, <5>1, <5>4
            <6> QED
              BY <1>6, <3>3, <5>1, <5>2, <5>4, <6>1
          <5>5. CASE i0 > k + 1
            <6>1. /\ ~(j <= h + k) /\ j # h + k + 1
                  /\ ~(j > (h + BlockSize + BlockSize) - (BlockSize - SizeOff))
              BY <1>1, <5>1, <5>5
            <6> QED
              BY <1>6, <3>3, <5>1, <5>2, <5>5, <6>1
          <5> QED
            BY <1>1, <5>1, <5>3, <5>4, <5>5
        <4>3. CASE j > h + BlockSize
          <5> DEFINE i0 == j - (h + BlockSize)
          <5>1. i0 \in 1..BlockSize /\ j = h + BlockSize + i0
            BY <1>1, <3>3, <4>3
          <5>2. t[j] = IF i0 > SizeOff THEN <<"size", c.msglen>> ELSE Zero
            BY <1>6, <1>10, <2>2, <5>1
          <5>3. /\ ~(j <= h + k) /\ j # h + k + 1
                /\ j > (h + BlockSize + BlockSize) - (BlockSize - SizeOff) <=> i0 > SizeOff
            BY <1>1, <5>1
          <5> HIDE DEF i0
          <5> QED
            BY <3>3, <5>2, <5>3
        <4> QED
          BY <1>1, <3>3, <4>1, <4>2, <4>3
      <3> HIDE DEF q
      <3> QED
        BY <3>1, <3>2, <3>3 DEF q
    <2> QED
      BY <1>9, <2>2, <2>3, <2>4, <2>5 DEF s, r
  <1>11. CASE ~two
    <2> DEFINE t == c.hash \o tail
    <2>1. /\ t \in Seq(Byte) /\ Len(t) = h + BlockSize
          /\ \A j \in 1..h : t[j] = c.hash[j]
          /\ \A j \in 1..BlockSize : t[h + j] = tail[j]
      <3>1. /\ c.hash \in Seq(Byte) /\ h \in Nat /\ Len(c.hash) = h
            /\ tail \in [1..BlockSize -> Byte]
        BY <1>1, <1>3 DEF h
      <3>2. \A g \in Seq(Byte), m \in Nat : Len(g) = m =>
              /\ g \o tail \in Seq(Byte) /\ Len(g \o tail) = m + BlockSize
              /\ m + BlockSize \in Nat
              /\ \A j \in 1..m : (g \o tail)[j] = g[j]
              /\ \A j \in 1..BlockSize : (g \o tail)[m + j] = tail[j]
        BY <3>1, BlockAdded
      <3> QED
        BY <3>1, <3>2, Zenon
    <2>2. r.hash = t
      BY <1>5, <1>11
    <2> HIDE DEF t
    <2>3. Len(t) % BlockSize = 0
      <3>1. (h + BlockSize) % BlockSize = 0
        BY <1>1, WholeFacts
      <3> QED
        BY <2>1, <3>1
    <2>4. ASSUME c.msglen = Len(s)
          PROVE  t = Padding(s)
      <3> DEFINE q == [j \in 1..(h + BlockSize) |->
                         IF j <= h + k THEN s[j]
                         ELSE IF j = h + k + 1 THEN <<"pad", 128>>
                         ELSE IF j > (h + BlockSize) - (BlockSize - SizeOff)
                           THEN <<"size", c.msglen>>
                         ELSE Zero]
      <3>1. Padding(s) = q
        BY <1>7, <1>11, <2>4
      <3>2. DOMAIN t = 1..(h + BlockSize) /\ t = [j \in DOMAIN t |-> t[j]]
        BY <2>1, LenProperties
      <3>3. ASSUME NEW j \in 1..(h + BlockSize)
            PROVE  t[j] = q[j]
        <4>1. CASE j <= h
          <5>1. j \in 1..h /\ j <= h + k
            BY <1>1, <3>3, <4>1
          <5> QED
            BY <1>2, <2>1, <3>3, <5>1
        <4>2. CASE j > h
          <5> DEFINE i0 == j - h
          <5>1. i0 \in 1..BlockSize /\ j = h + i0
            BY <1>1, <3>3, <4>2
          <5>2. t[j] = IF i0 > SizeOff THEN <<"size", c.msglen>> ELSE e[i0]
            BY <1>6, <1>11, <2>1, <5>1
          <5>3. j > (h + BlockSize) - (BlockSize - SizeOff) <=> i0 > SizeOff
            BY <1>1, <5>1
          <5> HIDE DEF i0
          <5>4. CASE i0 <= k
            <6>1. i0 \in 1..k /\ j <= h + k /\ ~(i0 > SizeOff)
              BY <1>1, <1>8, <1>11, <5>1, <5>4
            <6> QED
              BY <1>2, <1>6, <3>3, <5>1, <5>2, <5>4, <6>1
          <5>5. CASE i0 = k + 1
            <6>1. ~(j <= h + k) /\ j = h + k + 1 /\ ~(i0 > SizeOff)
              BY <1>1, <1>8, <1>11, <5>1, <5>5
            <6> QED
              BY <1>6, <3>3, <5>1, <5>2, <5>5, <6>1
          <5>6. CASE i0 > k + 1
            <6>1. ~(j <= h + k) /\ j # h + k + 1
              BY <1>1, <5>1, <5>6
            <6> QED
              BY <1>6, <3>3, <5>1, <5>2, <5>3, <5>6, <6>1
          <5> QED
            BY <1>1, <5>1, <5>4, <5>5, <5>6
        <4> QED
          BY <1>1, <3>3, <4>1, <4>2
      <3> HIDE DEF q
      <3> QED
        BY <3>1, <3>2, <3>3 DEF q
    <2> QED
      BY <1>9, <2>1, <2>2, <2>3, <2>4 DEF s, r
  <1> QED
    BY <1>10, <1>11
-----------------------------------------------------------------------------
(* The bytes of sha256_begin and sha256_cont_then_sha256_result *)

LEMMA PushedFacts ==
  ASSUME NEW c \in Contexts, NEW b \in Seq(Byte)
  PROVE  /\ Pushed(c, b) \in Contexts
         /\ Pushed(c, b).msglen = (c.msglen + Len(b)) % MsgMod
         /\ Holds(Pushed(c, b)) = Holds(c) \o b
  <1> DEFINE start == SubSeq(c.block, 1, c.index)
             all == start \o b
             n == Len(all)
             r == n % BlockSize
             full == n - r
             blk == [j \in 1..BlockSize |->
                       IF j <= r THEN all[full + j]
                       ELSE IF full = 0 THEN c.block[j] ELSE all[full - BlockSize + j]]
             head == SubSeq(all, 1, full)
             tail == SubSeq(all, full + 1, n)
             len1 == (c.msglen + Len(b)) % MsgMod
  <1>1. /\ c.hash \in Seq(Byte) /\ Len(c.hash) \in Nat /\ Len(c.hash) % BlockSize = 0
        /\ c.block \in [1..BlockSize -> Byte] /\ c.index \in 0..BlockSize
        /\ c.msglen \in Nat /\ Len(b) \in Nat
        /\ BlockSize \in Nat /\ BlockSize > 0 /\ MsgMod \in Nat /\ MsgMod > 0
    BY SizeAssumption DEF Contexts
  <1>2. start \in Seq(Byte)
    BY <1>1, Started
  <1>3. all \in Seq(Byte) /\ n \in Nat
    <2> HIDE DEF start
    <2> QED
      BY <1>2, ConcatProperties, LenProperties
  <1>4. Pushed(c, b) = [hash |-> c.hash \o head, block |-> blk, index |-> r, msglen |-> len1]
    BY DEF Pushed
  <1> HIDE DEF all
  <1>5. r \in 0..(BlockSize - 1) /\ full \in Nat /\ full % BlockSize = 0 /\ full \in 0..n
    <2>1. r \in 0..(BlockSize - 1) /\ full \in Nat /\ full % BlockSize = 0
      BY <1>1, <1>3, ModFacts, WholeFacts
    <2> HIDE DEF r, n
    <2> QED
      BY <1>3, <2>1
  <1>6. full # 0 => full >= BlockSize
    <2> HIDE DEF full
    <2>1. full < BlockSize => full % BlockSize = full
      BY <1>1, <1>5, ModFacts
    <2> QED
      BY <1>1, <1>5, <2>1
  <1>7. full + r = n
    <2> HIDE DEF r, n
    <2> QED
      BY <1>1, <1>3, <1>5
  <1> HIDE DEF r, full, n
  <1>8. /\ head \in Seq(Byte) /\ Len(head) = full
        /\ tail \in Seq(Byte) /\ Len(tail) = r
        /\ \A j \in 1..r : tail[j] = all[full + j]
    <2>1. \A j \in 1..n : all[j] \in Byte
      BY <1>3, ElementOfSeq DEF n
    <2>2. head \in Seq(Byte) /\ Len(head) = full
      <3>1. \A j \in 1..full : all[j] \in Byte
        BY <1>3, <1>5, <2>1
      <3> QED
        BY <1>5, <3>1, SubSeqProperties
    <2>3. /\ tail \in Seq(Byte)
          /\ Len(tail) = IF full + 1 <= n THEN n - (full + 1) + 1 ELSE 0
          /\ \A j \in 1..(n - (full + 1) + 1) : tail[j] = all[(full + 1) + j - 1]
      <3>1. \A j \in (full + 1)..n : all[j] \in Byte
        BY <1>3, <1>5, <2>1
      <3>2. full + 1 \in Int /\ n \in Int
        BY <1>3, <1>5
      <3> QED
        BY <3>1, <3>2, SubSeqProperties
    <2> HIDE DEF tail, head
    <2>4. Len(tail) = r /\ n - (full + 1) + 1 = r
      BY <1>3, <1>5, <1>7, <2>3
    <2>5. \A j \in 1..r : (full + 1) + j - 1 = full + j
      BY <1>5
    <2> QED
      BY <2>2, <2>3, <2>4, <2>5
  <1>9. blk \in [1..BlockSize -> Byte]
    <2>1. ASSUME NEW j \in 1..BlockSize
          PROVE  (IF j <= r THEN all[full + j]
                  ELSE IF full = 0 THEN c.block[j] ELSE all[full - BlockSize + j]) \in Byte
      <3>1. CASE j <= r
        <4>1. full + j \in 1..n
          BY <1>3, <1>5, <1>7, <2>1, <3>1
        <4> QED
          BY <1>3, <3>1, <4>1, ElementOfSeq DEF n
      <3>2. CASE ~(j <= r) /\ full = 0
        BY <1>1, <2>1, <3>2
      <3>3. CASE ~(j <= r) /\ full # 0
        <4>1. full - BlockSize + j \in 1..n
          BY <1>1, <1>3, <1>5, <1>6, <1>7, <2>1, <3>3
        <4> QED
          BY <1>3, <3>3, <4>1, ElementOfSeq DEF n
      <3> QED
        BY <3>1, <3>2, <3>3
    <2> QED
      BY <2>1
  <1>10. SubSeq(blk, 1, r) = tail
    <2>1. /\ SubSeq(blk, 1, r) \in Seq(Byte) /\ Len(SubSeq(blk, 1, r)) = r
          /\ \A j \in 1..r : SubSeq(blk, 1, r)[j] = blk[j]
      <3>1. r \in 0..BlockSize
        BY <1>1, <1>5
      <3> HIDE DEF blk
      <3> QED
        BY <1>9, <3>1, Started
    <2>2. \A j \in 1..r : blk[j] = all[full + j]
      BY <1>1, <1>5
    <2> HIDE DEF blk, tail
    <2> QED
      BY <1>8, <2>1, <2>2, SeqEqual
  <1>11. head \o tail = all
    <2>1. SubSeq(all, 1, full) \o SubSeq(all, full + 1, Len(all)) = SubSeq(all, 1, Len(all))
      <3>1. /\ 1 \in 1..(Len(all) + 1) /\ full \in (1 - 1)..Len(all)
            /\ Len(all) \in full..Len(all)
        BY <1>3, <1>5 DEF n
      <3> QED
        BY <1>3, <3>1, ConcatAdjacentSubSeq
    <2> QED
      BY <1>3, <2>1, SubSeqFull DEF n
  <1> HIDE DEF head, tail, blk, start
  <1>12. c.hash \o head \in Seq(Byte) /\ Len(c.hash \o head) % BlockSize = 0
    <2>1. c.hash \o head \in Seq(Byte) /\ Len(c.hash \o head) = Len(c.hash) + Len(head)
      <3>1. \A x, y \in Seq(Byte) : x \o y \in Seq(Byte) /\ Len(x \o y) = Len(x) + Len(y)
        BY ConcatProperties
      <3> QED
        BY <1>1, <1>8, <3>1, Zenon
    <2>2. (Len(c.hash) + full) % BlockSize = 0
      BY <1>1, <1>5, WholeSum
    <2> QED
      BY <1>8, <2>1, <2>2
  <1>13. len1 \in 0..(MsgMod - 1)
    BY <1>1, ModFacts
  <1>14. Holds(Pushed(c, b)) = Holds(c) \o b
    <2>1. Holds(Pushed(c, b)) = (c.hash \o head) \o tail
      <3>1. /\ Pushed(c, b).hash = c.hash \o head /\ Pushed(c, b).block = blk
            /\ Pushed(c, b).index = r
        BY <1>4
      <3> QED
        BY <1>10, <3>1, Zenon DEF Holds
    <2>2. \A x, y, z \in Seq(Byte) : (x \o y) \o z = x \o (y \o z)
      BY ConcatAssociative
    <2>3. (c.hash \o head) \o tail = c.hash \o all
      BY <1>1, <1>8, <1>11, <2>2, Zenon
    <2>4. (c.hash \o start) \o b = c.hash \o all
      BY <1>1, <1>2, <2>2, Zenon DEF all
    <2> QED
      BY <2>1, <2>3, <2>4, Zenon DEF Holds, start
  <1>15. c.hash \o head \in {x \in Seq(Byte) : Len(x) % BlockSize = 0}
    BY <1>12
  <1>16. Pushed(c, b) \in Contexts /\ Pushed(c, b).msglen = len1
    <2> HIDE DEF len1
    <2>1. r \in 0..(BlockSize - 1)
      BY <1>5
    <2>2. \A x \in {g \in Seq(Byte) : Len(g) % BlockSize = 0} :
            /\ [hash |-> x, block |-> blk, index |-> r, msglen |-> len1] \in Contexts
            /\ [hash |-> x, block |-> blk, index |-> r, msglen |-> len1].msglen = len1
      BY <1>9, <1>13, <2>1 DEF Contexts
    <2> QED
      BY <1>4, <1>15, <2>2, Zenon
  <1> QED
    BY <1>14, <1>16
-----------------------------------------------------------------------------
(* Each step keeps the invariant *)

LEMMA BytesSeq ==
  ASSUME TypeOK, NEW n \in Nat
  PROVE  Bytes(n) \in Seq(Byte) /\ Len(Bytes(n)) = n
  <1>1. Len(given) \in Nat
    BY DEF TypeOK
  <1>2. \A j \in 1..n : <<"msg", Len(given) + j>> \in Byte
    BY <1>1 DEF Byte
  <1> QED
    BY <1>2, IsASeq DEF Bytes

LEMMA MidSumSeq == MidSum \in Seq(Byte) /\ Len(MidSum) = BlockSize
  <1>1. BlockSize \in Nat /\ HashSize \in 1..BlockSize
    BY SizeAssumption
  <1>2. \A j \in 1..BlockSize :
          (IF j <= HashSize THEN <<"digest", j>> ELSE Stale) \in Byte
    BY <1>1 DEF Byte, Stale
  <1> QED
    BY <1>1, <1>2, IsASeq DEF MidSum

LEMMA TypeFacts ==
  ASSUME TypeOK
  PROVE  /\ Absorbed \in Seq(Byte) /\ hash \in Seq(Byte) /\ msg \in Seq(Byte)
         /\ given \in Seq(Byte) /\ Len(given) \in Nat /\ Len(msg) \in Nat
         /\ BlockSize \in Nat /\ BlockSize > 0 /\ MsgMod \in Nat /\ BlockSize < MsgMod
         /\ i \in Nat /\ len \in 0..(MsgMod - 1) /\ index \in 0..(BlockSize - 1)
         /\ msglen \in 0..(MsgMod - 1)
  <1>1. Absorbed \in Seq(Byte)
    BY CurrentContext, HoldsFacts
  <1> QED
    BY <1>1, SizeAssumption DEF TypeOK

(* What a loop step takes from the message and what it leaves. *)
LEMMA TakenFacts ==
  ASSUME TypeOK, NEW n \in 1..BlockSize
  PROVE  /\ Taken(n) \in [1..n -> Byte] /\ Left(n) \in Seq(Byte)
         /\ n <= Len(msg) => /\ Taken(n) = SubSeq(msg, 1, n)
                             /\ Len(Left(n)) = Len(msg) - n
                             /\ Taken(n) \o Left(n) = msg
  <1>1. /\ msg \in Seq(Byte) /\ Len(msg) \in Nat /\ n \in Nat /\ n > 0
        /\ \A j \in 1..Len(msg) : msg[j] \in Byte
    BY TypeFacts, ElementOfSeq, SizeAssumption
  <1>2. Taken(n) \in [1..n -> Byte]
    BY <1>1 DEF Taken, Byte
  <1>3. /\ Left(n) \in Seq(Byte)
        /\ Len(Left(n)) = IF n + 1 <= Len(msg) THEN Len(msg) - (n + 1) + 1 ELSE 0
    <2>1. \A j \in (n + 1)..Len(msg) : msg[j] \in Byte
      BY <1>1
    <2>2. n + 1 \in Int /\ Len(msg) \in Int
      BY <1>1
    <2> QED
      BY <2>1, <2>2, SubSeqProperties DEF Left
  <1>4. ASSUME n <= Len(msg)
        PROVE  /\ Taken(n) = SubSeq(msg, 1, n)
               /\ Len(Left(n)) = Len(msg) - n
               /\ Taken(n) \o Left(n) = msg
    <2>1. /\ SubSeq(msg, 1, n) \in Seq(Byte) /\ Len(SubSeq(msg, 1, n)) = n
          /\ \A j \in 1..n : SubSeq(msg, 1, n)[j] = msg[j]
      <3>1. \A j \in 1..n : msg[j] \in Byte
        BY <1>1, <1>4
      <3> QED
        BY <1>1, <3>1, SubSeqProperties
    <2>2. Taken(n) \in Seq(Byte) /\ Len(Taken(n)) = n
      BY <1>1, <1>2
    <2>3. \A j \in 1..n : Taken(n)[j] = msg[j]
      BY <1>1, <1>4 DEF Taken
    <2>4. Taken(n) = SubSeq(msg, 1, n)
      BY <2>1, <2>2, <2>3, SeqEqual
    <2>5. Len(Left(n)) = Len(msg) - n
      BY <1>1, <1>3, <1>4
    <2>6. SubSeq(msg, 1, n) \o SubSeq(msg, n + 1, Len(msg)) = SubSeq(msg, 1, Len(msg))
      <3>1. /\ 1 \in 1..(Len(msg) + 1) /\ n \in (1 - 1)..Len(msg)
            /\ Len(msg) \in n..Len(msg)
        BY <1>1, <1>4
      <3> QED
        BY <1>1, <3>1, ConcatAdjacentSubSeq
    <2> QED
      BY <1>1, <2>4, <2>5, <2>6, SubSeqFull DEF Left
  <1> QED
    BY <1>2, <1>3, <1>4

LEMMA InitInv == Init => Inv
  <1> SUFFICES ASSUME Init
               PROVE  Inv
    OBVIOUS
  <1>1. /\ hash = <<>> /\ block = Zeros(BlockSize) /\ index = 0 /\ msglen = 0
        /\ msg = <<>> /\ i = 0 /\ len = 0 /\ pc = "idle" /\ given = <<>>
        /\ calls = 0 /\ straddled = FALSE /\ inner = NoInner
    BY DEF Init
  <1>2. TypeOK
    <2>1. /\ hash \in Seq(Byte) /\ Len(hash) % BlockSize = 0
          /\ block \in [1..BlockSize -> Byte]
      BY <1>1, FreshContext
    <2>2. inner \in [msg : Seq(Byte), hash : Seq(Byte)] /\ msg \in Seq(Byte)
          /\ given \in Seq(Byte)
      BY <1>1, EmptySeq DEF NoInner
    <2>3. /\ index \in 0..(BlockSize - 1) /\ msglen \in 0..(MsgMod - 1)
          /\ i \in Nat /\ len \in 0..(MsgMod - 1) /\ calls \in 0..MaxCalls
      BY <1>1, SizeAssumption
    <2> QED
      BY <1>1, <2>1, <2>2, <2>3 DEF TypeOK
  <1>3. Absorbed = given
    BY <1>1, FreshContext DEF Absorbed, Holds, Fresh
  <1> QED
    BY <1>1, <1>2, <1>3, EmptySeq
       DEF Inv, InnerInv, Streams, PaddedRight, LoopInv

LEMMA ResetInv ==
  ASSUME Inv, sha256_reset
  PROVE  Inv'
  <1>1. /\ hash' = <<>> /\ block' = Zeros(BlockSize) /\ index' = 0 /\ msglen' = 0
        /\ UNCHANGED <<msg, i, len>> /\ pc' = "idle" /\ given' = <<>>
        /\ calls' = 0 /\ straddled' = FALSE /\ inner' = NoInner
    BY DEF sha256_reset, locals
  <1>2. TypeOK'
    <2>1. /\ hash' \in Seq(Byte) /\ Len(hash') % BlockSize = 0
          /\ block' \in [1..BlockSize -> Byte]
      BY <1>1, FreshContext
    <2>2. inner' \in [msg : Seq(Byte), hash : Seq(Byte)] /\ given' \in Seq(Byte)
      BY <1>1, EmptySeq DEF NoInner
    <2>3. /\ index' \in 0..(BlockSize - 1) /\ msglen' \in 0..(MsgMod - 1)
          /\ calls' \in 0..MaxCalls
      BY <1>1, SizeAssumption
    <2> QED
      BY <1>1, <2>1, <2>2, <2>3 DEF TypeOK, Inv
  <1>3. Absorbed' = given'
    BY <1>1, FreshContext DEF Absorbed, Holds, Fresh
  <1> QED
    BY <1>1, <1>2, <1>3, EmptySeq
       DEF Inv, InnerInv, Streams, PaddedRight, LoopInv

LEMMA UpdateInv ==
  ASSUME Inv, NEW n \in Lens, sha256_update(n)
  PROVE  Inv'
  <1>1. /\ pc = "idle" /\ calls < MaxCalls /\ n > 0 /\ (msglen + n) % MsgMod >= msglen
        /\ msglen' = (msglen + n) % MsgMod /\ msg' = Bytes(n) /\ i' = 0 /\ len' = n
        /\ pc' = FirstLoop /\ given' = given \o Bytes(n) /\ calls' = calls + 1
        /\ straddled' = (straddled \/ (index # 0 /\ index + n > BlockSize))
        /\ UNCHANGED <<hash, block, index, inner>>
    BY DEF sha256_update
  <1>2. n \in 0..(MsgMod - 1) /\ n \in Nat /\ TypeOK
    BY SizeAssumption DEF Inv
  <1>3. Bytes(n) \in Seq(Byte) /\ Len(Bytes(n)) = n
    BY <1>2, BytesSeq
  <1>4. given' \in Seq(Byte) /\ Len(given') = Len(given) + n
    <2>1. given' \in Seq(Byte) /\ Len(given') = Len(given) + Len(Bytes(n))
      BY <1>1, <1>2, <1>3, TypeFacts, ConcatProperties
    <2> QED
      BY <1>3, <2>1
  <1>5. /\ msglen' \in 0..(MsgMod - 1) /\ msglen' = msglen + n
        /\ msglen + n \in Nat
    <2> DEFINE m == msglen + n
    <2>1. m \in Nat /\ m < 2 * MsgMod /\ MsgMod \in Nat /\ MsgMod > 0 /\ msglen \in Nat
      BY <1>2, TypeFacts
    <2> HIDE DEF m
    <2>2. /\ m % MsgMod \in 0..(MsgMod - 1)
          /\ m < MsgMod => m % MsgMod = m
          /\ m >= MsgMod => m % MsgMod = m - MsgMod
      BY <2>1, ModFacts
    <2>3. m % MsgMod >= msglen /\ msglen' = m % MsgMod /\ m < msglen + MsgMod
      BY <1>1, <1>2, <2>1 DEF m
    <2>4. m < MsgMod
      BY <2>1, <2>2, <2>3
    <2> QED
      BY <2>1, <2>2, <2>3, <2>4 DEF m
  <1>6. pc' = (IF index # 0 THEN "fill" ELSE "blocks")
    BY <1>1 DEF FirstLoop
  <1>7. TypeOK'
    <2>1. calls' \in 0..MaxCalls /\ straddled' \in BOOLEAN
      BY <1>1, <1>2, SizeAssumption DEF TypeOK
    <2>2. i' \in Nat /\ len' \in 0..(MsgMod - 1) /\ msg' \in Seq(Byte)
      BY <1>1, <1>2, <1>3
    <2> QED
      BY <1>1, <1>2, <1>4, <1>5, <1>6, <2>1, <2>2 DEF TypeOK
  <1>8. InnerInv' /\ Streams' /\ PaddedRight'
    BY <1>1, <1>6 DEF Inv, InnerInv, Streams, PaddedRight
  <1>9. ASSUME ~straddled'
        PROVE  LoopInv'
    <2>1. ~straddled /\ (index # 0 => index + n <= BlockSize)
      <3>1. ~(straddled \/ (index # 0 /\ index + n > BlockSize))
        BY <1>1, <1>9, Zenon
      <3>2. index \in Nat /\ BlockSize \in Nat
        BY <1>2, TypeFacts
      <3> QED
        BY <1>2, <3>1, <3>2
    <2>2. Absorbed = given /\ msglen = Len(given)
      BY <1>1, <2>1 DEF Inv, Streams
    <2>3. Absorbed' \o msg' = given' /\ msglen' = Len(given')
      BY <1>1, <1>4, <1>5, <2>2 DEF Absorbed
    <2>4. CASE index # 0
      <3>2. pc' = "fill" /\ index' = index /\ i' = 0 /\ len' = n /\ Len(msg') = n
        BY <1>1, <1>3, <1>6, <2>4
      <3>3. /\ index \in Nat /\ index > 0 /\ n \in Nat /\ n > 0
            /\ BlockSize \in Nat /\ index + n <= BlockSize
        <4>1. index \in Nat /\ BlockSize \in Nat
          BY <1>2, TypeFacts
        <4> QED
          BY <1>1, <1>2, <2>1, <2>4, <4>1
      <3>1. /\ pc' = "fill" /\ len' < BlockSize /\ i' < len' /\ index' > 0
            /\ Len(msg') = len' - i' /\ index' + Len(msg') <= BlockSize
        BY ONLY <3>2, <3>3
      <3> QED
        BY <2>3, <3>1 DEF LoopInv, FillInv
    <2>5. CASE index = 0
      <3>1. pc' = "blocks" /\ index' = 0 /\ i' = 0 /\ Len(msg') = len'
        BY <1>1, <1>3, <1>6, <2>5
      <3> QED
        BY <2>3, <3>1 DEF LoopInv, BlocksInv
    <2> QED
      BY <2>4, <2>5
  <1> QED
    BY <1>7, <1>8, <1>9 DEF Inv

(* A byte goes from the message to the context. *)
LEMMA ByteMoves ==
  ASSUME TypeOK, PushByte(Taken(1)[1]), msg' = Left(1)
  PROVE  /\ hash' \in Seq(Byte) /\ Len(hash') % BlockSize = 0
         /\ block' \in [1..BlockSize -> Byte] /\ index' \in 0..(BlockSize - 1)
         /\ msg' \in Seq(Byte)
         /\ Len(msg) > 0 => /\ Absorbed' \o msg' = Absorbed \o msg
                            /\ Len(msg') = Len(msg) - 1
  <1> DEFINE b == Taken(1)[1]
  <1>1. 1 \in 1..BlockSize /\ Len(msg) \in Nat /\ Absorbed \in Seq(Byte)
    BY TypeFacts
  <1>2. /\ Taken(1) \in [1..1 -> Byte] /\ Left(1) \in Seq(Byte)
        /\ 1 <= Len(msg) => /\ Len(Left(1)) = Len(msg) - 1
                            /\ Taken(1) \o Left(1) = msg
    BY <1>1, TakenFacts
  <1>3. b \in Byte /\ Taken(1) = <<b>> /\ <<b>> \in Seq(Byte)
    BY <1>2
  <1> HIDE DEF b
  <1>4. /\ hash' \in Seq(Byte) /\ Len(hash') % BlockSize = 0
        /\ block' \in [1..BlockSize -> Byte] /\ index' \in 0..(BlockSize - 1)
        /\ Absorbed' = Append(Absorbed, b)
    BY <1>3, PushAbsorbs DEF b
  <1>5. ASSUME Len(msg) > 0
        PROVE  Absorbed' \o msg' = Absorbed \o msg /\ Len(msg') = Len(msg) - 1
    <2>1. Len(Left(1)) = Len(msg) - 1 /\ <<b>> \o Left(1) = msg
      <3>1. 1 <= Len(msg)
        BY <1>1, <1>5
      <3> QED
        BY <1>2, <1>3, <3>1
    <2>2. Append(Absorbed, b) = Absorbed \o <<b>>
      BY <1>1, <1>3, AppendIsConcat
    <2>3. (Absorbed \o <<b>>) \o Left(1) = Absorbed \o (<<b>> \o Left(1))
      BY <1>1, <1>2, <1>3, ConcatAssociative
    <2> QED
      BY <1>4, <2>1, <2>2, <2>3
  <1> QED
    BY <1>2, <1>4, <1>5

LEMMA FillStep ==
  ASSUME Inv, Fill
  PROVE  Inv'
  <1>1. pc = "fill" /\ UNCHANGED <<msglen, given, calls, straddled, inner>> /\ TypeOK
    BY DEF Fill, history, Inv
  <1>2. /\ Len(msg) \in Nat /\ i \in Nat /\ len \in 0..(MsgMod - 1) /\ MsgMod \in Nat
        /\ BlockSize \in Nat /\ index \in 0..(BlockSize - 1) /\ msg \in Seq(Byte)
    BY <1>1, TypeFacts
  <1>3. CASE i < len
    <2>1. /\ PushByte(Taken(1)[1]) /\ msg' = Left(1) /\ i' = i + 1 /\ pc' = pc
          /\ len' = IF LastByte THEN len - 1 - i ELSE len
      BY <1>3 DEF Fill
    <2>2. /\ hash' \in Seq(Byte) /\ Len(hash') % BlockSize = 0
          /\ block' \in [1..BlockSize -> Byte] /\ index' \in 0..(BlockSize - 1)
          /\ msg' \in Seq(Byte)
          /\ Len(msg) > 0 => /\ Absorbed' \o msg' = Absorbed \o msg
                             /\ Len(msg') = Len(msg) - 1
      BY <1>1, <2>1, ByteMoves
    <2>3. i' \in Nat /\ len' \in 0..(MsgMod - 1)
      BY <1>2, <1>3, <2>1
    <2>4. TypeOK'
      BY <1>1, <2>1, <2>2, <2>3 DEF TypeOK
    <2>5. InnerInv' /\ Streams' /\ PaddedRight'
      BY <1>1, <2>1 DEF Inv, InnerInv, Streams, PaddedRight
    <2>6. ASSUME ~straddled'
          PROVE  LoopInv'
      <3>1. /\ index > 0 /\ Len(msg) = len - i /\ index + Len(msg) <= BlockSize
            /\ len < BlockSize /\ Absorbed \o msg = given /\ msglen = Len(given)
        BY <1>1, <1>3, <2>6 DEF Inv, LoopInv, FillInv
      <3>2. Absorbed' \o msg' = Absorbed \o msg /\ Len(msg') = Len(msg) - 1
        BY <1>2, <1>3, <2>2, <3>1
      <3>3. FillInv'
        <4>1. CASE LastByte
          <5>1. index + 1 = BlockSize /\ len' = len - 1 - i
            BY <2>1, <4>1 DEF LastByte
          <5>2. len' = 0 /\ Len(msg') = 0
            BY <1>2, <3>1, <3>2, <5>1, <1>3
          <5>3. msg' = <<>>
            BY <2>2, <5>2, EmptySeq
          <5>4. len' < BlockSize /\ ~(i' < len')
            BY <1>2, <2>3, <5>1, <5>2
          <5> QED
            BY <5>3, <5>4 DEF FillInv
        <4>2. CASE ~LastByte
          <5>1. len' = len /\ index' = index + 1
            BY <2>1, <4>2 DEF PushByte
          <5>2. CASE i + 1 < len
            BY <1>2, <2>1, <3>1, <3>2, <5>1, <5>2 DEF FillInv
          <5>3. CASE ~(i + 1 < len)
            <6>1. Len(msg') = 0
              BY <1>2, <1>3, <3>1, <3>2, <5>3
            <6>2. msg' = <<>>
              BY <2>2, <6>1, EmptySeq
            <6> QED
              BY <2>1, <3>1, <5>1, <5>3, <6>2 DEF FillInv
          <5> QED
            BY <5>2, <5>3
        <4> QED
          BY <4>1, <4>2
      <3> QED
        BY <1>1, <2>1, <3>1, <3>2, <3>3 DEF LoopInv
    <2> QED
      BY <2>4, <2>5, <2>6 DEF Inv
  <1>4. CASE ~(i < len)
    <2>1. pc' = "blocks" /\ UNCHANGED <<hash, block, index, msg, i, len>>
      BY <1>4 DEF Fill, locals
    <2>2. TypeOK' /\ InnerInv' /\ Streams' /\ PaddedRight'
      BY <1>1, <2>1 DEF Inv, TypeOK, InnerInv, Streams, PaddedRight
    <2>3. ASSUME ~straddled'
          PROVE  LoopInv'
      <3>1. /\ msg = <<>> /\ len < BlockSize /\ i >= len
            /\ Absorbed \o msg = given /\ msglen = Len(given)
        BY <1>1, <1>2, <1>4, <2>3 DEF Inv, LoopInv, FillInv
      <3> QED
        BY <1>1, <2>1, <3>1 DEF LoopInv, BlocksInv, Absorbed
    <2> QED
      BY <2>2, <2>3 DEF Inv
  <1> QED
    BY <1>3, <1>4

LEMMA BlocksStep ==
  ASSUME Inv, Blocks
  PROVE  Inv'
  <1>1. pc = "blocks" /\ UNCHANGED <<msglen, given, calls, straddled, inner>> /\ TypeOK
    BY DEF Blocks, history, Inv
  <1>2. /\ Len(msg) \in Nat /\ i \in Nat /\ len \in 0..(MsgMod - 1) /\ MsgMod \in Nat
        /\ BlockSize \in Nat /\ BlockSize > 0 /\ msg \in Seq(Byte) /\ hash \in Seq(Byte)
    BY <1>1, TypeFacts
  <1>3. CASE len >= BlockSize
    <2> DEFINE b == Taken(BlockSize)
    <2>1. /\ block' = b /\ hash' = hash \o b /\ index' = 0 /\ msg' = Left(BlockSize)
          /\ len' = len - BlockSize /\ i' = i /\ pc' = pc
      BY <1>3 DEF Blocks, sha256_solve_block
    <2>2. /\ b \in [1..BlockSize -> Byte] /\ Left(BlockSize) \in Seq(Byte)
          /\ BlockSize <= Len(msg) => /\ Len(Left(BlockSize)) = Len(msg) - BlockSize
                                      /\ b \o Left(BlockSize) = msg
      <3>1. BlockSize \in 1..BlockSize
        BY <1>2
      <3> QED
        BY <1>1, <3>1, TakenFacts
    <2> HIDE DEF b
    <2>3. b \in Seq(Byte)
      BY <2>2, BlockIsSeq
    <2>4. hash' \in Seq(Byte) /\ Len(hash') % BlockSize = 0
      <3>1. hash \o b \in Seq(Byte) /\ Len(hash \o b) = Len(hash) + BlockSize
        BY <1>2, <2>2, BlockAdded, LenProperties
      <3>2. Len(hash) \in Nat /\ Len(hash) % BlockSize = 0
        BY <1>1 DEF TypeOK
      <3> QED
        <4>1. (Len(hash) + BlockSize) % BlockSize = 0
          BY <1>2, <3>2, WholeFacts
        <4> QED
          BY <2>1, <3>1, <4>1
    <2>5. TypeOK'
      <3>1. len' \in 0..(MsgMod - 1) /\ index' \in 0..(BlockSize - 1)
        BY <1>2, <1>3, <2>1
      <3> QED
        BY <1>1, <2>1, <2>2, <2>4, <3>1 DEF TypeOK
    <2>6. InnerInv' /\ Streams' /\ PaddedRight'
      BY <1>1, <2>1 DEF Inv, InnerInv, Streams, PaddedRight
    <2>7. ASSUME ~straddled'
          PROVE  LoopInv'
      <3>1. /\ index = 0 /\ i = 0 /\ Len(msg) = len
            /\ Absorbed \o msg = given /\ msglen = Len(given)
        BY <1>1, <1>2, <1>3, <2>7 DEF Inv, LoopInv, BlocksInv
      <3>2. Absorbed = hash /\ Absorbed' = hash \o b
        <4>1. SubSeq(block, 1, 0) = <<>> /\ SubSeq(b, 1, 0) = <<>>
          BY SubSeqEmpty
        <4> QED
          BY <1>2, <2>1, <2>4, <3>1, <4>1, ConcatEmptySeq DEF Absorbed
      <3>3. /\ Len(Left(BlockSize)) = len - BlockSize
            /\ b \o Left(BlockSize) = msg
        BY <1>3, <2>2, <3>1
      <3>4. (hash \o b) \o Left(BlockSize) = hash \o msg
        <4>1. \A x, y, z \in Seq(Byte) : (x \o y) \o z = x \o (y \o z)
          BY ConcatAssociative
        <4> QED
          BY <1>2, <2>2, <2>3, <3>3, <4>1, Zenon
      <3> QED
        BY <1>1, <2>1, <3>1, <3>2, <3>3, <3>4 DEF LoopInv, BlocksInv
    <2> QED
      BY <2>5, <2>6, <2>7 DEF Inv
  <1>4. CASE ~(len >= BlockSize)
    <2>1. pc' = "rest" /\ UNCHANGED <<hash, block, index, msg, i, len>>
      BY <1>4 DEF Blocks, locals
    <2>2. TypeOK' /\ InnerInv' /\ Streams' /\ PaddedRight'
      BY <1>1, <2>1 DEF Inv, TypeOK, InnerInv, Streams, PaddedRight
    <2>3. ASSUME ~straddled'
          PROVE  LoopInv'
      <3>1. /\ BlocksInv /\ Absorbed \o msg = given /\ msglen = Len(given)
        BY <1>1, <2>3 DEF Inv, LoopInv
      <3>2. RestInv
        BY <1>2, <3>1, EmptySeq DEF BlocksInv, RestInv
      <3> QED
        BY <1>1, <2>1, <3>1, <3>2 DEF LoopInv, RestInv, Absorbed
    <2> QED
      BY <2>2, <2>3 DEF Inv
  <1> QED
    BY <1>3, <1>4

LEMMA RestStep ==
  ASSUME Inv, Rest
  PROVE  Inv'
  <1>1. pc = "rest" /\ UNCHANGED <<msglen, given, calls, straddled, inner>> /\ TypeOK
    BY DEF Rest, history, Inv
  <1>2. /\ Len(msg) \in Nat /\ i \in Nat /\ len \in 0..(MsgMod - 1) /\ MsgMod \in Nat
        /\ msg \in Seq(Byte) /\ Absorbed \in Seq(Byte)
    BY <1>1, TypeFacts
  <1>3. CASE i < len
    <2>1. /\ PushByte(Taken(1)[1]) /\ msg' = Left(1) /\ i' = i + 1 /\ pc' = pc
          /\ len' = len
      BY <1>3 DEF Rest
    <2>2. /\ hash' \in Seq(Byte) /\ Len(hash') % BlockSize = 0
          /\ block' \in [1..BlockSize -> Byte] /\ index' \in 0..(BlockSize - 1)
          /\ msg' \in Seq(Byte)
          /\ Len(msg) > 0 => /\ Absorbed' \o msg' = Absorbed \o msg
                             /\ Len(msg') = Len(msg) - 1
      BY <1>1, <2>1, ByteMoves
    <2>3. TypeOK'
      <3>1. i' \in Nat
        BY <1>2, <2>1
      <3> QED
        BY <1>1, <2>1, <2>2, <3>1 DEF TypeOK
    <2>4. InnerInv' /\ Streams' /\ PaddedRight'
      BY <1>1, <2>1 DEF Inv, InnerInv, Streams, PaddedRight
    <2>5. ASSUME ~straddled'
          PROVE  LoopInv'
      <3>1. Len(msg) = len - i /\ Absorbed \o msg = given /\ msglen = Len(given)
        BY <1>1, <1>3, <2>5 DEF Inv, LoopInv, RestInv
      <3>2. Absorbed' \o msg' = Absorbed \o msg /\ Len(msg') = Len(msg) - 1
        BY <1>2, <1>3, <2>2, <3>1
      <3>3. RestInv'
        <4>1. CASE i + 1 < len
          BY <1>2, <2>1, <3>1, <3>2, <4>1 DEF RestInv
        <4>2. CASE ~(i + 1 < len)
          <5>1. Len(msg') = 0
            BY <1>2, <1>3, <3>1, <3>2, <4>2
          <5>2. msg' = <<>>
            BY <2>2, <5>1, EmptySeq
          <5> QED
            BY <2>1, <4>2, <5>2 DEF RestInv
        <4> QED
          BY <4>1, <4>2
      <3> QED
        BY <1>1, <2>1, <3>1, <3>2, <3>3 DEF LoopInv
    <2> QED
      BY <2>3, <2>4, <2>5 DEF Inv
  <1>4. CASE ~(i < len)
    <2>1. pc' = "idle" /\ UNCHANGED <<hash, block, index, msg, i, len>>
      BY <1>4 DEF Rest, locals
    <2>2. TypeOK' /\ InnerInv' /\ PaddedRight' /\ LoopInv'
      BY <1>1, <2>1 DEF Inv, TypeOK, InnerInv, PaddedRight, LoopInv
    <2>3. ASSUME ~straddled'
          PROVE  Absorbed' = given' /\ msglen' = Len(given')
      <3>1. msg = <<>> /\ Absorbed \o msg = given /\ msglen = Len(given)
        BY <1>1, <1>4, <2>3 DEF Inv, LoopInv, RestInv
      <3>2. Absorbed = given
        BY <1>2, <3>1, ConcatEmptySeq
      <3> QED
        BY <1>1, <2>1, <3>1, <3>2 DEF Absorbed
    <2> QED
      BY <2>2, <2>3 DEF Inv, Streams
  <1> QED
    BY <1>3, <1>4

LEMMA BeginInv ==
  ASSUME Inv, NEW n \in Lens, sha256_begin(n)
  PROVE  Inv'
  <1> DEFINE b == [j \in 1..n |-> <<"msg", j>>]
             c == Pushed(Fresh, b)
  <1>1. /\ n < MsgMod /\ Becomes(c) /\ given' = b /\ calls' = 1 /\ straddled' = FALSE
        /\ inner' = NoInner /\ pc' = "idle" /\ UNCHANGED <<msg, i, len>>
    BY DEF sha256_begin, locals
  <1>2. n \in Nat /\ MsgMod \in Nat /\ MsgMod > 0
    BY SizeAssumption
  <1>3. b \in Seq(Byte) /\ Len(b) = n
    <2>1. \A j \in 1..n : <<"msg", j>> \in Byte
      BY <1>2 DEF Byte
    <2> QED
      BY <1>2, <2>1, IsASeq
  <1> HIDE DEF b
  <1>4. c \in Contexts /\ Holds(c) = b /\ c.msglen = n
    <2>1. /\ c \in Contexts /\ Holds(c) = Holds(Fresh) \o b
          /\ c.msglen = (Fresh.msglen + Len(b)) % MsgMod
      BY <1>3, FreshContext, PushedFacts
    <2>2. Fresh.msglen = 0
      BY DEF Fresh
    <2>3. Holds(Fresh) \o b = b
      BY <1>3, FreshContext, ConcatEmptySeq
    <2>4. n % MsgMod = n
      BY <1>1, <1>2, ModFacts
    <2> HIDE DEF c
    <2> QED
      BY <1>2, <1>3, <2>1, <2>2, <2>3, <2>4
  <1> HIDE DEF c
  <1>5. /\ hash' = c.hash /\ block' = c.block /\ index' = c.index /\ msglen' = c.msglen
    BY <1>1 DEF Becomes
  <1>6. TypeOK'
    <2>1. inner' \in [msg : Seq(Byte), hash : Seq(Byte)]
      BY <1>1, EmptySeq DEF NoInner
    <2>2. /\ hash' \in Seq(Byte) /\ Len(hash') % BlockSize = 0
          /\ block' \in [1..BlockSize -> Byte] /\ index' \in 0..(BlockSize - 1)
          /\ msglen' \in 0..(MsgMod - 1)
      BY <1>4, <1>5 DEF Contexts
    <2>3. calls' \in 0..MaxCalls
      BY <1>1, SizeAssumption
    <2> QED
      BY <1>1, <1>3, <2>1, <2>2, <2>3 DEF TypeOK, Inv
  <1>7. Absorbed' = given' /\ msglen' = Len(given')
    <2>1. Absorbed' = Holds(c)
      BY <1>5 DEF Absorbed, Holds
    <2> QED
      BY <1>1, <1>3, <1>4, <1>5, <2>1
  <1> QED
    BY <1>1, <1>6, <1>7 DEF Inv, InnerInv, Streams, PaddedRight, LoopInv

LEMMA FinishInv ==
  ASSUME Inv, sha256_finish
  PROVE  Inv'
  <1> DEFINE c == Finished(Current)
  <1>1. /\ pc = "idle" /\ Becomes(c) /\ pc' = "finished"
        /\ UNCHANGED <<msg, i, len, given, calls, straddled, inner>> /\ TypeOK
    BY DEF sha256_finish, locals, history, Inv
  <1>2. Current \in Contexts /\ Absorbed = Holds(Current) /\ Current.msglen = msglen
    BY <1>1, CurrentContext DEF Current
  <1>3. /\ c \in Contexts
        /\ msglen = Len(Absorbed) => c.hash = Padding(Absorbed)
    BY <1>2, FinishPads
  <1> HIDE DEF c
  <1>4. /\ hash' = c.hash /\ block' = c.block /\ index' = c.index /\ msglen' = c.msglen
    BY <1>1 DEF Becomes
  <1>5. TypeOK'
    <2>1. /\ hash' \in Seq(Byte) /\ Len(hash') % BlockSize = 0
          /\ block' \in [1..BlockSize -> Byte] /\ index' \in 0..(BlockSize - 1)
          /\ msglen' \in 0..(MsgMod - 1)
      BY <1>3, <1>4 DEF Contexts
    <2> QED
      BY <1>1, <2>1 DEF TypeOK
  <1>6. inner' = NoInner
    BY <1>1 DEF Inv, InnerInv
  <1>7. ASSUME ~straddled'
        PROVE  hash' = Padding(given')
    <2>1. Absorbed = given /\ msglen = Len(given)
      BY <1>1, <1>7 DEF Inv, Streams
    <2> QED
      BY <1>1, <1>3, <1>4, <2>1
  <1> QED
    BY <1>1, <1>5, <1>6, <1>7 DEF Inv, InnerInv, Streams, PaddedRight, LoopInv

LEMMA ContInv ==
  ASSUME Inv, NEW n \in Lens, sha256_cont_then_sha256_result(n)
  PROVE  Inv'
  <1> DEFINE b == Bytes(n)
             p == Pushed(Current, b)
             done == Finished(p)
             q == Pushed(Fresh, MidSum)
             c == Finished(q)
  <1>1. /\ pc = "idle" /\ calls < MaxCalls /\ Becomes(c)
        /\ inner' = [msg |-> given \o b, hash |-> done.hash]
        /\ given' = MidSum /\ calls' = calls + 1 /\ pc' = "finished"
        /\ UNCHANGED <<msg, i, len, straddled>> /\ TypeOK
    BY DEF sha256_cont_then_sha256_result, locals, Inv
  <1>2. /\ n \in Nat /\ MsgMod \in Nat /\ MsgMod > 0 /\ BlockSize \in Nat
        /\ BlockSize < MsgMod /\ given \in Seq(Byte) /\ Len(given) \in Nat
    BY <1>1, SizeAssumption, TypeFacts
  <1>3. b \in Seq(Byte) /\ Len(b) = n
    BY <1>1, <1>2, BytesSeq
  <1> HIDE DEF b
  <1>4. Current \in Contexts /\ Absorbed = Holds(Current) /\ Current.msglen = msglen
    BY <1>1, CurrentContext DEF Current
  <1>5. /\ p \in Contexts /\ Holds(p) = Absorbed \o b /\ p.msglen = (msglen + n) % MsgMod
    BY <1>3, <1>4, PushedFacts
  <1> HIDE DEF p
  <1>6. /\ done \in Contexts
        /\ p.msglen = Len(Holds(p)) => done.hash = Padding(Holds(p))
    BY <1>5, FinishPads
  <1>7. /\ q \in Contexts /\ Holds(q) = MidSum /\ q.msglen = BlockSize
    <2>1. /\ q \in Contexts /\ Holds(q) = Holds(Fresh) \o MidSum
          /\ q.msglen = (Fresh.msglen + Len(MidSum)) % MsgMod
      BY FreshContext, MidSumSeq, PushedFacts
    <2>2. Fresh.msglen = 0
      BY DEF Fresh
    <2>3. Holds(Fresh) \o MidSum = MidSum
      BY FreshContext, MidSumSeq, ConcatEmptySeq
    <2>4. BlockSize % MsgMod = BlockSize
      BY <1>2, ModFacts
    <2> HIDE DEF q
    <2> QED
      BY <1>2, <2>1, <2>2, <2>3, <2>4, MidSumSeq
  <1> HIDE DEF q
  <1>8. c \in Contexts /\ c.hash = Padding(MidSum)
    BY <1>7, FinishPads, MidSumSeq
  <1> HIDE DEF c, done
  <1>9. /\ hash' = c.hash /\ block' = c.block /\ index' = c.index /\ msglen' = c.msglen
    BY <1>1 DEF Becomes
  <1>10. given \o b \in Seq(Byte) /\ Len(given \o b) = Len(given) + n
    <2>1. given \o b \in Seq(Byte) /\ Len(given \o b) = Len(given) + Len(b)
      BY <1>2, <1>3, ConcatProperties
    <2> QED
      BY <1>3, <2>1
  <1>11. inner' \in [msg : Seq(Byte), hash : Seq(Byte)]
    <2>1. done.hash \in Seq(Byte)
      BY <1>6 DEF Contexts
    <2> QED
      BY <1>1, <1>10, <2>1
  <1>12. TypeOK'
    <2>1. /\ hash' \in Seq(Byte) /\ Len(hash') % BlockSize = 0
          /\ block' \in [1..BlockSize -> Byte] /\ index' \in 0..(BlockSize - 1)
          /\ msglen' \in 0..(MsgMod - 1)
      BY <1>8, <1>9 DEF Contexts
    <2>2. calls' \in 0..MaxCalls
      BY <1>1, SizeAssumption DEF TypeOK
    <2> QED
      BY <1>1, <1>11, <2>1, <2>2, MidSumSeq DEF TypeOK
  <1>13. ASSUME ~straddled', Len(inner'.msg) < MsgMod
         PROVE  inner'.hash = Padding(inner'.msg)
    <2>1. Absorbed = given /\ msglen = Len(given)
      BY <1>1, <1>13 DEF Inv, Streams
    <2>2. inner'.msg = given \o b /\ inner'.hash = done.hash
      BY <1>1
    <2>3. Len(given) + n < MsgMod
      BY <1>10, <1>13, <2>2
    <2>4. (Len(given) + n) % MsgMod = Len(given) + n
      BY <1>2, <2>3, ModFacts
    <2>5. p.msglen = Len(Holds(p)) /\ Holds(p) = given \o b
      BY <1>5, <1>10, <2>1, <2>4
    <2> QED
      BY <1>6, <2>2, <2>5
  <1> QED
    BY <1>1, <1>8, <1>9, <1>12, <1>13 DEF Inv, InnerInv, Streams, PaddedRight, LoopInv

LEMMA StepInv ==
  ASSUME Inv, [Next]_vars
  PROVE  Inv'
  <1>1. CASE UNCHANGED vars
    BY <1>1 DEF vars, ctx, locals, history, Inv, TypeOK, InnerInv, Streams, PaddedRight,
                LoopInv, FillInv, BlocksInv, RestInv, Absorbed
  <1>2. CASE Next
    BY <1>2, ResetInv, FinishInv, UpdateInv, BeginInv, ContInv, FillStep, BlocksStep,
       RestStep DEF Next
  <1> QED
    BY <1>1, <1>2

(* The inductive invariant holds in every state.                           *)
THEOREM Invariance == Spec => []Inv
  <1>1. Inv /\ [Next]_vars => Inv'
    BY StepInv
  <1> QED
    BY <1>1, InitInv, PTL DEF Spec

(* Every variable keeps its type: whatever the calls, index stays inside   *)
(* the block and whole blocks are compressed (sha256.c:149-192).           *)
THEOREM TypeCorrect == Spec => []TypeOK
  <1>1. Inv => TypeOK
    BY DEF Inv
  <1> QED
    BY <1>1, Invariance, PTL

(* Between calls the context holds the message so far, unless a call began *)
(* inside a block and went past its end (sha256.c:149-192).                *)
THEOREM StreamsHolds == Spec => []Streams
  <1>1. Inv => Streams
    BY DEF Inv
  <1> QED
    BY <1>1, Invariance, PTL

(* After sha256_finish the compressed blocks are the padded message of     *)
(* FIPS 180-4, for a message of any length (sha256.c:194-231); so are they *)
(* for the inner digest of sha256_cont_then_sha256_result.                 *)
THEOREM PaddedRightHolds == Spec => []PaddedRight
  <1>1. Inv => PaddedRight
    BY DEF Inv
  <1> QED
    BY <1>1, Invariance, PTL
(* How far the third loop, or the first one, is from its end. *)
Ahead == IF i < len THEN len - i ELSE 0

InLoop == pc \in {"fill", "blocks", "rest"}

(* What is left of a call of update: at most a turn of the first loop for  *)
(* each byte, then one of the second or the third.                         *)
LoopSteps ==
  CASE pc = "fill" -> Ahead + 2 * len + 3
    [] pc = "blocks" -> 2 * len + 2
    [] pc = "rest" -> Ahead + 1
    [] OTHER -> 0

LEMMA AheadFacts ==
  ASSUME i \in Nat, len \in Nat
  PROVE  Ahead \in 0..len
  BY DEF Ahead

LEMMA FewerLoopSteps ==
  ASSUME TypeOK, Next, InLoop
  PROVE  LoopSteps' < LoopSteps /\ LoopSteps' \in Nat
  <1>1. i \in Nat /\ len \in Nat /\ BlockSize \in Nat /\ BlockSize > 0
    BY SizeAssumption, SMT DEF TypeOK
  <1>2. Fill \/ Blocks \/ Rest
    BY DEF InLoop, Next, sha256_reset, sha256_finish, sha256_update, sha256_begin,
           sha256_cont_then_sha256_result
  <1>3. Ahead \in 0..len
    BY <1>1, AheadFacts
  <1>4. CASE Fill
    <2>1. LoopSteps = Ahead + 2 * len + 3
      BY <1>4 DEF Fill, LoopSteps
    <2>2. CASE i < len
      <3>1. pc' = "fill" /\ i' = i + 1 /\ (len' = len - 1 - i \/ len' = len)
        BY <1>4, <2>2 DEF Fill
      <3>2. LoopSteps' = Ahead' + 2 * len' + 3
        BY <3>1 DEF LoopSteps
      <3>3. Ahead = len - i
        BY <2>2 DEF Ahead
      <3>4. len' \in Nat /\ len' <= len /\ Ahead' \in Nat /\ Ahead' < Ahead
        <4>1. len' \in Nat /\ len' <= len /\ i' \in Nat
          BY ONLY <1>1, <2>2, <3>1, SMT
        <4>2. Ahead' = IF i' < len' THEN len' - i' ELSE 0
          BY DEF Ahead
        <4>3. Ahead' \in Nat /\ Ahead' + 1 <= Ahead
          <5> DEFINE a == Ahead'
                     m == len'
                     j == i'
          <5>1. m \in Nat /\ j = i + 1 /\ m <= len /\ a = IF j < m THEN m - j ELSE 0
            BY <3>1, <4>1, <4>2
          <5> HIDE DEF a, m, j
          <5>2. a \in Nat /\ a + 1 <= len - i
            BY ONLY <1>1, <2>2, <5>1, SMT
          <5> QED
            BY <5>2, <3>3 DEF a
        <4>4. Ahead' < Ahead
          <5> DEFINE a == Ahead
                     b == Ahead'
          <5>3. a \in Nat
            BY <1>1, <1>3
          <5>4. b \in Nat
            BY <4>3
          <5>1. a \in Nat /\ b \in Nat /\ b + 1 <= a
            BY <5>3, <5>4, <4>3
          <5> HIDE DEF a, b
          <5>2. b < a
            BY ONLY <5>1, SMT
          <5> QED
            BY <5>2 DEF a, b
        <4> QED
          BY <4>1, <4>3, <4>4
      <3> DEFINE a == Ahead
                 b == Ahead'
                 m == len'
      <3>5. /\ a \in Nat /\ b \in Nat /\ b < a /\ m \in Nat /\ m <= len
            /\ LoopSteps = a + 2 * len + 3 /\ LoopSteps' = b + 2 * m + 3
        BY <1>3, <2>1, <3>2, <3>4
      <3> HIDE DEF a, b, m
      <3> QED
        BY ONLY <1>1, <3>5, SMT
    <2>3. CASE ~ (i < len)
      <3>1. pc' = "blocks" /\ len' = len
        BY <1>4, <2>3 DEF Fill, locals
      <3>2. LoopSteps' = 2 * len' + 2
        BY <3>1 DEF LoopSteps
      <3> QED
        BY ONLY <1>1, <1>3, <2>1, <3>1, <3>2, SMT
    <2> QED
      BY <2>2, <2>3
  <1>5. CASE Blocks
    <2>1. LoopSteps = 2 * len + 2
      BY <1>5 DEF Blocks, LoopSteps
    <2>2. CASE len >= BlockSize
      <3>1. pc' = "blocks" /\ len' = len - BlockSize
        BY <1>5, <2>2 DEF Blocks
      <3>2. LoopSteps' = 2 * len' + 2
        BY <3>1 DEF LoopSteps
      <3> QED
        BY ONLY <1>1, <2>1, <2>2, <3>1, <3>2, SMT
    <2>3. CASE ~ (len >= BlockSize)
      <3>1. pc' = "rest" /\ len' = len /\ i' = i
        BY <1>5, <2>3 DEF Blocks, locals
      <3>2. LoopSteps' = Ahead' + 1 /\ Ahead' = Ahead
        BY <3>1 DEF LoopSteps, Ahead
      <3> QED
        BY ONLY <1>1, <1>3, <2>1, <3>2, SMT
    <2> QED
      BY <2>2, <2>3
  <1>6. CASE Rest
    <2>1. LoopSteps = Ahead + 1
      BY <1>6 DEF Rest, LoopSteps
    <2>2. CASE i < len
      <3>1. pc' = "rest" /\ i' = i + 1 /\ len' = len
        BY <1>6, <2>2 DEF Rest
      <3>2. LoopSteps' = Ahead' + 1
        BY <3>1 DEF LoopSteps
      <3>3. Ahead = len - i /\ Ahead' = IF i' < len' THEN len' - i' ELSE 0
        BY <2>2 DEF Ahead
      <3> QED
        BY ONLY <1>1, <2>1, <2>2, <3>1, <3>2, <3>3, SMT
    <2>3. CASE ~ (i < len)
      <3>1. pc' = "idle"
        BY <1>6, <2>3 DEF Rest
      <3>2. LoopSteps' = 0
        BY <3>1 DEF LoopSteps
      <3> QED
        BY ONLY <1>3, <1>1, <2>1, <3>2, SMT
    <2> QED
      BY <2>2, <2>3
  <1> QED
    BY <1>2, <1>4, <1>5, <1>6

(* Every call of update returns, one that straddled too, whose lengths are *)
(* no longer those of its data: its len never falls below 0, which in its  *)
(* type would be a great number, and each turn of its loops is one fewer   *)
(* to come (sha256_update, the three loops).                               *)
THEOREM UpdateProgress ==
  Spec => [][InLoop => LoopSteps' < LoopSteps /\ LoopSteps' \in Nat]_vars
  <1>1. TypeOK /\ [Next]_vars => [InLoop => LoopSteps' < LoopSteps /\ LoopSteps' \in Nat]_vars
    BY FewerLoopSteps
  <1> QED
    BY <1>1, TypeCorrect, PTL DEF Spec

=============================================================================
