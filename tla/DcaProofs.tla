----------------------------- MODULE DcaProofs -----------------------------
(***************************************************************************)
(* Theorems about Dca, for every number of arrays, every allocator, every  *)
(* element size and every width of size_t.                                 *)
(***************************************************************************)
EXTENDS Memory, SequenceTheorems, TLAPS

(***************************************************************************)
(* Arithmetic of sizes.                                                    *)
(***************************************************************************)

(* x bytes are a whole number of elements. *)
Whole(x) == \E k \in Nat : x = k * ElemSize

LEMMA WholeSum ==
  ASSUME NEW x \in Nat, NEW y \in Nat, Whole(x), Whole(y)
  PROVE  Whole(x + y)
  <1>1. PICK j \in Nat : x = j * ElemSize
    BY DEF Whole
  <1>2. PICK k \in Nat : y = k * ElemSize
    BY DEF Whole
  <1>3. x + y = (j + k) * ElemSize /\ j + k \in Nat
    BY <1>1, <1>2, SizeAssumption, SMT
  <1> QED
    BY <1>3 DEF Whole

LEMMA WholeFits ==
  ASSUME NEW x \in Nat, NEW c \in Nat, Whole(x), x <= c
  PROVE  x % ElemSize = 0 /\ x <= (c \div ElemSize) * ElemSize
  <1>1. PICK k \in Nat : x = k * ElemSize
    BY DEF Whole
  <1>2. \A E \in Nat \ {0} : k * E <= c => (k * E) % E = 0
    BY SMT
  <1>3. \A E \in Nat \ {0} : k * E <= c => k <= c \div E
    BY SMT
  <1>4. c \div ElemSize \in Nat
    BY SizeAssumption, SMT
  <1>5. \A j \in Nat, E \in Nat : k <= j => k * E <= j * E
    BY SMT
  <1> QED
    BY <1>1, <1>2, <1>3, <1>4, <1>5, SizeAssumption

LEMMA ModSize ==
  ASSUME NEW x \in Nat
  PROVE  x % SizeMod \in Sizes /\ (x < SizeMod => x % SizeMod = x)
  BY SizeAssumption, SMT DEF Sizes

-----------------------------------------------------------------------------
(***************************************************************************)
(* The shapes of the steps.  Whatever the operation, a step leaves blocks  *)
(* and pointers alone, or gives one array a block that is large enough, or *)
(* sets one length within the capacity, or stores one element, or releases *)
(* one block.                                                              *)
(***************************************************************************)

(* No pointer and no block changes. *)
Quiet ==
  /\ UNCHANGED <<mod, block>>
  /\ default' \in Allocators
  /\ mem' \in [Arrays -> Allocators]
  /\ \A a \in Arrays : mem'[a] # mem[a] => mod[a] = NoBlock
  /\ ret' \in {"data", "null"}
  /\ outcome' \in {"running", "aborted", "undefined"}

Grows(a) ==
  \E nb, len \in Sizes : 
    /\ Grow(a, nb, len)
    /\ Size(a) <= len /\ len <= nb /\ Cap(a) <= nb
    /\ mod[a] # NoBlock => Cap(a) < nb
    /\ HasCkd /\ Whole(Size(a)) => Whole(len)

SetsLen(a) ==
  \E len \in Sizes :
    /\ mod[a] # NoBlock /\ SetLen(a, len) /\ len <= Cap(a)
    /\ len >= Size(a) \/ len = 0
    /\ HasCkd /\ Whole(Size(a)) => Whole(len)

Stores(a) == mod[a] # NoBlock /\ \E i \in 1..SizeMod, v \in Values : Write(a, i, v)

(* What Grows(a) makes of the memory: block b has nb bytes for elements as *)
(* its header says, and as many of them as its size, which may have        *)
(* wrapped, has room for.                                                  *)
Grown(a, b, nb, len) ==
  /\ b = mod[a] \/ block[b].owner = NoOwner
  /\ mod' = [mod EXCEPT ![a] = b]
  /\ block'[b] = [owner |-> mem[a], size |-> AllocSize(nb), bcap |-> nb,
                  blen |-> len, elems |-> Resized(Elems(a), Fits(AllocSize(nb)))]
  /\ \A x \in Blocks :
       x # b => block'[x] = IF x = mod[a] THEN Free ELSE block[x]
  /\ DOMAIN block' = Blocks /\ block' = [x \in Blocks |-> block'[x]]
  /\ Size(a) <= len /\ len <= nb /\ Cap(a) <= nb
  /\ mod[a] # NoBlock => Cap(a) < nb
  /\ HasCkd /\ Whole(Size(a)) => Whole(len)
  /\ UNCHANGED <<default, mem>> /\ ret' = "data"
  /\ outcome' \in {"running", "aborted", "undefined"}

(* The part of CapacityBacked that the shapes depend on. *)
LenInCap == \A a \in Arrays : Size(a) <= Cap(a)

LEMMA SizesType ==
  ASSUME TypeOK, NEW a \in Arrays
  PROVE  Size(a) \in Sizes /\ Cap(a) \in Sizes
  <1>1. CASE mod[a] = NoBlock
    BY <1>1, SizeAssumption DEF Size, Cap, Sizes
  <1>2. CASE mod[a] # NoBlock
    <2>1. block[mod[a]] \in BlockType
      BY <1>2 DEF TypeOK
    <2> QED
      BY <1>2, <2>1 DEF Size, Cap, BlockType
  <1> QED
    BY <1>1, <1>2

LEMMA QuietCalls ==
  ASSUME TypeOK, Refuse \/ Done,
         outcome = "running"
  PROVE  Quiet
  BY DEF TypeOK, Quiet, Refuse, Done, Returns

LEMMA ReserveShape ==
  ASSUME TypeOK, LenInCap, outcome = "running", NEW a \in Arrays,
         NEW nb \in Sizes, ReserveBytes(a, nb)
  PROVE  Quiet \/ Grows(a)
  <1>1. Size(a) \in Nat /\ Cap(a) \in Nat /\ nb \in Nat /\ Size(a) <= Cap(a)
    BY SizesType, SizeAssumption DEF LenInCap, Sizes
  <1>2. CASE NeedsBlock(a, nb) /\ Grow(a, nb, Lesser(Size(a), nb))
    <2>1. Cap(a) <= nb /\ (mod[a] # NoBlock => Cap(a) < nb)
      BY <1>1, <1>2 DEF NeedsBlock, Cap
    <2>2. Lesser(Size(a), nb) = Size(a)
      BY <1>1, <2>1 DEF Lesser
    <2> QED
      BY <1>1, <1>2, <2>1, <2>2, SizesType DEF Grows
  <1>3. CASE Done \/ Refuse
    BY <1>3, QuietCalls
  <1> QED
    BY <1>2, <1>3 DEF ReserveBytes, Allocate

LEMMA ConsumeShape ==
  ASSUME TypeOK, LenInCap, outcome = "running", NEW a \in Arrays,
         NEW nb \in Sizes, ConsumeBytes(a, nb), HasCkd => Whole(nb)
  PROVE  Quiet \/ Grows(a) \/ SetsLen(a)
  <1> DEFINE req == Required(a, nb)
  <1>1. Size(a) \in Nat /\ Cap(a) \in Nat /\ nb \in Nat /\ Size(a) <= Cap(a)
        /\ Size(a) < SizeMod /\ nb < SizeMod
    BY SizesType, SizeAssumption DEF LenInCap, Sizes
  <1>2. req = (Size(a) + nb) % SizeMod /\ req \in Sizes /\ req \in Nat
    BY <1>1, ModSize, SizeAssumption DEF Required, Sizes
  <1>3. CASE req < Size(a)
    BY <1>3, QuietCalls DEF ConsumeBytes
  <1>4. ASSUME ~(req < Size(a))
        PROVE  HasCkd /\ Whole(Size(a)) => Whole(req)
    <2>1. Size(a) + nb < SizeMod
      <3>1. \A M, x, y \in Nat : x < M /\ y < M /\ x + y >= M =>
              (x + y) % M = x + y - M
        BY SMT
      <3>2. Size(a) < SizeMod /\ nb < SizeMod
        BY <1>1, SizeAssumption
      <3>3. ASSUME Size(a) + nb >= SizeMod
            PROVE  FALSE
        <4>1. (Size(a) + nb) % SizeMod = Size(a) + nb - SizeMod
          BY <1>1, <3>1, <3>2, <3>3, SizeAssumption
        <4>2. req = Size(a) + nb - SizeMod
          BY <1>2, <4>1
        <4> HIDE DEF req
        <4> QED
          BY <1>1, <1>4, <4>2, SizeAssumption
      <3> QED
        BY <1>1, <3>3, SizeAssumption
    <2>2. req = Size(a) + nb
      BY <1>1, <1>2, <2>1, ModSize
    <2> QED
      BY <1>1, <2>2, WholeSum
  <1>5. CASE ~(req < Size(a)) /\ NeedsBlock(a, req)
    <2>1. Grow(a, req, req) \/ Refuse
      BY <1>2, <1>5 DEF ConsumeBytes, Allocate
    <2>2. Cap(a) <= req /\ (mod[a] # NoBlock => Cap(a) < req)
      BY <1>1, <1>2, <1>5 DEF NeedsBlock, Cap
    <2>3. CASE Grow(a, req, req)
      <3> HIDE DEF req
      <3> QED
        BY <1>1, <1>2, <1>4, <1>5, <2>2, <2>3 DEF Grows
    <2>4. CASE Refuse
      BY <2>4, QuietCalls
    <2> QED
      BY <2>1, <2>3, <2>4
  <1>6. CASE ~(req < Size(a)) /\ ~NeedsBlock(a, req)
    <2>1. SetLen(a, req)
      BY <1>2, <1>6 DEF ConsumeBytes
    <2>2. mod[a] # NoBlock /\ req <= Cap(a)
      BY <1>1, <1>2, <1>6 DEF NeedsBlock
    <2> HIDE DEF req
    <2> QED
      BY <1>1, <1>2, <1>4, <1>6, <2>1, <2>2 DEF SetsLen
  <1> QED
    BY <1>3, <1>5, <1>6

LEMMA NextShape ==
  ASSUME TypeOK, LenInCap, [Next]_vars
  PROVE  \/ Quiet
         \/ \E a \in Arrays : Grows(a) \/ SetsLen(a) \/ Stores(a) \/ Release(a)
  <1>1. \A n \in Nat : n * ElemSize \in Nat /\ (n * ElemSize) % SizeMod \in Sizes
    BY ModSize, SizeAssumption
  <1>2. \A n \in Requests : n \in Nat
    BY RequestAssumption, SizeAssumption
  <1>3. ASSUME NEW a \in Arrays, NEW n \in Nat, outcome = "running",
               ReserveElems(a, n)
        PROVE  Quiet \/ Grows(a)
    BY <1>1, <1>3, ReserveShape, QuietCalls DEF ReserveElems
  <1>4. ASSUME NEW a \in Arrays, NEW n \in Requests, Reserve(a, n)
        PROVE  Quiet \/ Grows(a)
    BY <1>2, <1>3, <1>4 DEF Reserve
  <1>5. ASSUME NEW a \in Arrays, NEW n \in Requests, Extend(a, n)
        PROVE  Quiet \/ Grows(a)
    <2> DEFINE newlen == ExtendedLen(Size(a) \div ElemSize, n)
    <2>1. newlen \in Nat
      <3>1. Size(a) \div ElemSize \in Nat
        BY SizesType, SizeAssumption, SMT DEF Sizes
      <3>2. \A m \in Nat : m * n \in Nat
        BY <1>2
      <3>3. ((Size(a) \div ElemSize) * n) % SizeMod \in Sizes
        BY <3>1, <3>2, ModSize
      <3>4. (Size(a) \div ElemSize) + n \in Nat
        BY <1>2, <3>1
      <3> QED
        BY <3>3, <3>4, SizeAssumption DEF ExtendedLen, Sizes
    <2> HIDE DEF newlen
    <2>2. outcome = "running" /\ (Refuse \/ ReserveElems(a, newlen))
      BY <1>5 DEF Extend, newlen
    <2> QED
      BY <2>1, <2>2, <1>3, QuietCalls
  <1>6. ASSUME NEW a \in Arrays, NEW n \in Requests, Consume(a, n)
        PROVE  Quiet \/ Grows(a) \/ SetsLen(a)
    <2>1. CASE Refuse
      BY <1>6, <2>1, QuietCalls DEF Consume
    <2>2. CASE ~Refuse
      <3> DEFINE nb == (n * ElemSize) % SizeMod
      <3>1. outcome = "running" /\ ConsumeBytes(a, nb) /\ ~Overflows(n * ElemSize)
        BY <1>6, <2>2 DEF Consume
      <3>2. nb \in Sizes
        BY <1>1, <1>2
      <3>3. HasCkd => Whole(nb)
        <4>1. HasCkd => nb = n * ElemSize
          BY <1>1, <1>2, <3>1, ModSize, SizeAssumption DEF Overflows
        <4> QED
          BY <1>2, <4>1 DEF Whole
      <3> HIDE DEF nb
      <3> QED
        BY <3>1, <3>2, <3>3, ConsumeShape
    <2> QED
      BY <2>1, <2>2
  <1>7. ASSUME NEW a \in Arrays, Create(a)
        PROVE  Quiet
    BY <1>7 DEF TypeOK, Create, Quiet, Returns
  <1>8. ASSUME NEW a \in Arrays, Clean(a)
        PROVE  SetsLen(a)
    <2>1. 0 \in Sizes /\ Whole(0) /\ 0 <= Cap(a)
      BY SizesType, SizeAssumption DEF Sizes, Whole
    <2> QED
      BY <1>8, <2>1 DEF Clean, SetsLen
  <1>9. ASSUME NEW a \in Arrays, NEW i \in 1..SizeMod, NEW v \in Values,
               Write(a, i, v)
        PROVE  Stores(a)
    <2>1. mod[a] # NoBlock
      <3>1. i <= Size(a) \div ElemSize /\ i >= 1 /\ i \in Nat
        BY <1>9, SizeAssumption DEF Write
      <3>2. 0 \div ElemSize = 0
        BY SizeAssumption, SMT
      <3> QED
        BY <3>1, <3>2 DEF Size
    <2> QED
      BY <1>9, <2>1 DEF Stores
  <1>10. ASSUME NEW a \in Arrays, NEW i \in 1..SizeMod, WriteOutside(a, i)
         PROVE  Quiet
    BY <1>10 DEF TypeOK, WriteOutside, Quiet
  <1>11. ASSUME NEW m \in Allocators \cup {NullMemory}, SetDefault(m)
         PROVE  Quiet
    BY <1>11 DEF TypeOK, SetDefault, NewDefault, Quiet, Returns
  <1>12. ASSUME UNCHANGED vars
         PROVE  Quiet
    BY <1>12 DEF TypeOK, vars, Quiet
  <1> QED
    BY <1>4, <1>5, <1>6, <1>7, <1>8, <1>9, <1>10, <1>11, <1>12
       DEF Next, Stopped

-----------------------------------------------------------------------------
(***************************************************************************)
(* What each shape does to the blocks and pointers.                        *)
(***************************************************************************)

LEMMA GrowsTo ==
  ASSUME TypeOK, NEW a \in Arrays, Grows(a)
  PROVE  \E b \in Blocks, nb, len \in Sizes : Grown(a, b, nb, len)
  <1>1. PICK nb \in Sizes, len \in Sizes :
          /\ Grow(a, nb, len)
          /\ Size(a) <= len /\ len <= nb /\ Cap(a) <= nb
          /\ mod[a] # NoBlock => Cap(a) < nb
          /\ HasCkd /\ Whole(Size(a)) => Whole(len)
    BY DEF Grows
  <1>2. PICK b \in Blocks :
          /\ b = mod[a] \/ block[b].owner = NoOwner
          /\ mod' = [mod EXCEPT ![a] = b]
          /\ block' = [x \in Blocks |->
               IF x = b THEN NewBlock(mem[a], nb, len, Elems(a))
               ELSE IF x = mod[a] THEN Free ELSE block[x]]
    BY <1>1 DEF Grow
  <1>3. block'[b] = [owner |-> mem[a], size |-> AllocSize(nb), bcap |-> nb,
                     blen |-> len, elems |-> Resized(Elems(a), Fits(AllocSize(nb)))]
    BY <1>2 DEF NewBlock
  <1>4. /\ \A x \in Blocks :
             x # b => block'[x] = IF x = mod[a] THEN Free ELSE block[x]
        /\ DOMAIN block' = Blocks /\ block' = [x \in Blocks |-> block'[x]]
    BY <1>2
  <1>5. /\ UNCHANGED <<default, mem>> /\ ret' = "data"
        /\ outcome' \in {"running", "aborted", "undefined"}
    BY <1>1 DEF Grow, HeaderWritten, TypeOK
  <1>6. Grown(a, b, nb, len)
    BY <1>1, <1>2, <1>3, <1>4, <1>5 DEF Grown
  <1> QED
    BY <1>6

(* The size of a block is what the header claims, or less than a header,   *)
(* and then no element fits.                                               *)
LEMMA SizeOfBlock ==
  ASSUME NEW nb \in Sizes
  PROVE  /\ AllocSize(nb) \in Sizes /\ Fits(AllocSize(nb)) \in Nat
         /\ Off + nb < SizeMod =>
              AllocSize(nb) = Off + nb /\ Fits(AllocSize(nb)) = nb \div ElemSize
         /\ ~(Off + nb < SizeMod) => Fits(AllocSize(nb)) = 0
  <1>1. nb \in Nat /\ Off \in Nat /\ Off + nb \in Nat /\ nb < SizeMod
    BY SizeAssumption DEF Sizes
  <1>2. AllocSize(nb) \in Sizes
    BY <1>1, ModSize DEF AllocSize
  <1>3. CASE Off + nb < SizeMod
    <2>1. AllocSize(nb) = Off + nb
      BY <1>1, <1>3, ModSize DEF AllocSize
    <2>2. ~(Off + nb < Off) /\ (Off + nb) - Off = nb
      BY <1>1
    <2>3. Fits(AllocSize(nb)) = nb \div ElemSize
      <3>1. Fits(Off + nb) = IF Off + nb < Off THEN 0 ELSE ((Off + nb) - Off) \div ElemSize
        BY DEF Fits
      <3> QED
        BY <2>1, <2>2, <3>1
    <2>4. nb \div ElemSize \in Nat
      BY <1>1, SizeAssumption, SMT
    <2> QED
      BY <1>2, <1>3, <2>1, <2>3, <2>4
  <1>4. CASE ~(Off + nb < SizeMod)
    <2>1. \A M, x, y \in Nat : x < M /\ y < M /\ x + y >= M =>
            (x + y) % M = x + y - M
      BY SMT
    <2>2. Off < SizeMod /\ SizeMod \in Nat /\ Off + nb >= SizeMod
      BY <1>1, <1>4, SizeAssumption
    <2>3. (Off + nb) % SizeMod = Off + nb - SizeMod
      BY <1>1, <2>1, <2>2
    <2>4. AllocSize(nb) < Off
      BY <1>1, <2>2, <2>3 DEF AllocSize
    <2>5. Fits(AllocSize(nb)) = 0
      BY <2>4 DEF Fits
    <2> QED
      BY <1>2, <1>4, <2>5
  <1> QED
    BY <1>3, <1>4

LEMMA ElemsType ==
  ASSUME TypeOK, NEW a \in Arrays
  PROVE  Elems(a) \in Seq(Values \cup {Junk})
  <1>1. CASE mod[a] = NoBlock
    BY <1>1 DEF Elems
  <1>2. CASE mod[a] # NoBlock
    <2>1. block[mod[a]] \in BlockType
      BY <1>2 DEF TypeOK
    <2> QED
      BY <1>2, <2>1 DEF Elems, BlockType
  <1> QED
    BY <1>1, <1>2

LEMMA ResizedType ==
  ASSUME NEW S, NEW s \in Seq(S), NEW n \in Nat, Junk \in S
  PROVE  Resized(s, n) \in Seq(S) /\ Len(Resized(s, n)) = n
  BY DEF Resized

(***************************************************************************)
(* Type correctness and the truth of the header.                           *)
(***************************************************************************)

(* CapacityBacked with the multiples spelt out. *)
HeaderInv ==
  \A a \in Arrays : mod[a] # NoBlock =>
    LET b == block[mod[a]]
    IN  /\ b.size = AllocSize(b.bcap)
        /\ b.blen <= b.bcap
        /\ Len(b.elems) = Fits(b.size)
        /\ HasCkd => Whole(b.blen)

CapInv == TypeOK /\ HeaderInv /\ Ownership

LEMMA InitCapInv == Init => CapInv
  <1> SUFFICES ASSUME Init
               PROVE  CapInv
    OBVIOUS
  <1>1. Free \in BlockType
    <2>1. 0 \in Sizes
      BY SizeAssumption DEF Sizes
    <2>2. <<>> \in Seq(Values \cup {Junk})
      OBVIOUS
    <2> QED
      BY <2>1, <2>2 DEF Free, BlockType
  <1>2. TypeOK
    BY <1>1, NullAssumption DEF Init, TypeOK
  <1>3. HeaderInv /\ Ownership
    BY DEF Init, HeaderInv, Ownership, Free
  <1> QED
    BY <1>2, <1>3 DEF CapInv

LEMMA FreeType == Free \in BlockType /\ Free.owner = NoOwner
  <1>1. 0 \in Sizes
    BY SizeAssumption DEF Sizes
  <1>2. <<>> \in Seq(Values \cup {Junk})
    OBVIOUS
  <1> QED
    BY <1>1, <1>2 DEF Free, BlockType

LEMMA QuietInv ==
  ASSUME CapInv, Quiet
  PROVE  CapInv'
  <1>1. TypeOK'
    BY DEF CapInv, TypeOK, Quiet
  <1>2. HeaderInv'
    BY DEF CapInv, HeaderInv, Quiet, Whole
  <1>3. Ownership'
    BY DEF CapInv, Ownership, Quiet
  <1> QED
    BY <1>1, <1>2, <1>3 DEF CapInv

LEMMA GrowsInv ==
  ASSUME CapInv, NEW a \in Arrays, Grows(a)
  PROVE  CapInv'
  <1> USE DEF CapInv
  <1>1. PICK b \in Blocks, nb \in Sizes, len \in Sizes : Grown(a, b, nb, len)
    BY GrowsTo
  <1> USE <1>1 DEF Grown
  <1>2. /\ AllocSize(nb) \in Sizes
        /\ Resized(Elems(a), Fits(AllocSize(nb))) \in Seq(Values \cup {Junk})
        /\ Len(Resized(Elems(a), Fits(AllocSize(nb)))) = Fits(AllocSize(nb))
    BY SizeOfBlock, ElemsType, ResizedType
  <1>3. mem[a] \in Allocators /\ mem[a] # NoOwner
    BY NullAssumption DEF TypeOK
  <1>4. block'[b] \in BlockType /\ block'[b].owner = mem[a]
    BY <1>1, <1>2, <1>3 DEF BlockType
  <1>5. \A c \in Arrays : c # a /\ mod[c] # NoBlock => mod[c] # b /\ mod[c] # mod[a]
    BY <1>1, <1>3, NullAssumption DEF Ownership, TypeOK
  <1>6. TypeOK'
    <2>1. \A x \in Blocks : block'[x] \in BlockType
      BY <1>1, <1>4, FreeType DEF TypeOK
    <2>2. mod' \in [Arrays -> Blocks \cup {NoBlock}]
      BY <1>1 DEF TypeOK
    <2> QED
      BY <1>1, <2>1, <2>2 DEF TypeOK
  <1>7. HeaderInv'
    <2> SUFFICES ASSUME NEW c \in Arrays, mod'[c] # NoBlock
                 PROVE  LET x == block'[mod'[c]]
                        IN  /\ x.size = AllocSize(x.bcap)
                            /\ x.blen <= x.bcap
                            /\ Len(x.elems) = Fits(x.size)
                            /\ HasCkd => Whole(x.blen)
      BY DEF HeaderInv, Whole
    <2>1. CASE c = a
      <3>1. mod'[c] = b
        BY <2>1, <1>1 DEF TypeOK
      <3>2. HasCkd => Whole(len)
        <4>1. CASE mod[a] = NoBlock
          <5>1. Size(a) = 0 * ElemSize
            BY <4>1, SizeAssumption DEF Size
          <5>2. Whole(Size(a))
            BY <5>1 DEF Whole
          <5> QED
            BY <1>1, <5>2
        <4>2. CASE mod[a] # NoBlock
          BY <4>2, <1>1 DEF HeaderInv, Size
        <4> QED
          BY <4>1, <4>2
      <3> QED
        BY <1>1, <1>2, <3>1, <3>2
    <2>2. CASE c # a
      <3>1. mod'[c] = mod[c] /\ mod[c] # b /\ mod[c] # mod[a] /\ mod[c] \in Blocks
        BY <2>2, <1>1, <1>5 DEF TypeOK
      <3>2. block'[mod[c]] = block[mod[c]]
        BY <3>1, <1>1
      <3> QED
        BY <3>1, <3>2 DEF HeaderInv
    <2> QED
      BY <2>1, <2>2
  <1>8. Ownership'
    <2>1. ASSUME NEW c \in Arrays, mod'[c] # NoBlock
          PROVE  block'[mod'[c]].owner = mem'[c]
      <3>1. CASE c = a
        BY <3>1, <1>1, <1>4 DEF TypeOK
      <3>2. CASE c # a
        <4>1. mod'[c] = mod[c] /\ mod[c] # b /\ mod[c] # mod[a] /\ mod[c] \in Blocks
          BY <2>1, <3>2, <1>1, <1>5 DEF TypeOK
        <4>2. block'[mod[c]] = block[mod[c]]
          BY <4>1, <1>1
        <4>3. block[mod[c]].owner = mem[c] /\ mem' = mem
          BY <1>1, <2>1, <4>1 DEF Ownership
        <4> QED
          BY <4>1, <4>2, <4>3
      <3> QED
        BY <3>1, <3>2
    <2>2. \A c, d \in Arrays : c # d /\ mod'[c] = mod'[d] => mod'[c] = NoBlock
      BY <1>1, <1>5 DEF Ownership, TypeOK
    <2>3. ASSUME NEW x \in Blocks, block'[x].owner # NoOwner
          PROVE  \E c \in Arrays : mod'[c] = x
      <3>1. CASE x = b
        BY <3>1, <1>1 DEF TypeOK
      <3>2. CASE x # b
        <4>1. x # mod[a] /\ block'[x] = block[x]
          BY <2>3, <3>2, <1>1, FreeType
        <4>2. PICK c \in Arrays : mod[c] = x
          BY <2>3, <4>1 DEF Ownership
        <4> QED
          BY <4>1, <4>2, <1>1 DEF TypeOK
      <3> QED
        BY <3>1, <3>2
    <2> QED
      BY <2>1, <2>2, <2>3 DEF Ownership
  <1> QED
    BY <1>6, <1>7, <1>8

LEMMA SetsLenInv ==
  ASSUME CapInv, NEW a \in Arrays, SetsLen(a)
  PROVE  CapInv'
  <1> USE DEF CapInv
  <1>1. PICK len \in Sizes :
          /\ mod[a] # NoBlock /\ SetLen(a, len) /\ len <= Cap(a)
          /\ HasCkd /\ Whole(Size(a)) => Whole(len)
    BY DEF SetsLen
  <1>2. mod[a] \in Blocks /\ block[mod[a]] \in BlockType
    BY <1>1 DEF TypeOK
  <1> DEFINE x == WithLen(block[mod[a]], len)
  <1>3. /\ x \in BlockType /\ x.blen = len
        /\ x.owner = block[mod[a]].owner /\ x.size = block[mod[a]].size
        /\ x.bcap = block[mod[a]].bcap /\ x.elems = block[mod[a]].elems
    BY <1>2 DEF WithLen, BlockType
  <1> HIDE DEF x
  <1>4. /\ block' = [block EXCEPT ![mod[a]] = x]
        /\ UNCHANGED <<default, mem, mod>> /\ ret' = "data" /\ outcome' = outcome
    BY <1>1 DEF SetLen, Returns, x
  <1>5. block'[mod[a]] = x /\ \A b \in Blocks : b # mod[a] => block'[b] = block[b]
    BY <1>2, <1>4 DEF TypeOK
  <1>6. TypeOK'
    BY <1>3, <1>4 DEF TypeOK
  <1>7. HeaderInv'
    <2> SUFFICES ASSUME NEW c \in Arrays, mod[c] # NoBlock
                 PROVE  LET y == block'[mod[c]]
                        IN  /\ y.size = AllocSize(y.bcap)
                            /\ y.blen <= y.bcap
                            /\ Len(y.elems) = Fits(y.size)
                            /\ HasCkd => Whole(y.blen)
      BY <1>4 DEF HeaderInv, Whole
    <2>1. CASE mod[c] = mod[a]
      BY <2>1, <1>1, <1>3, <1>5 DEF HeaderInv, Cap, Size
    <2>2. CASE mod[c] # mod[a]
      <3>1. block'[mod[c]] = block[mod[c]]
        BY <2>2, <1>5 DEF TypeOK
      <3> QED
        BY <3>1 DEF HeaderInv
    <2> QED
      BY <2>1, <2>2
  <1>8. \A b \in Blocks : block'[b].owner = block[b].owner
    BY <1>3, <1>5
  <1>9. Ownership'
    BY <1>4, <1>8 DEF Ownership, TypeOK
  <1> QED
    BY <1>6, <1>7, <1>9

LEMMA HeaderLenInCap ==
  ASSUME TypeOK, HeaderInv
  PROVE  LenInCap
  <1> SUFFICES ASSUME NEW a \in Arrays
               PROVE  Size(a) <= Cap(a)
    BY DEF LenInCap
  <1>1. CASE mod[a] = NoBlock
    BY <1>1 DEF Size, Cap
  <1>2. CASE mod[a] # NoBlock
    BY <1>2 DEF Size, Cap, HeaderInv
  <1> QED
    BY <1>1, <1>2

(* As long as its capacity does not wrap with the header, an array has     *)
(* the elements of its capacity.                                           *)
LEMMA SoundRoom ==
  ASSUME CapInv, NEW a \in Arrays, Sound(a)
  PROVE  Len(Elems(a)) = Cap(a) \div ElemSize
  <1>1. CASE mod[a] = NoBlock
    <2>1. 0 \div ElemSize = 0
      BY SizeAssumption, SMT
    <2> QED
      BY <1>1, <2>1 DEF Elems, Cap
  <1>2. CASE mod[a] # NoBlock
    <2>1. Off + Cap(a) < SizeMod
      BY DEF Sound
    <2>2. /\ Cap(a) = block[mod[a]].bcap /\ Elems(a) = block[mod[a]].elems
          /\ Len(Elems(a)) = Fits(AllocSize(Cap(a)))
      BY <1>2 DEF CapInv, HeaderInv, Cap, Elems
    <2>3. Cap(a) \in Sizes
      BY SizesType DEF CapInv
    <2> QED
      BY <2>1, <2>2, <2>3, SizeOfBlock
  <1> QED
    BY <1>1, <1>2

(* The elements in use are elements of the block. *)
LEMMA StoreInRange ==
  ASSUME CapInv, NEW a \in Arrays, Sound(a)
  PROVE  /\ Size(a) \div ElemSize <= Len(Elems(a))
         /\ Size(a) \div ElemSize \in Nat /\ Len(Elems(a)) \in Nat
  <1>1. \A x, y \in Nat, E \in Nat \ {0} :
          x <= y => x \div E <= y \div E /\ x \div E \in Nat /\ y \div E \in Nat
    BY SMT
  <1>2. Size(a) \in Nat /\ Cap(a) \in Nat /\ Size(a) <= Cap(a)
    BY SizesType, HeaderLenInCap, SizeAssumption DEF CapInv, LenInCap, Sizes
  <1> QED
    BY <1>1, <1>2, SoundRoom, SizeAssumption

LEMMA StoresInv ==
  ASSUME CapInv, NEW a \in Arrays, Stores(a)
  PROVE  CapInv'
  <1> USE DEF CapInv
  <1>1. PICK i \in 1..SizeMod, v \in Values : mod[a] # NoBlock /\ Write(a, i, v)
    BY DEF Stores
  <1>2. mod[a] \in Blocks /\ block[mod[a]] \in BlockType
    BY <1>1 DEF TypeOK
  <1> DEFINE s == [Elems(a) EXCEPT ![i] = v]
             x == WithElems(block[mod[a]], s)
  <1>3. Elems(a) = block[mod[a]].elems
    BY <1>1 DEF Elems
  <1>4. s \in Seq(Values \cup {Junk}) /\ Len(s) = Len(Elems(a))
    <2>1. Elems(a) \in Seq(Values \cup {Junk}) /\ v \in Values \cup {Junk}
      BY ElemsType
    <2>2. i \in 1..Len(Elems(a))
      <3>1. i \in Nat /\ i >= 1 /\ i <= Len(Elems(a)) /\ Len(Elems(a)) \in Nat
        BY <1>1, <2>1, SizeAssumption, LenProperties DEF Write
      <3> QED
        BY <3>1
    <2> QED
      BY <2>1, <2>2, ExceptSeq
  <1> HIDE DEF s
  <1>5. /\ x \in BlockType /\ x.elems = s
        /\ x.owner = block[mod[a]].owner /\ x.size = block[mod[a]].size
        /\ x.bcap = block[mod[a]].bcap /\ x.blen = block[mod[a]].blen
    BY <1>2, <1>4 DEF WithElems, BlockType
  <1> HIDE DEF x
  <1>6. /\ block' = [block EXCEPT ![mod[a]] = x]
        /\ UNCHANGED <<default, mem, mod>> /\ ret' = "data" /\ outcome' = outcome
    BY <1>1 DEF Write, Returns, x, s
  <1>7. block'[mod[a]] = x /\ \A b \in Blocks : b # mod[a] => block'[b] = block[b]
    BY <1>2, <1>6 DEF TypeOK
  <1>8. TypeOK'
    BY <1>5, <1>6 DEF TypeOK
  <1>9. HeaderInv'
    <2> SUFFICES ASSUME NEW c \in Arrays, mod[c] # NoBlock
                 PROVE  LET y == block'[mod[c]]
                        IN  /\ y.size = AllocSize(y.bcap)
                            /\ y.blen <= y.bcap
                            /\ Len(y.elems) = Fits(y.size)
                            /\ HasCkd => Whole(y.blen)
      BY <1>6 DEF HeaderInv, Whole
    <2>1. CASE mod[c] = mod[a]
      BY <2>1, <1>1, <1>3, <1>4, <1>5, <1>7 DEF HeaderInv
    <2>2. CASE mod[c] # mod[a]
      <3>1. block'[mod[c]] = block[mod[c]]
        BY <2>2, <1>7 DEF TypeOK
      <3> QED
        BY <3>1 DEF HeaderInv
    <2> QED
      BY <2>1, <2>2
  <1>10. \A b \in Blocks : block'[b].owner = block[b].owner
    BY <1>5, <1>7
  <1>11. Ownership'
    BY <1>6, <1>10 DEF Ownership, TypeOK
  <1> QED
    BY <1>8, <1>9, <1>11

LEMMA ReleaseInv ==
  ASSUME CapInv, NEW a \in Arrays, Release(a)
  PROVE  CapInv'
  <1> USE DEF CapInv
  <1>1. /\ mod[a] # NoBlock
        /\ block' = [block EXCEPT ![mod[a]] = Free]
        /\ mod' = [mod EXCEPT ![a] = NoBlock]
        /\ UNCHANGED <<default, mem, outcome>> /\ ret' = "data"
    BY DEF Release, Released, Returns
  <1>2. mod[a] \in Blocks
    BY <1>1 DEF TypeOK
  <1>3. block'[mod[a]] = Free /\ \A b \in Blocks : b # mod[a] => block'[b] = block[b]
    BY <1>1, <1>2 DEF TypeOK
  <1>4. TypeOK'
    BY <1>1, FreeType DEF TypeOK
  <1>5. ASSUME NEW c \in Arrays, mod'[c] # NoBlock
        PROVE  c # a /\ mod'[c] = mod[c] /\ block'[mod[c]] = block[mod[c]]
    <2>1. c # a /\ mod'[c] = mod[c]
      BY <1>1, <1>5 DEF TypeOK
    <2>2. mod[c] # mod[a] /\ mod[c] \in Blocks
      BY <1>5, <2>1 DEF Ownership, TypeOK
    <2> QED
      BY <2>1, <2>2, <1>3
  <1>6. HeaderInv'
    BY <1>5 DEF HeaderInv, Whole
  <1>7. Ownership'
    <2>1. \A c \in Arrays : mod'[c] # NoBlock => block'[mod'[c]].owner = mem'[c]
      BY <1>1, <1>5 DEF Ownership
    <2>2. \A c, d \in Arrays : c # d /\ mod'[c] = mod'[d] => mod'[c] = NoBlock
      BY <1>5 DEF Ownership
    <2>3. ASSUME NEW b \in Blocks, block'[b].owner # NoOwner
          PROVE  \E c \in Arrays : mod'[c] = b
      <3>1. b # mod[a] /\ block[b].owner # NoOwner
        BY <2>3, <1>3, FreeType
      <3>2. PICK c \in Arrays : mod[c] = b
        BY <3>1 DEF Ownership
      <3> QED
        BY <3>1, <3>2, <1>1 DEF TypeOK
    <2> QED
      BY <2>1, <2>2, <2>3 DEF Ownership
  <1> QED
    BY <1>4, <1>6, <1>7

LEMMA NextCapInv == CapInv /\ [Next]_vars => CapInv'
  <1> SUFFICES ASSUME CapInv, [Next]_vars
               PROVE  CapInv'
    OBVIOUS
  <1>1. TypeOK /\ LenInCap
    BY HeaderLenInCap DEF CapInv
  <1> QED
    BY <1>1, NextShape, QuietInv, GrowsInv, SetsLenInv, StoresInv, ReleaseInv

LEMMA HeaderBacked == HasCkd /\ CapInv => CapacityBacked
  <1> SUFFICES ASSUME HasCkd, CapInv, NEW a \in Arrays, mod[a] # NoBlock
               PROVE  LET b == block[mod[a]]
                      IN  /\ b.size = AllocSize(b.bcap)
                          /\ b.blen <= b.bcap /\ b.blen % ElemSize = 0
                          /\ IF Sound(a)
                               THEN /\ b.size >= Off + b.bcap
                                    /\ b.blen <= Len(b.elems) * ElemSize
                               ELSE b.elems = <<>>
    BY DEF CapacityBacked
  <1> DEFINE b == block[mod[a]]
  <1>1. /\ b.blen \in Nat /\ b.bcap \in Nat /\ b.bcap \in Sizes
        /\ b.elems \in Seq(Values \cup {Junk})
    BY SizeAssumption DEF CapInv, TypeOK, BlockType, Sizes
  <1>2. /\ b.size = AllocSize(b.bcap) /\ b.blen <= b.bcap
        /\ Len(b.elems) = Fits(AllocSize(b.bcap)) /\ Whole(b.blen)
    BY DEF CapInv, HeaderInv
  <1>3. Sound(a) <=> Off + b.bcap < SizeMod
    BY DEF Sound, Cap
  <1>4. /\ b.blen % ElemSize = 0
        /\ b.blen <= (b.bcap \div ElemSize) * ElemSize
    BY <1>1, <1>2, WholeFits
  <1> HIDE DEF b
  <1>5. CASE Off + b.bcap < SizeMod
    <2>1. b.size = Off + b.bcap /\ Len(b.elems) = b.bcap \div ElemSize
      BY <1>1, <1>2, <1>5, SizeOfBlock
    <2>2. b.size >= Off + b.bcap
      BY <1>1, <2>1, SizeAssumption
    <2> QED
      BY <1>2, <1>3, <1>4, <1>5, <2>1, <2>2 DEF b
  <1>6. CASE ~(Off + b.bcap < SizeMod)
    <2>1. Len(b.elems) = 0
      BY <1>1, <1>2, <1>6, SizeOfBlock
    <2>2. b.elems = <<>>
      BY <1>1, <2>1, EmptySeq
    <2> QED
      BY <1>2, <1>3, <1>4, <1>6, <2>2 DEF b
  <1> QED
    BY <1>5, <1>6

(* Every variable keeps its type. *)
THEOREM TypeCorrect == Spec => []TypeOK
  <1>1. CapInv => TypeOK
    BY DEF CapInv
  <1> QED
    BY InitCapInv, NextCapInv, <1>1, PTL DEF Spec

(* What every header says of its block, in a build that checks its         *)
(* multiplications: the truth, unless capacity and header together wrap,   *)
(* and then that nothing lies in the block.                                *)
THEOREM CapacityBackedHolds == HasCkd => (Spec => []CapacityBacked)
  <1> SUFFICES ASSUME HasCkd
               PROVE  Spec => []CapacityBacked
    OBVIOUS
  <1>1. CapInv => CapacityBacked
    BY HeaderBacked
  <1> QED
    BY InitCapInv, NextCapInv, <1>1, PTL DEF Spec

(* The memory that is asked for is there when a pointer is returned. *)
LEMMA ReserveRoom ==
  ASSUME CapInv, NEW a \in Arrays, NEW nb \in Sizes, ReserveBytes(a, nb),
         ret' = "data", Sound(a), Off + nb < SizeMod
  PROVE  nb \div ElemSize <= Room(a)'
  <1>1. TypeOK /\ ret' # "null" /\ nb \in Nat /\ Cap(a) \in Nat
    BY SizesType, SizeAssumption DEF Sizes, CapInv
  <1>2. CASE NeedsBlock(a, nb)
    <2>1. Grow(a, nb, Lesser(Size(a), nb))
      BY <1>1, <1>2 DEF ReserveBytes, Allocate, Refuse
    <2>2. PICK b \in Blocks :
            /\ mod' = [mod EXCEPT ![a] = b]
            /\ block'[b] = NewBlock(mem[a], nb, Lesser(Size(a), nb), Elems(a))
      BY <2>1 DEF Grow
    <2>3. mod'[a] = b /\ b # NoBlock
      BY <1>1, <2>2, NullAssumption DEF TypeOK
    <2>4. Elems(a)' = Resized(Elems(a), Fits(AllocSize(nb)))
      BY <2>2, <2>3 DEF Elems, NewBlock
    <2>5. Len(Elems(a)') = nb \div ElemSize /\ nb \div ElemSize \in Nat
      BY <1>1, <2>4, SizeOfBlock, ElemsType, ResizedType
    <2> QED
      BY <2>5 DEF Room
  <1>3. CASE ~ NeedsBlock(a, nb)
    <2>1. mod' = mod /\ block' = block
      BY <1>3 DEF ReserveBytes, Done
    <2>2. Elems(a)' = Elems(a)
      BY <2>1 DEF Elems
    <2>3. Len(Elems(a)) = Cap(a) \div ElemSize
      BY SoundRoom
    <2>4. nb <= Cap(a)
      BY <1>1, <1>3 DEF NeedsBlock
    <2>5. \A x, y \in Nat, E \in Nat \ {0} : x <= y => x \div E <= y \div E
      BY SMT
    <2> QED
      BY <1>1, <2>2, <2>3, <2>4, <2>5, SizeAssumption DEF Room
  <1> QED
    BY <1>2, <1>3

LEMMA ElemsRoom ==
  ASSUME CapInv, NEW a \in Arrays, NEW n \in Nat, ReserveElems(a, n),
         ret' = "data", Sound(a), Off + n * ElemSize < SizeMod
  PROVE  n <= Room(a)'
  <1> DEFINE nb == n * ElemSize
  <1>1. nb \in Nat
    BY SizeAssumption
  <1>2. nb \div ElemSize = n
    <2>1. \A E \in Nat \ {0} : (n * E) \div E = n
      BY SMT
    <2> QED
      BY <2>1, SizeAssumption
  <1>3. ReserveBytes(a, nb % SizeMod)
    BY DEF ReserveElems, Refuse
  <1>4. Off + nb < SizeMod
    OBVIOUS
  <1> HIDE DEF nb
  <1>5. nb < SizeMod
    BY <1>1, <1>4, SizeAssumption
  <1>6. nb \in Sizes /\ nb % SizeMod = nb
    BY <1>1, <1>5, ModSize
  <1> QED
    BY <1>2, <1>3, <1>4, <1>6, ReserveRoom

(* x bytes of whole elements, and n elements more. *)
LEMMA WholeMore ==
  ASSUME NEW x \in Nat, Whole(x), NEW n \in Nat
  PROVE  /\ x \div ElemSize \in Nat
         /\ ((x \div ElemSize) + n) * ElemSize = x + n * ElemSize
  <1>1. PICK k \in Nat : x = k * ElemSize
    BY DEF Whole
  <1>2. x \div ElemSize = k
    <2>1. \A E \in Nat \ {0} : (k * E) \div E = k
      BY SMT
    <2> QED
      BY <1>1, <2>1, SizeAssumption
  <1>3. \A E \in Nat : (k + n) * E = k * E + n * E
    BY SMT
  <1> QED
    BY <1>1, <1>2, <1>3, SizeAssumption

LEMMA RoomStep ==
  ASSUME HasCkd, CapInv, NEW a \in Arrays, NEW n \in Requests, ret' = "data",
         Sound(a)
  PROVE  /\ Reserve(a, n) /\ Holdable(0, n) => n <= Room(a)'
         /\ Extend(a, n) /\ Holdable(Size(a), n) =>
              (Size(a) \div ElemSize) + n <= Room(a)'
  <1>1. n \in Nat /\ TypeOK /\ Size(a) \in Nat /\ n * ElemSize \in Nat
    BY RequestAssumption, SizesType, SizeAssumption DEF CapInv, Sizes
  <1>2. ASSUME Reserve(a, n), Holdable(0, n)
        PROVE  n <= Room(a)'
    <2>1. Off + n * ElemSize < SizeMod
      BY <1>1, <1>2, SizeAssumption DEF Holdable
    <2> QED
      BY <1>1, <1>2, <2>1, ElemsRoom DEF Reserve
  <1>3. ASSUME Extend(a, n), Holdable(Size(a), n)
        PROVE  (Size(a) \div ElemSize) + n <= Room(a)'
    <2>1. Whole(Size(a))
      <3>1. CASE mod[a] = NoBlock
        BY <3>1, SizeAssumption DEF Size, Whole
      <3>2. CASE mod[a] # NoBlock
        BY <3>2 DEF Size, CapInv, HeaderInv
      <3> QED
        BY <3>1, <3>2
    <2> DEFINE len == Size(a) \div ElemSize
    <2>2. len \in Nat /\ (len + n) * ElemSize = Size(a) + n * ElemSize
      BY <1>1, <2>1, WholeMore
    <2>3. Refuse \/ ReserveElems(a, len + n)
      BY <1>3 DEF Extend, ExtendedLen
    <2> HIDE DEF len
    <2>4. ReserveElems(a, len + n)
      BY <2>3 DEF Refuse
    <2>5. len + n \in Nat
      BY <1>1, <2>2
    <2>6. Off + (len + n) * ElemSize < SizeMod
      BY <1>1, <1>3, <2>2, SizeAssumption DEF Holdable
    <2>7. len + n <= Room(a)'
      BY <2>4, <2>5, <2>6, ElemsRoom
    <2> QED
      BY <2>7 DEF len
  <1> QED
    BY <1>2, <1>3

(* When reserve or extend returns a pointer, there is memory behind it for *)
(* the elements asked for, for every width of size_t and every request     *)
(* that does not wrap with the header, of an array that no such request    *)
(* has spoilt, in a build that checks its multiplications.                 *)
THEOREM RoomGrantedHolds == HasCkd => (Spec => RoomGranted)
  <1> SUFFICES ASSUME HasCkd
               PROVE  Spec => RoomGranted
    OBVIOUS
  <1> DEFINE Granted ==
        \A a \in Arrays, n \in Requests : ret' = "data" /\ Sound(a) =>
          /\ Reserve(a, n) /\ Holdable(0, n) => n <= Room(a)'
          /\ Extend(a, n) /\ Holdable(Size(a), n) =>
               (Size(a) \div ElemSize) + n <= Room(a)'
  <1>1. CapInv => Granted
    BY RoomStep
  <1>2. CapInv /\ [Next]_vars => [Granted]_vars
    BY <1>1
  <1> QED
    BY InitCapInv, NextCapInv, <1>2, PTL DEF Spec, RoomGranted

(* Blocks and arrays belong to each other one to one, with the allocator   *)
(* that made the block, in every build.                                    *)
THEOREM OwnershipHolds == Spec => []Ownership
  <1>1. CapInv => Ownership
    BY DEF CapInv
  <1> QED
    BY InitCapInv, NextCapInv, <1>1, PTL DEF Spec

-----------------------------------------------------------------------------
(***************************************************************************)
(* Elements stay where they are and what they are.                         *)
(***************************************************************************)

(* What a step may do to a block that an array keeps. *)
Stable(a) ==
  mod[a] # NoBlock /\ mod'[a] # NoBlock =>
    /\ Cap(a)' >= Cap(a)
    /\ mod'[a] # mod[a] => Cap(a)' > Cap(a)

LEMMA SameBlockStable ==
  ASSUME TypeOK, NEW a \in Arrays, mod'[a] = mod[a],
         mod[a] # NoBlock => block'[mod[a]].bcap = block[mod[a]].bcap
  PROVE  Stable(a)
  <1>1. Cap(a)' = Cap(a) /\ Cap(a) \in Nat
    BY SizesType, SizeAssumption DEF Cap, Sizes
  <1> QED
    BY <1>1 DEF Stable

LEMMA StableStep ==
  ASSUME CapInv, [Next]_vars, NEW c \in Arrays
  PROVE  Stable(c)
  <1> USE DEF CapInv
  <1>1. CASE Quiet
    BY <1>1, SameBlockStable DEF Quiet
  <1>2. ASSUME NEW a \in Arrays, Grows(a)
        PROVE  Stable(c)
    <2>1. PICK b \in Blocks, nb \in Sizes, len \in Sizes : Grown(a, b, nb, len)
      BY <1>2, GrowsTo
    <2>2. CASE c = a
      <3>1. mod'[c] = b /\ b # NoBlock /\ Cap(c)' = nb
        BY <2>1, <2>2, NullAssumption DEF TypeOK, Cap, Grown
      <3>2. Cap(c) \in Nat /\ nb \in Nat
        BY SizesType, SizeAssumption DEF Sizes
      <3> QED
        BY <2>1, <2>2, <3>1, <3>2 DEF Stable, Grown
    <2>3. CASE c # a
      <3>1. mod'[c] = mod[c]
        BY <2>1, <2>3 DEF TypeOK, Grown
      <3>2. ASSUME mod[c] # NoBlock
            PROVE  block'[mod[c]] = block[mod[c]]
        <4>1. mod[c] # mod[a] /\ mod[c] \in Blocks
          BY <2>3, <3>2 DEF Ownership, TypeOK
        <4>2. block[mod[c]].owner \in Allocators
          BY <3>2 DEF Ownership, TypeOK
        <4>3. mod[c] # b
          BY <2>1, <4>1, <4>2, NullAssumption DEF Grown
        <4> QED
          BY <2>1, <4>1, <4>3 DEF Grown
      <3> QED
        BY <3>1, <3>2, SameBlockStable
    <2> QED
      BY <2>2, <2>3
  <1>3. ASSUME NEW a \in Arrays, SetsLen(a) \/ Stores(a)
        PROVE  Stable(c)
    <2>1. mod[a] \in Blocks
      BY <1>3 DEF SetsLen, Stores, TypeOK
    <2>2. /\ mod' = mod
          /\ \A x \in Blocks : block'[x].bcap = block[x].bcap
      BY <1>3, <2>1 DEF SetsLen, Stores, SetLen, Write, WithLen, WithElems, TypeOK
    <2>3. mod[c] # NoBlock => mod[c] \in Blocks
      BY DEF TypeOK
    <2> QED
      BY <2>2, <2>3, SameBlockStable
  <1>4. ASSUME NEW a \in Arrays, Release(a)
        PROVE  Stable(c)
    <2>1. mod' = [mod EXCEPT ![a] = NoBlock] /\ mod[a] \in Blocks
          /\ block' = [block EXCEPT ![mod[a]] = Free]
      BY <1>4 DEF Release, Released, TypeOK
    <2>2. CASE c = a
      BY <2>1, <2>2 DEF Stable, TypeOK
    <2>3. CASE c # a
      <3>1. mod'[c] = mod[c]
        BY <2>1, <2>3 DEF TypeOK
      <3>2. mod[c] # NoBlock => mod[c] # mod[a] /\ mod[c] \in Blocks
        BY <2>3 DEF Ownership, TypeOK
      <3>3. mod[c] # NoBlock => block'[mod[c]] = block[mod[c]]
        BY <2>1, <3>2 DEF TypeOK
      <3> QED
        BY <3>1, <3>3, SameBlockStable
    <2> QED
      BY <2>2, <2>3
  <1> QED
    BY <1>1, <1>2, <1>3, <1>4, NextShape, HeaderLenInCap

(* While an array has a block, its capacity never shrinks and its elements *)
(* move only when the capacity grows.                                      *)
THEOREM StableElementsHolds == Spec => StableElements
  <1>1. CapInv /\ [Next]_vars =>
          [\A a \in Arrays : mod[a] # NoBlock /\ mod'[a] # NoBlock =>
             /\ Cap(a)' >= Cap(a)
             /\ mod'[a] # mod[a] => Cap(a)' > Cap(a)]_vars
    BY StableStep DEF Stable
  <1> QED
    BY InitCapInv, NextCapInv, <1>1, PTL DEF Spec, StableElements

-----------------------------------------------------------------------------
(***************************************************************************)
(* Refinement: an array is the sequence of its elements in use.  A step    *)
(* that gives a block or a length appends or empties, a store writes, a    *)
(* release empties, and every other step keeps the sequences.              *)
(***************************************************************************)

LEMMA PrefixProps ==
  ASSUME NEW S, NEW s \in Seq(S), NEW n \in Nat, n <= Len(s)
  PROVE  /\ SubSeq(s, 1, n) \in Seq(S) /\ Len(SubSeq(s, 1, n)) = n
         /\ DOMAIN SubSeq(s, 1, n) = 1..n
         /\ \A i \in 1..n : SubSeq(s, 1, n)[i] = s[i]
  <1>1. \A i \in 1..n : s[i] \in S
    BY LenProperties
  <1>2. /\ SubSeq(s, 1, n) \in Seq(S) /\ Len(SubSeq(s, 1, n)) = n
        /\ \A i \in 1..n : SubSeq(s, 1, n)[i] = s[i]
    BY <1>1, SubSeqProperties
  <1> QED
    BY <1>2, LenProperties

LEMMA DivMonotonic ==
  ASSUME NEW x \in Nat, NEW y \in Nat, x <= y
  PROVE  /\ x \div ElemSize <= y \div ElemSize
         /\ x \div ElemSize \in Nat /\ y \div ElemSize \in Nat
  <1>1. \A E \in Nat \ {0} :
          x \div E <= y \div E /\ x \div E \in Nat /\ y \div E \in Nat
    BY SMT
  <1> QED
    BY <1>1, SizeAssumption

LEMMA ContentsProps ==
  ASSUME CapInv, NEW a \in Arrays, Sound(a)
  PROVE  /\ Len(Contents(a)) = Size(a) \div ElemSize
         /\ DOMAIN Contents(a) = 1..(Size(a) \div ElemSize)
         /\ \A i \in 1..(Size(a) \div ElemSize) : Contents(a)[i] = Elems(a)[i]
  BY PrefixProps, ElemsType, StoreInRange DEF Contents, CapInv

(* What holds of array a after a step that makes its elements s, n bytes   *)
(* of which are in use.                                                    *)
LEMMA ContentsAppend ==
  ASSUME CapInv, NEW a \in Arrays, Sound(a), NEW n \in Nat,
         NEW s \in Seq(Values \cup {Junk}),
         Elems(a)' = s, Size(a)' = n, Size(a) <= n, n \div ElemSize <= Len(s),
         \A i \in 1..(Size(a) \div ElemSize) : s[i] = Elems(a)[i]
  PROVE  /\ Len(Contents(a)) <= Len(Contents(a)')
         /\ \A i \in DOMAIN Contents(a) : Contents(a)'[i] = Contents(a)[i]
         /\ Contents(a)' \in Seq(Values \cup {Junk})
  <1>1. Contents(a)' = SubSeq(s, 1, n \div ElemSize)
    BY DEF Contents
  <1>2. Size(a) \in Nat
    BY SizesType, SizeAssumption DEF CapInv, Sizes
  <1>3. Size(a) \div ElemSize <= n \div ElemSize /\ n \div ElemSize \in Nat
        /\ Size(a) \div ElemSize \in Nat
    BY <1>2, DivMonotonic
  <1>4. /\ Len(Contents(a)') = n \div ElemSize
        /\ \A i \in 1..(n \div ElemSize) : Contents(a)'[i] = s[i]
        /\ Contents(a)' \in Seq(Values \cup {Junk})
    BY <1>1, <1>3, PrefixProps
  <1> QED
    BY <1>3, <1>4, ContentsProps

LEMMA SameView ==
  ASSUME NEW c \in Arrays, mod'[c] = mod[c],
         mod[c] # NoBlock => block'[mod[c]] = block[mod[c]]
  PROVE  View(c)' = View(c)
  BY DEF View, Sound, Cap, Contents, Elems, Size

(* What is seen of a sound array is its contents, a sequence. *)
LEMMA SoundView ==
  ASSUME CapInv, NEW a \in Arrays, Sound(a)
  PROVE  View(a) = Contents(a) /\ View(a) # Lost
  <1>1. Contents(a) \in Seq(Values \cup {Junk})
    BY PrefixProps, ElemsType, StoreInRange DEF Contents, CapInv
  <1> QED
    BY <1>1, NullAssumption DEF View

LEMMA LostView ==
  ASSUME NEW a \in Arrays, ~Sound(a)
  PROVE  View(a) = Lost
  BY DEF View

(* The other arrays keep their blocks. *)
LEMMA OthersKeep ==
  ASSUME CapInv, NEW a \in Arrays, NEW c \in Arrays, c # a, mod'[c] = mod[c],
         \A x \in Blocks :
           x # mod[a] /\ block[x].owner # NoOwner => block'[x] = block[x]
  PROVE  View(c)' = View(c)
  <1>1. ASSUME mod[c] # NoBlock
        PROVE  block'[mod[c]] = block[mod[c]]
    <2>1. mod[c] # mod[a] /\ mod[c] \in Blocks
      BY <1>1 DEF CapInv, Ownership, TypeOK
    <2>2. block[mod[c]].owner # NoOwner
      BY <1>1, NullAssumption DEF CapInv, Ownership, TypeOK
    <2> QED
      BY <2>1, <2>2
  <1> QED
    BY <1>1, SameView

Map == [a \in Arrays |-> View(a)]

(* A step that leaves every other array's block alone. *)
LEMMA OnlyArray ==
  ASSUME CapInv, NEW a \in Arrays,
         \A c \in Arrays : c # a => mod'[c] = mod[c],
         \A x \in Blocks :
           x # mod[a] /\ block[x].owner # NoOwner => block'[x] = block[x]
  PROVE  Map' = [Map EXCEPT ![a] = View(a)']
  <1>1. \A c \in Arrays : c # a => View(c)' = View(c)
    BY OthersKeep
  <1> QED
    BY <1>1 DEF Map

LEMMA GrowsAppends ==
  ASSUME CapInv, NEW a \in Arrays, Grows(a)
  PROVE  Sequence!AppendTo(a) \/ Sequence!Lose(a)
  <1> USE DEF CapInv
  <1>1. PICK b \in Blocks, nb \in Sizes, len \in Sizes : Grown(a, b, nb, len)
    BY GrowsTo
  <1> DEFINE s == Resized(Elems(a), Fits(AllocSize(nb)))
  <1>2. /\ len \in Nat /\ nb \in Nat /\ len <= nb /\ Size(a) <= len
        /\ Cap(a) <= nb /\ Cap(a) \in Nat /\ Size(a) \in Nat /\ ret' = "data"
    BY <1>1, SizesType, SizeAssumption DEF Sizes, Grown
  <1>3. mod'[a] = b /\ b # NoBlock
    BY <1>1, NullAssumption DEF TypeOK, Grown
  <1>4. Elems(a)' = s /\ Size(a)' = len /\ Cap(a)' = nb
    BY <1>1, <1>3 DEF Elems, Size, Cap, Grown
  <1>5. Map' = [Map EXCEPT ![a] = View(a)']
    <2>1. \A c \in Arrays : c # a => mod'[c] = mod[c]
      BY <1>1 DEF TypeOK, Grown
    <2>2. \A x \in Blocks :
            x # mod[a] /\ block[x].owner # NoOwner => block'[x] = block[x]
      BY <1>1 DEF Grown
    <2> QED
      BY <2>1, <2>2, OnlyArray
  <1>6. CASE ~(Off + nb < SizeMod)
    <2>1. ~Sound(a)'
      BY <1>4, <1>6 DEF Sound
    <2>2. View(a)' = Lost
      BY <2>1 DEF View
    <2> QED
      BY <1>2, <1>5, <2>2 DEF Sequence!Lose, Sequence!Becomes, Map
  <1>7. CASE Off + nb < SizeMod
    <2>1. Sound(a) /\ Sound(a)'
      BY <1>2, <1>4, <1>7, SizeAssumption DEF Sound
    <2>2. Fits(AllocSize(nb)) = nb \div ElemSize
      BY <1>7, SizeOfBlock
    <2>3. len \div ElemSize <= nb \div ElemSize /\ nb \div ElemSize \in Nat
      BY <1>2, DivMonotonic
    <2>4. s \in Seq(Values \cup {Junk}) /\ Len(s) = nb \div ElemSize
      BY <2>2, <2>3, ElemsType, ResizedType
    <2>5. \A i \in 1..(Size(a) \div ElemSize) : s[i] = Elems(a)[i]
      <3>1. Size(a) \div ElemSize <= Len(Elems(a))
            /\ Size(a) \div ElemSize \in Nat /\ Len(Elems(a)) \in Nat
        BY <2>1, StoreInRange
      <3>2. Size(a) \div ElemSize <= nb \div ElemSize
        <4>1. Size(a) \div ElemSize <= len \div ElemSize
              /\ Size(a) \div ElemSize \in Nat /\ len \div ElemSize \in Nat
          BY <1>2, DivMonotonic
        <4> QED
          BY <2>3, <4>1
      <3> QED
        BY <2>2, <2>3, <3>1, <3>2 DEF Resized
    <2> HIDE DEF s
    <2>6. /\ Len(Contents(a)) <= Len(Contents(a)')
          /\ \A i \in DOMAIN Contents(a) : Contents(a)'[i] = Contents(a)[i]
          /\ Contents(a)' \in Seq(Values \cup {Junk})
      BY <1>2, <1>4, <2>1, <2>3, <2>4, <2>5, ContentsAppend
    <2>7. View(a) = Contents(a) /\ View(a) # Lost
      BY <2>1, SoundView
    <2>8. View(a)' = Contents(a)' /\ View(a)' # Lost
      BY <2>1, <2>6, NullAssumption DEF View
    <2>9. Map[a] = Contents(a) /\ Map'[a] = Contents(a)'
      BY <2>7, <2>8 DEF Map
    <2> QED
      BY <1>2, <1>5, <2>6, <2>7, <2>8, <2>9
         DEF Sequence!AppendTo, Sequence!Becomes, Map
  <1> QED
    BY <1>6, <1>7

LEMMA SetsLenAppends ==
  ASSUME CapInv, NEW a \in Arrays, SetsLen(a)
  PROVE  Sequence!AppendTo(a) \/ Sequence!Empty(a) \/ Sequence!Keep
  <1> USE DEF CapInv
  <1>1. PICK len \in Sizes :
          /\ mod[a] # NoBlock /\ SetLen(a, len) /\ len <= Cap(a)
          /\ len >= Size(a) \/ len = 0
    BY DEF SetsLen
  <1>2. mod[a] \in Blocks /\ block[mod[a]] \in BlockType
    BY <1>1 DEF TypeOK
  <1>3. /\ mod' = mod /\ ret' = "data"
        /\ block' = [block EXCEPT ![mod[a]] = WithLen(block[mod[a]], len)]
    BY <1>1, <1>2 DEF SetLen, Returns
  <1>4. block'[mod[a]] = WithLen(block[mod[a]], len)
    BY <1>2, <1>3 DEF TypeOK
  <1>5. /\ Elems(a)' = Elems(a) /\ Size(a)' = len /\ Cap(a)' = Cap(a)
        /\ Sound(a)' = Sound(a)
    BY <1>1, <1>3, <1>4 DEF Elems, Size, Cap, Sound, WithLen
  <1>6. Map' = [Map EXCEPT ![a] = View(a)']
    <2>1. \A x \in Blocks : x # mod[a] => block'[x] = block[x]
      BY <1>3 DEF TypeOK
    <2> QED
      BY <1>3, <2>1, OnlyArray
  <1>7. len \in Nat /\ Size(a) \in Nat /\ Cap(a) \in Nat
    BY SizesType, SizeAssumption DEF Sizes
  <1>8. CASE Sound(a) /\ len >= Size(a)
    <2>1. len \div ElemSize <= Len(Elems(a))
      <3>1. Len(Elems(a)) = Cap(a) \div ElemSize
        BY <1>8, SoundRoom
      <3>2. len \div ElemSize <= Cap(a) \div ElemSize
        BY <1>1, <1>7, DivMonotonic
      <3> QED
        BY <3>1, <3>2
    <2>2. Elems(a) \in Seq(Values \cup {Junk})
      BY ElemsType
    <2>3. /\ Len(Contents(a)) <= Len(Contents(a)')
          /\ \A i \in DOMAIN Contents(a) : Contents(a)'[i] = Contents(a)[i]
          /\ Contents(a)' \in Seq(Values \cup {Junk})
      BY <1>5, <1>7, <1>8, <2>1, <2>2, ContentsAppend
    <2>4. View(a) = Contents(a) /\ View(a) # Lost
      BY <1>8, SoundView
    <2>5. View(a)' = Contents(a)' /\ View(a)' # Lost
      BY <1>5, <1>8, <2>3, NullAssumption DEF View
    <2>6. Map[a] = Contents(a) /\ Map'[a] = Contents(a)'
      BY <2>4, <2>5 DEF Map
    <2> QED
      BY <1>3, <1>6, <2>3, <2>4, <2>5, <2>6
         DEF Sequence!AppendTo, Sequence!Becomes, Map
  <1>9. CASE Sound(a) /\ len = 0
    <2>1. 0 \div ElemSize = 0
      BY SizeAssumption, SMT
    <2>2. Contents(a)' = <<>>
      <3>1. Contents(a)' = SubSeq(Elems(a), 1, 0)
        BY <1>5, <1>9, <2>1 DEF Contents
      <3>2. Elems(a) \in Seq(Values \cup {Junk})
        BY ElemsType
      <3>3. SubSeq(Elems(a), 1, 0) \in Seq(Values \cup {Junk})
            /\ Len(SubSeq(Elems(a), 1, 0)) = 0
        BY <1>9, <3>2, PrefixProps, StoreInRange
      <3> QED
        BY <3>1, <3>3, EmptySeq
    <2>3. View(a)' = <<>>
      BY <1>5, <1>9, <2>2 DEF View
    <2> QED
      BY <1>3, <1>6, <2>3 DEF Sequence!Empty, Sequence!Becomes, Map
  <1>10. CASE ~Sound(a)
    <2>1. View(a)' = View(a)
      BY <1>5, <1>10 DEF View
    <2>2. Map' = Map
      BY <1>6, <2>1 DEF Map
    <2> QED
      BY <1>3, <2>2 DEF Sequence!Keep, Map
  <1> QED
    BY <1>1, <1>8, <1>9, <1>10

LEMMA StoresWrites ==
  ASSUME CapInv, NEW a \in Arrays, Stores(a)
  PROVE  Sequence!Write(a) \/ Sequence!Keep
  <1> USE DEF CapInv
  <1>1. PICK i \in 1..SizeMod, v \in Values : mod[a] # NoBlock /\ Write(a, i, v)
    BY DEF Stores
  <1>2. mod[a] \in Blocks /\ block[mod[a]] \in BlockType
    BY <1>1 DEF TypeOK
  <1> DEFINE s == [Elems(a) EXCEPT ![i] = v]
  <1>3. /\ mod' = mod /\ ret' = "data"
        /\ block' = [block EXCEPT ![mod[a]] = WithElems(block[mod[a]], s)]
        /\ i <= Size(a) \div ElemSize
    BY <1>1, <1>2 DEF Write, Returns
  <1>4. block'[mod[a]] = WithElems(block[mod[a]], s)
    BY <1>2, <1>3 DEF TypeOK
  <1>5. /\ Elems(a)' = s /\ Size(a)' = Size(a) /\ Sound(a)' = Sound(a)
    BY <1>1, <1>3, <1>4 DEF Elems, Size, Cap, Sound, WithElems
  <1>6. Map' = [Map EXCEPT ![a] = View(a)']
    <2>1. \A x \in Blocks : x # mod[a] => block'[x] = block[x]
      BY <1>3 DEF TypeOK
    <2> QED
      BY <1>3, <2>1, OnlyArray
  <1>7. ASSUME Sound(a)
        PROVE  Contents(a)' = [Contents(a) EXCEPT ![i] = v] /\ i \in DOMAIN Contents(a)
    <2> DEFINE n == Size(a) \div ElemSize
    <2>1. n \in Nat /\ n <= Len(Elems(a)) /\ Elems(a) \in Seq(Values \cup {Junk})
      BY <1>7, StoreInRange, ElemsType
    <2>2. i \in 1..n /\ i \in 1..Len(Elems(a))
      BY <1>3, <2>1, SizeAssumption
    <2>3. s \in Seq(Values \cup {Junk}) /\ Len(s) = Len(Elems(a))
          /\ \A j \in 1..Len(s) : s[j] = IF j = i THEN v ELSE Elems(a)[j]
      BY <2>1, <2>2
    <2>4. Contents(a)' = SubSeq(s, 1, n)
      BY <1>5 DEF Contents
    <2> HIDE DEF s
    <2>5. Contents(a)' \in Seq(Values \cup {Junk}) /\ Len(Contents(a)') = n
          /\ \A j \in 1..n : Contents(a)'[j] = s[j]
      BY <2>1, <2>3, <2>4, PrefixProps
    <2>6. Contents(a) \in Seq(Values \cup {Junk}) /\ Len(Contents(a)) = n
          /\ DOMAIN Contents(a) = 1..n
          /\ \A j \in 1..n : Contents(a)[j] = Elems(a)[j]
      BY <2>1, PrefixProps DEF Contents
    <2> HIDE DEF n
    <2>7. [Contents(a) EXCEPT ![i] = v] \in Seq(Values \cup {Junk})
          /\ Len([Contents(a) EXCEPT ![i] = v]) = n
          /\ \A j \in 1..n : [Contents(a) EXCEPT ![i] = v][j]
                               = IF j = i THEN v ELSE Elems(a)[j]
      BY <2>2, <2>6
    <2>8. \A j \in 1..n : Contents(a)'[j] = [Contents(a) EXCEPT ![i] = v][j]
      <3>1. \A j \in 1..n : j \in 1..Len(s)
        BY <2>1, <2>3 DEF n
      <3> QED
        BY <2>3, <2>5, <2>7, <3>1
    <2> QED
      BY <2>2, <2>5, <2>6, <2>7, <2>8, SeqEqual
  <1>8. CASE Sound(a)
    <2>1. View(a) = Contents(a) /\ View(a) # Lost /\ View(a)' = Contents(a)'
      BY <1>5, <1>8, SoundView DEF View
    <2>2. /\ i \in DOMAIN Map[a] /\ v \in Values \cup {Junk} /\ Map[a] # Lost
          /\ Map' = [Map EXCEPT ![a] = [Map[a] EXCEPT ![i] = v]]
      BY <1>6, <1>7, <1>8, <2>1 DEF Map
    <2> QED
      BY <1>3, <2>1, <2>2 DEF Sequence!Write, Sequence!Becomes, Map
  <1>9. CASE ~Sound(a)
    <2>1. View(a)' = View(a)
      BY <1>5, <1>9 DEF View
    <2>2. Map' = Map
      BY <1>6, <2>1 DEF Map
    <2> QED
      BY <1>3, <2>2 DEF Sequence!Keep, Map
  <1> QED
    BY <1>8, <1>9

LEMMA ReleaseEmpties ==
  ASSUME CapInv, NEW a \in Arrays, Release(a)
  PROVE  Sequence!Empty(a)
  <1> USE DEF CapInv
  <1>1. /\ mod[a] \in Blocks
        /\ mod' = [mod EXCEPT ![a] = NoBlock] /\ ret' = "data"
        /\ block' = [block EXCEPT ![mod[a]] = Free]
    BY DEF Release, Released, Returns, TypeOK
  <1>2. Map' = [Map EXCEPT ![a] = View(a)']
    <2>1. \A x \in Blocks : x # mod[a] => block'[x] = block[x]
      BY <1>1 DEF TypeOK
    <2>2. \A c \in Arrays : c # a => mod'[c] = mod[c]
      BY <1>1 DEF TypeOK
    <2> QED
      BY <2>1, <2>2, OnlyArray
  <1>3. View(a)' = <<>>
    <2>1. mod'[a] = NoBlock
      BY <1>1 DEF TypeOK
    <2>2. Elems(a)' = <<>> /\ Size(a)' = 0 /\ Sound(a)'
      BY <2>1, SizeAssumption DEF Elems, Size, Cap, Sound
    <2>3. 0 \div ElemSize = 0
      BY SizeAssumption, SMT
    <2> QED
      BY <2>2, <2>3 DEF View, Contents
  <1> QED
    BY <1>1, <1>2, <1>3 DEF Sequence!Empty, Sequence!Becomes, Map

LEMMA QuietKeeps == Quiet => Sequence!Keep
  BY DEF Quiet, Sequence!Keep, View, Sound, Cap, Contents, Elems, Size

(* The arrays implement the sequences of GrowArray, in every build.        *)
THEOREM Refinement == Spec => ImplementsSequence
  <1>1. Init => Sequence!Init
    <2> SUFFICES ASSUME Init
                 PROVE  Sequence!Init
      OBVIOUS
    <2>1. 0 \div ElemSize = 0
      BY SizeAssumption, SMT
    <2>2. ASSUME NEW a \in Arrays
          PROVE  View(a) = <<>>
      <3>1. Elems(a) = <<>> /\ Size(a) = 0 /\ Sound(a)
        BY SizeAssumption DEF Init, Elems, Size, Cap, Sound
      <3> QED
        BY <2>1, <3>1 DEF View, Contents
    <2> QED
      BY <2>2 DEF Init, Sequence!Init
  <1>2. CapInv /\ [Next]_vars => [Sequence!Next]_(Sequence!vars)
    <2> SUFFICES ASSUME CapInv, [Next]_vars
                 PROVE  Sequence!Next
      BY DEF Sequence!vars
    <2>1. \/ Quiet
          \/ \E a \in Arrays : Grows(a) \/ SetsLen(a) \/ Stores(a) \/ Release(a)
      BY NextShape, HeaderLenInCap DEF CapInv
    <2> QED
      BY <2>1, QuietKeeps, GrowsAppends, SetsLenAppends, StoresWrites,
         ReleaseEmpties DEF Sequence!Next
  <1> QED
    BY <1>1, <1>2, InitCapInv, NextCapInv, PTL
       DEF Spec, ImplementsSequence, Sequence!Spec

-----------------------------------------------------------------------------
(***************************************************************************)
(* Memory: a program that also uses nu_malloc, nu_calloc and nu_free does  *)
(* nothing to its arrays that Dca does not, and its own blocks are safe as *)
(* long as the default allocator stays what it is.                         *)
(***************************************************************************)
RawType ==
  [owner : Allocators \cup {NoOwner}, enough : BOOLEAN, swapped : BOOLEAN]

(* Blocks whose default allocator has not changed since are its own.       *)
UnswappedOwned ==
  \A b \in Blocks :
    raw[b].owner # NoOwner /\ ~raw[b].swapped => raw[b].owner = default

MemInv ==
  /\ CapInv
  /\ raw \in [Blocks -> RawType]
  /\ corrupt \in BOOLEAN
  /\ UnswappedOwned
  /\ OwnAllocator
  /\ RawBacked

(* No array has a block at an address that no allocator gave out.          *)
LEMMA FreeHasNoArray ==
  ASSUME CapInv, NEW b \in Blocks, block[b].owner = NoOwner, NEW a \in Arrays
  PROVE  mod[a] # b
  <1>1. mem[a] \in Allocators
    BY DEF CapInv, TypeOK
  <1>2. mod[a] # NoBlock => block[mod[a]].owner = mem[a]
    BY DEF CapInv, Ownership
  <1> QED
    BY <1>1, <1>2, NullAssumption

LEMMA InitMemInv == MemInit => MemInv
  <1> SUFFICES ASSUME MemInit
               PROVE  MemInv
    OBVIOUS
  <1>1. CapInv
    BY InitCapInv DEF MemInit
  <1>2. \A b \in Blocks : raw[b] = NoRaw
    BY DEF MemInit
  <1>3. NoRaw \in RawType /\ NoRaw.owner = NoOwner
    BY DEF NoRaw, RawBlock, RawType
  <1>4. Live = {}
    BY <1>2, <1>3 DEF Live
  <1>5. raw \in [Blocks -> RawType] /\ corrupt = FALSE
    BY <1>3 DEF MemInit
  <1>6. UnswappedOwned
    BY <1>2, <1>3 DEF UnswappedOwned
  <1> QED
    BY <1>1, <1>4, <1>5, <1>6 DEF MemInv, OwnAllocator, RawBacked

(* A step of the arrays: they keep their own invariant, and they take no   *)
(* address of a living block.                                              *)
LEMMA ArrayStepKeeps ==
  ASSUME MemInv, ArrayStep
  PROVE  MemInv'
  <1> USE DEF MemInv
  <1>1. CapInv'
    BY NextCapInv DEF ArrayStep
  <1>2. \A b \in Blocks : raw'[b] =
          [raw[b] EXCEPT !.swapped = b \in Live /\ (@ \/ default' # default)]
    BY DEF ArrayStep
  <1>3. ASSUME NEW b \in Blocks
        PROVE  /\ raw'[b].owner = raw[b].owner /\ raw'[b].enough = raw[b].enough
               /\ raw'[b].swapped = (b \in Live /\ (raw[b].swapped \/ default' # default))
               /\ raw'[b] \in RawType
    <2>1. raw[b] \in RawType
      OBVIOUS
    <2> QED
      BY <1>2, <2>1 DEF RawType
  <1>4. raw' \in [Blocks -> RawType]
    <2>1. raw' = [b \in Blocks |-> raw'[b]]
      BY DEF ArrayStep
    <2> QED
      BY <1>3, <2>1
  <1>5. Live' = Live
    BY <1>3 DEF Live
  <1>6. UnswappedOwned'
    BY <1>3 DEF UnswappedOwned, Live
  <1>7. corrupt' = corrupt /\ ~corrupt
    BY DEF ArrayStep
  <1>8. OwnAllocator'
    BY <1>7 DEF OwnAllocator
  <1>9. RawBacked'
    <2> SUFFICES ASSUME NEW b \in Live'
                 PROVE  (HasCkd => raw'[b].enough) /\ \A a \in Arrays : mod'[a] # b
      BY DEF RawBacked
    <2>1. b \in Live /\ b \in Blocks
      BY <1>5 DEF Live
    <2>2. HasCkd => raw'[b].enough
      BY <1>3, <2>1 DEF RawBacked
    <2>3. block'[b].owner = NoOwner
      BY <2>1 DEF ArrayStep
    <2>4. ASSUME NEW a \in Arrays
          PROVE  mod'[a] # b
      <3>1. mem'[a] \in Allocators
        BY <1>1 DEF CapInv, TypeOK
      <3>2. mod'[a] # NoBlock => block'[mod'[a]].owner = mem'[a]
        BY <1>1 DEF CapInv, Ownership
      <3> QED
        BY <2>1, <2>3, <3>1, <3>2, NullAssumption
    <2> QED
      BY <2>2, <2>4
  <1> QED
    BY <1>1, <1>4, <1>6, <1>7, <1>8, <1>9

(* Steps that leave the arrays alone. *)
LEMMA SameArrays ==
  ASSUME MemInv, UNCHANGED vars
  PROVE  CapInv' /\ default' = default /\ mod' = mod
  <1>1. CapInv
    BY DEF MemInv
  <1> QED
    BY <1>1, NextCapInv DEF vars

(* Memory for n bytes, resized or new. *)
LEMMA ConsumeKeeps ==
  ASSUME MemInv, ~corrupt, NEW from, NEW n, ConsumeDefault(from, n),
         from \in Live \cup {NoBlock}, HasCkd => n < SizeMod
  PROVE  MemInv'
  <1> USE DEF MemInv
  <1>1. UNCHANGED vars /\ corrupt' = corrupt
    BY DEF ConsumeDefault
  <1>2. CapInv' /\ default' = default /\ mod' = mod
    BY <1>1, SameArrays
  <1>3. PICK b \in Blocks :
          /\ b = from \/ (b \notin Live /\ block[b].owner = NoOwner)
          /\ raw' = [x \in Blocks |->
               IF x = b THEN RawBlock(default, n < SizeMod, FALSE)
               ELSE IF x = from THEN NoRaw ELSE raw[x]]
    BY DEF ConsumeDefault
  <1>4. default \in Allocators
    BY DEF CapInv, TypeOK
  <1> DEFINE New == RawBlock(default, n < SizeMod, FALSE)
  <1>5. /\ New \in RawType /\ New.owner = default /\ New.swapped = FALSE
        /\ New.enough = (n < SizeMod)
    BY <1>4 DEF RawType, RawBlock
  <1>6. NoRaw \in RawType /\ NoRaw.owner = NoOwner
    BY DEF NoRaw, RawBlock, RawType
  <1> HIDE DEF New
  <1>7. \A x \in Blocks : raw'[x] = IF x = b THEN New
                                    ELSE IF x = from THEN NoRaw ELSE raw[x]
    BY <1>3 DEF New
  <1>8. raw' \in [Blocks -> RawType]
    <2>1. raw' = [x \in Blocks |-> raw'[x]]
      BY <1>3
    <2>2. \A x \in Blocks : raw'[x] \in RawType
      BY <1>5, <1>6, <1>7
    <2> QED
      BY <2>1, <2>2
  <1>9. UnswappedOwned'
    BY <1>2, <1>5, <1>6, <1>7 DEF UnswappedOwned
  <1>10. OwnAllocator'
    BY <1>1 DEF OwnAllocator
  <1>11. RawBacked'
    <2> SUFFICES ASSUME NEW x \in Live'
                 PROVE  (HasCkd => raw'[x].enough) /\ \A a \in Arrays : mod'[a] # x
      BY DEF RawBacked
    <2>0. x \in Blocks /\ raw'[x].owner # NoOwner
      BY DEF Live
    <2>1. CASE x # b
      <3>1. x \in Live /\ raw'[x] = raw[x]
        BY <1>6, <1>7, <2>0, <2>1 DEF Live
      <3> QED
        BY <1>2, <3>1 DEF RawBacked
    <2>2. CASE x = b
      <3>1. HasCkd => raw'[x].enough
        BY <1>5, <1>7, <2>0, <2>2
      <3>2. CASE b = from
        <4>1. b \in Live
          BY <1>3, <3>2, NullAssumption
        <4> QED
          BY <1>2, <2>2, <3>1, <4>1 DEF RawBacked
      <3>3. CASE block[b].owner = NoOwner
        BY <1>2, <2>2, <3>1, <3>3, FreeHasNoArray
      <3> QED
        BY <1>3, <3>2, <3>3
    <2> QED
      BY <2>1, <2>2
  <1> QED
    BY <1>1, <1>2, <1>8, <1>9, <1>10, <1>11

(* Memory that goes to an allocator it is not from: the default one has    *)
(* changed since.                                                          *)
LEMMA ForeignKeeps ==
  ASSUME MemInv, NEW b \in Live, raw[b].owner # default, Foreign
  PROVE  MemInv'
  <1> USE DEF MemInv
  <1>1. UNCHANGED vars /\ raw' = raw /\ corrupt' = TRUE
    BY DEF Foreign
  <1>2. CapInv' /\ default' = default /\ mod' = mod
    BY <1>1, SameArrays
  <1>3. Live' = Live
    BY <1>1 DEF Live
  <1>4. raw[b].swapped
    BY DEF UnswappedOwned, Live
  <1>5. OwnAllocator'
    BY <1>1, <1>3, <1>4 DEF OwnAllocator
  <1> QED
    BY <1>1, <1>2, <1>3, <1>5 DEF UnswappedOwned, RawBacked

LEMMA FreeKeeps ==
  ASSUME MemInv, ~corrupt, NEW b \in Blocks, UNCHANGED <<vars, corrupt>>,
         raw' = [raw EXCEPT ![b] = NoRaw]
  PROVE  MemInv'
  <1> USE DEF MemInv
  <1>1. CapInv' /\ default' = default /\ mod' = mod
    BY SameArrays
  <1>2. NoRaw \in RawType /\ NoRaw.owner = NoOwner
    BY DEF NoRaw, RawBlock, RawType
  <1>3. /\ raw' \in [Blocks -> RawType]
        /\ \A x \in Blocks : raw'[x] = IF x = b THEN NoRaw ELSE raw[x]
    BY <1>2
  <1>4. \A x \in Live' : x \in Live /\ raw'[x] = raw[x]
    BY <1>2, <1>3 DEF Live
  <1>5. UnswappedOwned'
    BY <1>1, <1>2, <1>3 DEF UnswappedOwned
  <1>6. OwnAllocator' /\ RawBacked'
    BY <1>1, <1>4 DEF OwnAllocator, RawBacked
  <1> QED
    BY <1>1, <1>3, <1>5, <1>6

LEMMA SameKeeps ==
  ASSUME MemInv, UNCHANGED memVars
  PROVE  MemInv'
  <1> USE DEF MemInv
  <1>1. UNCHANGED vars /\ raw' = raw /\ corrupt' = corrupt
    BY DEF memVars
  <1>2. CapInv' /\ default' = default /\ mod' = mod
    BY <1>1, SameArrays
  <1>3. Live' = Live
    BY <1>1 DEF Live
  <1> QED
    BY <1>1, <1>2, <1>3 DEF UnswappedOwned, OwnAllocator, RawBacked

LEMMA NextMemInv == MemInv /\ [MemNext]_memVars => MemInv'
  <1> SUFFICES ASSUME MemInv, [MemNext]_memVars
               PROVE  MemInv'
    OBVIOUS
  <1>1. CASE ArrayStep
    BY <1>1, ArrayStepKeeps
  <1>2. ASSUME NEW n \in Requests, nu_malloc(n)
        PROVE  MemInv'
    <2>1. n < SizeMod /\ ~corrupt
      BY <1>2, RequestAssumption, SizeAssumption, SMT DEF nu_malloc, CanCall
    <2> QED
      BY <1>2, <2>1, ConsumeKeeps, SameKeeps DEF nu_malloc, Fails
  <1>3. ASSUME NEW n \in Requests, NEW b \in Blocks, nu_realloc(b, n)
        PROVE  MemInv'
    <2>1. n < SizeMod /\ ~corrupt /\ b \in Live
      BY <1>3, RequestAssumption, SizeAssumption, SMT DEF nu_realloc, CanCall
    <2>2. CASE raw[b].owner = default
      BY <1>3, <2>1, <2>2, ConsumeKeeps, SameKeeps DEF nu_realloc, ReturnedTo, Fails
    <2>3. CASE raw[b].owner # default
      BY <1>3, <2>1, <2>3, ForeignKeeps DEF nu_realloc, ReturnedTo
    <2> QED
      BY <2>2, <2>3
  <1>4. ASSUME NEW c \in Requests, NEW n \in Requests, nu_calloc(c * n)
        PROVE  MemInv'
    <2>1. c * n \in Nat /\ ~corrupt
      BY <1>4, RequestAssumption, SizeAssumption, SMT DEF nu_calloc, CanCall
    <2>2. CASE UNCHANGED memVars
      BY <2>2, SameKeeps
    <2>3. CASE ~Refused(c * n) /\ ConsumeDefault(NoBlock, c * n)
      <3>1. HasCkd => c * n < SizeMod
        BY <2>1, <2>3, SizeAssumption, SMT DEF Refused, Overflows
      <3> QED
        BY <2>1, <2>3, <3>1, ConsumeKeeps
    <2> QED
      BY <1>4, <2>2, <2>3 DEF nu_calloc, Fails
  <1>5. ASSUME NEW b \in Blocks, nu_free(b)
        PROVE  MemInv'
    <2>1. ~corrupt /\ b \in Live
      BY <1>5 DEF nu_free, CanCall
    <2>2. CASE raw[b].owner = default
      BY <1>5, <2>1, <2>2, FreeKeeps DEF nu_free, ReturnedTo
    <2>3. CASE raw[b].owner # default
      BY <1>5, <2>1, <2>3, ForeignKeeps DEF nu_free, ReturnedTo
    <2> QED
      BY <2>2, <2>3
  <1>6. CASE UNCHANGED memVars
    BY <1>6, SameKeeps
  <1> QED
    BY <1>1, <1>2, <1>3, <1>4, <1>5, <1>6 DEF MemNext, Ended

LEMMA MemInvariance == MemSpec => []MemInv
  BY InitMemInv, NextMemInv, PTL DEF MemSpec

(* Whatever else takes memory from the same allocators, the arrays behave  *)
(* as Dca says, so all that is proved of Dca holds there too.              *)
THEOREM MemRefinement == MemSpec => Spec
  <1>1. MemInit => Init
    BY DEF MemInit
  <1>2. ASSUME [MemNext]_memVars
        PROVE  [Next]_vars
    <2>1. ArrayStep => Next
      BY DEF ArrayStep
    <2>2. \A from, n : ConsumeDefault(from, n) => UNCHANGED vars
      BY DEF ConsumeDefault
    <2>3. Fails \/ Foreign \/ Ended \/ UNCHANGED memVars => UNCHANGED vars
      BY DEF Fails, Foreign, Ended, memVars
    <2>4. \A n : nu_malloc(n) \/ nu_calloc(n) => UNCHANGED vars
      BY <2>2, <2>3 DEF nu_malloc, nu_calloc
    <2>5. \A b, n : nu_realloc(b, n) \/ nu_free(b) => UNCHANGED vars
      BY <2>2, <2>3 DEF nu_realloc, nu_free
    <2> QED
      BY <1>2, <2>1, <2>3, <2>4, <2>5 DEF MemNext
  <1> QED
    BY <1>1, <1>2, PTL DEF MemSpec, Spec

(* Memory goes to an allocator that did not make it only when the default  *)
(* was replaced while the block was alive.                                 *)
THEOREM OwnAllocatorHolds == MemSpec => []OwnAllocator
  <1>1. MemInv => OwnAllocator
    BY DEF MemInv
  <1> QED
    BY <1>1, MemInvariance, PTL

(* A block from nu_calloc holds all its elements when the product is       *)
(* checked, and no block from nu_malloc is the block of an array.          *)
THEOREM RawBackedHolds == MemSpec => []RawBacked
  <1>1. MemInv => RawBacked
    BY DEF MemInv
  <1> QED
    BY <1>1, MemInvariance, PTL

=============================================================================
