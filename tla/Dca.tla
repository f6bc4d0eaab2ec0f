-------------------------------- MODULE Dca --------------------------------
(***************************************************************************)
(* The dynamic contiguous arrays of nulib and the allocators behind them:  *)
(* dca.h, dca.c, memory.h and memory.c.                                    *)
(*                                                                         *)
(* An array is a pair of an allocator, fixed when the array is created,    *)
(* and a pointer to one block of memory.  The block begins with a header   *)
(* (bcap, blen, in bytes) and continues at offset Off with the elements.   *)
(* Sizes are size_t: arithmetic is modulo SizeMod, also where the header   *)
(* is added to the size that a caller asks for.                            *)
(***************************************************************************)
EXTENDS Naturals, Sequences

CONSTANTS
  Arrays,       \* the array objects of the program
  Allocators,   \* the nu_memory_t objects
  StdMemory,    \* _nulib_default_memory: realloc and free
  NullMemory,   \* NULL as the argument of nu_memory_set_default
  Blocks,       \* the addresses where blocks of memory can be
  NoBlock,      \* NULL as a block
  NoOwner,      \* the address is free
  HeaderSize,   \* sizeof(nu_dca_base_t)
  Off,          \* data_offset: offsetof(elems), at least the header
  ElemSize,     \* sizeof an element
  SizeMod,      \* SIZE_MAX + 1
  HasCkd,       \* NULIB_HAS_CKD_OPS: stdckdint.h is there
  Requests,     \* the numbers of elements that callers ask for
  Values,       \* what callers store in an element
  Junk,         \* what an element of new memory holds
  Lost          \* in place of the elements of an array that has no room

ASSUME SizeAssumption ==
  /\ Off \in Nat \ {0} /\ ElemSize \in Nat \ {0} /\ SizeMod \in Nat
  /\ HeaderSize \in 1..Off /\ Off < SizeMod
ASSUME RequestAssumption == Requests \subseteq 0..(SizeMod - 1)
ASSUME CkdAssumption == HasCkd \in BOOLEAN
ASSUME NullAssumption ==
  /\ StdMemory \in Allocators /\ NoOwner \notin Allocators
  /\ NullMemory \notin Allocators /\ NoBlock \notin Blocks
  /\ Lost \notin Seq(Values \cup {Junk})

VARIABLES
  default,      \* _nulib_default_memory_ptr
  mem,          \* mem[a]: the allocator of array a
  mod,          \* mod[a]: the block of array a, or NoBlock
  block,        \* block[b]: the memory at address b
  ret,          \* the last call returned a pointer: "data", or "null"
  outcome       \* "running", "aborted", or "undefined": memory outside a
                \* block was written, and nothing is said of what follows

vars == <<default, mem, mod, block, ret, outcome>>

Sizes == 0..(SizeMod - 1)

(* A free address. *)
Free == [owner |-> NoOwner, size |-> 0, bcap |-> 0, blen |-> 0, elems |-> <<>>]

(* nu_dca_capacity_in_bytes and nu_dca_size_in_bytes *)
Cap(a) == IF mod[a] = NoBlock THEN 0 ELSE block[mod[a]].bcap
Size(a) == IF mod[a] = NoBlock THEN 0 ELSE block[mod[a]].blen
Elems(a) == IF mod[a] = NoBlock THEN <<>> ELSE block[mod[a]].elems

Init ==
  /\ default = StdMemory
  /\ mem = [a \in Arrays |-> StdMemory]
  /\ mod = [a \in Arrays |-> NoBlock]
  /\ block = [b \in Blocks |-> Free]
  /\ ret = "data"
  /\ outcome = "running"
-----------------------------------------------------------------------------
(* Allocation, below the operations *)

Returns(r) == ret' = r /\ outcome' = outcome

(* A failed check goes to its handler: the default ones end the process,   *)
(* others (the tests') return and the operation returns NULL.              *)
Refuse ==
  /\ ret' = "null" /\ outcome' \in {"running", "aborted"}
  /\ UNCHANGED <<default, mem, mod, block>>

Done == Returns("data") /\ UNCHANGED <<default, mem, mod, block>>

Lesser(x, y) == IF x > y THEN y ELSE x

(* Mutant: new memory begins without the old elements. *)
ResizedAnew(s, n) == [i \in 1..n |-> Junk]

(* realloc keeps the elements that fit. *)
Resized(s, n) == [i \in 1..n |-> IF i <= Len(s) THEN s[i] ELSE Junk]

(* size = off + nb, which wraps: dca.c:23 has no test, unlike dca.c:60. *)
AllocSize(nb) == (Off + nb) % SizeMod

(* The elements that lie inside a block of this size. *)
Fits(size) == IF size < Off THEN 0 ELSE (size - Off) \div ElemSize

(* The block allocated by `owner` for nb bytes of elements. *)
NewBlock(owner, nb, len, s) ==
  [owner |-> owner, size |-> AllocSize(nb), bcap |-> nb, blen |-> len,
   elems |-> Resized(s, Fits(AllocSize(nb)))]

(* A header that its block does not hold is written outside the block, or  *)
(* into what the allocator gave beyond the size asked for.                 *)
HeaderWritten(size) ==
  \/ outcome' = outcome
  \/ size < HeaderSize /\ outcome' = "undefined"

(* The allocator extends the block in place or moves it to a free address. *)
(* What it gives has the size that was asked for, wrapped or not.          *)
Grow(a, nb, len) ==
  /\ \E b \in Blocks :
       /\ b = mod[a] \/ block[b].owner = NoOwner
       /\ mod' = [mod EXCEPT ![a] = b]
       /\ block' = [x \in Blocks |->
            IF x = b THEN NewBlock(mem[a], nb, len, Elems(a))
            ELSE IF x = mod[a] THEN Free ELSE block[x]]
  /\ ret' = "data" /\ HeaderWritten(AllocSize(nb))
  /\ UNCHANGED <<default, mem>>

(* The allocator may also return NULL; the array then stays as it is. *)
Allocate(a, nb, len) == Grow(a, nb, len) \/ Refuse

(* Mutant: the block is fitted to every request, a smaller one too. *)
NeedsBlockFitted(a, nb) == mod[a] = NoBlock \/ Cap(a) # nb

NeedsBlock(a, nb) == mod[a] = NoBlock \/ Cap(a) < nb

ReserveBytes(a, nb) ==
  IF NeedsBlock(a, nb)
    THEN Allocate(a, nb, Lesser(Size(a), nb))
    ELSE Done

(* Mutant: the block grows without regard to what is in use. *)
RequiredAlone(a, nb) == nb

(* req_cap = len + nb *)
Required(a, nb) == (Size(a) + nb) % SizeMod

(* Block b with another blen, or other elements. *)
WithLen(b, n) ==
  [owner |-> b.owner, size |-> b.size, bcap |-> b.bcap, blen |-> n,
   elems |-> b.elems]
WithElems(b, s) ==
  [owner |-> b.owner, size |-> b.size, bcap |-> b.bcap, blen |-> b.blen,
   elems |-> s]

SetLen(a, n) ==
  /\ block' = [block EXCEPT ![mod[a]] = WithLen(@, n)]
  /\ Returns("data")
  /\ UNCHANGED <<default, mem, mod>>

ConsumeBytes(a, nb) ==
  LET req == Required(a, nb)
  IN  IF req < Size(a) THEN Refuse
      ELSE IF NeedsBlock(a, req)
        THEN Allocate(a, req, (Size(a) + nb) % SizeMod)
      ELSE SetLen(a, (Size(a) + nb) % SizeMod)

(* ckd_mul and ckd_add report an overflow; without them the result wraps. *)
Overflows(x) == HasCkd /\ x >= SizeMod
-----------------------------------------------------------------------------
(* The operations on array a *)

(* x_create: the allocator is the default one of the moment. *)
Create(a) ==
  /\ outcome = "running" /\ mod[a] = NoBlock
  /\ mem' = [mem EXCEPT ![a] = default]
  /\ Returns("data")
  /\ UNCHANGED <<default, mod, block>>

(* Mutant: NULL is stored too. *)
NewDefaultAny(m) == m

NewDefault(m) == IF m = NullMemory THEN default ELSE m

SetDefault(m) ==
  /\ outcome = "running"
  /\ default' = NewDefault(m)
  /\ Returns("data")
  /\ UNCHANGED <<mem, mod, block>>

(* nu_mbox_dca_reserve; `outcome` is the guard of the callers. *)
ReserveElems(a, n) ==
  IF Overflows(n * ElemSize) THEN Refuse
  ELSE ReserveBytes(a, (n * ElemSize) % SizeMod)

Reserve(a, n) == outcome = "running" /\ ReserveElems(a, n)

(* Mutant: the elements already in use are not counted. *)
ExtendedLenAlone(len, n) == n

(* newlen of nu_mbox_dca_extend: without ckd_add it is a product. *)
ExtendedLen(len, n) == IF HasCkd THEN len + n ELSE (len * n) % SizeMod

Extend(a, n) ==
  /\ outcome = "running"
  /\ LET newlen == ExtendedLen(Size(a) \div ElemSize, n)
     IN  IF Overflows(newlen) THEN Refuse ELSE ReserveElems(a, newlen)

Consume(a, n) ==
  /\ outcome = "running"
  /\ IF Overflows(n * ElemSize) THEN Refuse
     ELSE ConsumeBytes(a, (n * ElemSize) % SizeMod)

Clean(a) == outcome = "running" /\ mod[a] # NoBlock /\ SetLen(a, 0)

(* The caller stores v through the pointer that nu_dca_data returns, into  *)
(* an element that the header counts.                                      *)
Write(a, i, v) ==
  /\ outcome = "running" /\ i <= Size(a) \div ElemSize /\ i <= Len(Elems(a))
  /\ block' = [block EXCEPT ![mod[a]] =
                  WithElems(@, [Elems(a) EXCEPT ![i] = v])]
  /\ Returns("data")
  /\ UNCHANGED <<default, mem, mod>>

(* The same store when the element does not lie in the block. *)
WriteOutside(a, i) ==
  /\ outcome = "running" /\ i <= Size(a) \div ElemSize /\ i > Len(Elems(a))
  /\ outcome' = "undefined"
  /\ UNCHANGED <<default, mem, mod, block, ret>>

(* Mutant: the array forgets its block without releasing it. *)
ReleasedLeak(b) == block

(* The memory after nu_memory_release_aligned of the block b. *)
Released(b) == [block EXCEPT ![b] = Free]

Release(a) ==
  /\ outcome = "running" /\ mod[a] # NoBlock
  /\ block' = Released(mod[a])
  /\ mod' = [mod EXCEPT ![a] = NoBlock]
  /\ Returns("data")
  /\ UNCHANGED <<default, mem>>

Stopped == outcome # "running" /\ UNCHANGED vars

Next ==
  \/ \E a \in Arrays :
       \/ Create(a) \/ Clean(a) \/ Release(a)
       \/ \E n \in Requests : Reserve(a, n) \/ Extend(a, n) \/ Consume(a, n)
       \/ \E i \in 1..SizeMod :
            WriteOutside(a, i) \/ \E v \in Values : Write(a, i, v)
  \/ \E m \in Allocators \cup {NullMemory} : SetDefault(m)
  \/ Stopped

Spec == Init /\ [][Next]_vars
-----------------------------------------------------------------------------
(* Properties *)

BlockType ==
  [owner : Allocators \cup {NoOwner}, size : Sizes, bcap : Sizes, blen : Sizes,
   elems : Seq(Values \cup {Junk})]

(* Every variable has its type. *)
TypeOK ==
  /\ default \in Allocators
  /\ mem \in [Arrays -> Allocators]
  /\ mod \in [Arrays -> Blocks \cup {NoBlock}]
  /\ block \in [Blocks -> BlockType]
  /\ ret \in {"data", "null"}
  /\ outcome \in {"running", "aborted", "undefined"}

(* The capacity that the header claims is one that size_t can hold together *)
(* with the header.                                                        *)
Sound(a) == Off + Cap(a) < SizeMod

(* What a header says of its block.  In use are whole elements, no more    *)
(* than the capacity, and the size that nu_dca_release_all gives back is   *)
(* the size that was allocated, a wrapped one too.  Unless that size       *)
(* wrapped, the block holds the header, the capacity and the elements in   *)
(* use; when it wrapped (dca.c:23) not one element lies in the block.      *)
CapacityBacked ==
  \A a \in Arrays : mod[a] # NoBlock =>
    LET b == block[mod[a]]
    IN  /\ b.size = AllocSize(b.bcap)
        /\ b.blen <= b.bcap /\ b.blen % ElemSize = 0
        /\ IF Sound(a)
             THEN b.size >= Off + b.bcap /\ b.blen <= Len(b.elems) * ElemSize
             ELSE b.elems = <<>>

(* A block has exactly one array, which has the allocator the block came   *)
(* from: no array uses or releases a block that was released, that another *)
(* array has, or that another allocator made, and no block is leaked,      *)
(* whatever default allocators were set after the array was created.       *)
Ownership ==
  /\ \A a \in Arrays : mod[a] # NoBlock => block[mod[a]].owner = mem[a]
  /\ \A a, c \in Arrays : a # c /\ mod[a] = mod[c] => mod[a] = NoBlock
  /\ \A b \in Blocks :
       block[b].owner # NoOwner => \E a \in Arrays : mod[a] = b

(* While an array has a block its capacity never shrinks, and the elements *)
(* move only when the capacity grows: pointers into an array stay good     *)
(* across calls that fit its capacity (btcp_load_file reads into reserved  *)
(* memory and then consumes it).                                           *)
StableElements ==
  [][\A a \in Arrays : mod[a] # NoBlock /\ mod'[a] # NoBlock =>
       /\ Cap(a)' >= Cap(a)
       /\ mod'[a] # mod[a] => Cap(a)' > Cap(a)]_vars

(* The elements that have memory behind the pointer of array a. *)
Room(a) == Len(Elems(a))

(* The bytes of a request of n elements, after `used` bytes, and the header *)
(* are a size that does not wrap.                                          *)
Holdable(used, n) == Off + used + n * ElemSize < SizeMod

(* A pointer that reserve or extend returns has memory behind it for the n *)
(* elements asked for: in all for reserve, after those in use for extend.  *)
(* Two things take that away: a request that wraps when the header is      *)
(* added, and an array that such a request has spoilt before.  It fails    *)
(* when HasCkd is FALSE: the fallback in nu_mbox_dca_extend (dca.h:90)     *)
(* multiplies where line 86 adds.                                          *)
RoomGranted ==
  [][\A a \in Arrays, n \in Requests : ret' = "data" /\ Sound(a) =>
       /\ Reserve(a, n) /\ Holdable(0, n) => n <= Room(a)'
       /\ Extend(a, n) /\ Holdable(Size(a), n) =>
            (Size(a) \div ElemSize) + n <= Room(a)']_vars

(* Each array is the sequence of its elements in use. *)
Contents(a) == SubSeq(Elems(a), 1, Size(a) \div ElemSize)

(* An array whose capacity wraps with the header has lost its elements. *)
View(a) == IF Sound(a) THEN Contents(a) ELSE Lost

Sequence == INSTANCE GrowArray
  WITH contents <- [a \in Arrays |-> View(a)],
       Values <- Values \cup {Junk}

(* Growth, moves, failures and releases of one array neither lose nor      *)
(* change an element of it or of another array; only a request that wraps  *)
(* loses an array, that one alone and until it is released.                *)
ImplementsSequence == Sequence!Spec

=============================================================================
