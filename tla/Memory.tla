------------------------------- MODULE Memory -------------------------------
(***************************************************************************)
(* nu_malloc, nu_calloc, nu_realloc and nu_free (memory.h, memory.c) in a   *)
(* program that also has arrays: both take memory from the same allocators *)
(* and the same addresses.                                                 *)
(*                                                                         *)
(* An array remembers its allocator (Dca).  A block from nu_malloc does    *)
(* not: it is resized and released by the default allocator of the moment. *)
(***************************************************************************)
EXTENDS Dca, FiniteSets

CONSTANT MaxRaw   \* bound: blocks from nu_malloc that are alive at once

ASSUME MaxRawAssumption == MaxRaw \in Nat

VARIABLES
  raw,          \* raw[b]: the block that nu_malloc gave out at address b
  corrupt       \* memory went to an allocator that it did not come from

memVars == <<vars, raw, corrupt>>

(* A block from m that holds what was asked for, or does not; history:     *)
(* the default has changed since.                                          *)
RawBlock(m, enough, swapped) ==
  [owner |-> m, enough |-> enough, swapped |-> swapped]

NoRaw == RawBlock(NoOwner, TRUE, FALSE)

Live == {b \in Blocks : raw[b].owner # NoOwner}

MemInit ==
  /\ Init
  /\ raw = [b \in Blocks |-> NoRaw] /\ corrupt = FALSE
-----------------------------------------------------------------------------
(* A step of the arrays or of the default allocator: no array is given the *)
(* address of a block that is alive.                                       *)
ArrayStep ==
  /\ ~corrupt /\ Next
  /\ \A b \in Live : block'[b].owner = NoOwner
  /\ raw' = [b \in Blocks |->
       [raw[b] EXCEPT !.swapped = b \in Live /\ (@ \/ default' # default)]]
  /\ corrupt' = corrupt

(* Memory for n bytes at a free address or, when it is resized, at `from`. *)
(* The size is a size_t.                                                   *)
ConsumeDefault(from, n) ==
  /\ \E b \in Blocks :
       /\ b = from \/ (b \notin Live /\ block[b].owner = NoOwner)
       /\ raw' = [x \in Blocks |->
            IF x = b THEN RawBlock(default, n < SizeMod, FALSE)
            ELSE IF x = from THEN NoRaw ELSE raw[x]]
  /\ UNCHANGED <<vars, corrupt>>

(* The allocator has no memory and returns NULL; nothing changes.  When    *)
(* its nu_assert ends the process (memory.c:12), the behaviour stops here. *)
Fails == UNCHANGED memVars

(* Mutant: the product is not checked. *)
RefusedNever(x) == FALSE

(* ckd_mul of nu_calloc; without it the product wraps. *)
Refused(x) == Overflows(x)

CanCall == ~corrupt /\ outcome = "running"

nu_malloc(n) ==
  /\ CanCall /\ Cardinality(Live) < MaxRaw
  /\ ConsumeDefault(NoBlock, n) \/ Fails

(* The product c * nb of its arguments, before it is a size_t. *)
nu_calloc(product) ==
  /\ CanCall /\ Cardinality(Live) < MaxRaw
  /\ (~Refused(product) /\ ConsumeDefault(NoBlock, product)) \/ Fails

(* Mutant: memory always goes back to the standard allocator. *)
ReturnedToStd == StdMemory

(* The allocator that nu_free and nu_realloc call. *)
ReturnedTo == default

(* realloc or free of a pointer that another allocator made. *)
Foreign == corrupt' = TRUE /\ UNCHANGED <<vars, raw>>

(* realloc(ptr, 0) is undefined, and no caller asks for it. *)
nu_realloc(b, n) ==
  /\ CanCall /\ b \in Live /\ n > 0
  /\ IF raw[b].owner = ReturnedTo THEN ConsumeDefault(b, n) \/ Fails ELSE Foreign

nu_free(b) ==
  /\ CanCall /\ b \in Live
  /\ IF raw[b].owner = ReturnedTo
       THEN raw' = [raw EXCEPT ![b] = NoRaw] /\ UNCHANGED <<vars, corrupt>>
       ELSE Foreign

Ended == corrupt /\ UNCHANGED memVars

MemNext ==
  \/ ArrayStep
  \/ \E n \in Requests :
       \/ nu_malloc(n)
       \/ \E b \in Blocks : nu_realloc(b, n)
  \/ \E product \in {c * n : c, n \in Requests} : nu_calloc(product)
  \/ \E b \in Blocks : nu_free(b)
  \/ Ended

MemSpec == MemInit /\ [][MemNext]_memVars
-----------------------------------------------------------------------------
(* Properties *)

(* A block from nu_malloc goes back to the allocator that made it, unless  *)
(* the default was replaced while such a block was alive: nu_free asks for *)
(* the default allocator of the moment (memory.h:81).                      *)
OwnAllocator == corrupt => \E b \in Live : raw[b].swapped

(* With checked arithmetic a block from nu_calloc holds all the elements   *)
(* asked for, and it is never a block that an array has.                   *)
RawBacked ==
  \A b \in Live :
    /\ HasCkd => raw[b].enough
    /\ \A a \in Arrays : mod[a] # b

=============================================================================
