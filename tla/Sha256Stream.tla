---------------------------- MODULE Sha256Stream ----------------------------
(***************************************************************************)
(* The streaming interface of src/apps/bclib/sha256.c: reset, update,      *)
(* finish, begin and cont_then_sha256_result on one sha256_ctx_t.          *)
(*                                                                         *)
(* The compression function has no model: the hash of a context is the     *)
(* sequence of the bytes in the blocks compressed so far, which is what a  *)
(* collision-free function knows of them.  A byte is a pair that says what *)
(* it is: <<"msg", n>> is the n-th byte of the message since reset.        *)
(* The loops of sha256_update are steps of their own, as the loop counters *)
(* are what is easy to get wrong.                                          *)
(***************************************************************************)
EXTENDS Naturals, Sequences

CONSTANTS
  BlockSize,    \* Sha256_BlockSize: 64 in the code
  SizeOff,      \* size_off: 56 in the code
  HashSize,     \* Sha256_HashSize: 32 in the code
  MsgMod,       \* msglen is a uint32_t: 2^32 in the code
  Lens,         \* the lengths that callers pass, each a uint32_t
  MaxCalls      \* bound: the calls of update after one reset

ASSUME SizeAssumption ==
  /\ BlockSize \in Nat /\ SizeOff \in 1..(BlockSize - 1)
  /\ HashSize \in 1..BlockSize
  /\ MsgMod \in Nat /\ BlockSize < MsgMod
  /\ Lens \subseteq 0..(MsgMod - 1) /\ MaxCalls \in Nat \ {0}

VARIABLES
  hash,         \* ctx->hash: the bytes of the compressed blocks
  block,        \* ctx->block
  index,        \* ctx->index
  msglen,       \* ctx->msglen
  msg,          \* what this call of update was given, from ptr on
  i, len,       \* the locals of update
  pc,           \* "idle", a loop of update, or "finished"
  given,        \* history: the message, from all calls since reset
  calls,        \* history: the calls of update since reset
  straddled,    \* history: one began inside a block and went past its end
  inner         \* history: for a digest of a digest, the inner message and
                \* what was compressed for it

ctx == <<hash, block, index, msglen>>
locals == <<msg, i, len>>
history == <<given, calls, straddled, inner>>
vars == <<ctx, locals, pc, history>>

NoInner == [msg |-> <<>>, hash |-> <<>>]

Zero == <<"zero", 0>>
Zeros(n) == [j \in 1..n |-> Zero]

(* The next n bytes of the message. *)
Bytes(n) == [j \in 1..n |-> <<"msg", Len(given) + j>>]

(* ptr[0] to ptr[n - 1], which may be past the end of what was given, and  *)
(* what is left after them.                                                *)
Beyond == <<"beyond", 0>>
Taken(n) == [j \in 1..n |-> IF j <= Len(msg) THEN msg[j] ELSE Beyond]
Left(n) == SubSeq(msg, n + 1, Len(msg))

Init ==
  /\ hash = <<>> /\ block = Zeros(BlockSize) /\ index = 0 /\ msglen = 0
  /\ msg = <<>> /\ i = 0 /\ len = 0
  /\ pc = "idle"
  /\ given = <<>> /\ calls = 0 /\ straddled = FALSE /\ inner = NoInner
-----------------------------------------------------------------------------
(* The hash after one more block. *)
sha256_solve_block(h, b) == h \o b

(* block[index++] = b, and sha256_submit when the block is full *)
Filled(b) == [block EXCEPT ![index + 1] = b]

LastByte == index + 1 = BlockSize

PushByte(b) ==
  /\ block' = Filled(b)
  /\ IF LastByte
       THEN hash' = sha256_solve_block(hash, Filled(b)) /\ index' = 0
       ELSE hash' = hash /\ index' = index + 1

sha256_reset ==
  /\ pc \in {"idle", "finished"}
  /\ hash' = <<>> /\ block' = Zeros(BlockSize) /\ index' = 0 /\ msglen' = 0
  /\ given' = <<>> /\ calls' = 0 /\ straddled' = FALSE /\ inner' = NoInner
  /\ pc' = "idle"
  /\ UNCHANGED locals

(* Mutant: without the test for a started block. *)
FirstLoopFills == "fill"

(* `if (ctx->index)` completes the started block first. *)
FirstLoop == IF index # 0 THEN "fill" ELSE "blocks"

(* The length test: EOVERFLOW leaves the context as it was. *)
sha256_update(n) ==
  /\ pc = "idle" /\ calls < MaxCalls
  /\ n > 0 /\ (msglen + n) % MsgMod >= msglen
  /\ msglen' = (msglen + n) % MsgMod
  /\ msg' = Bytes(n) /\ i' = 0 /\ len' = n
  /\ pc' = FirstLoop
  /\ given' = given \o Bytes(n)
  /\ calls' = calls + 1
  /\ straddled' = (straddled \/ (index # 0 /\ index + n > BlockSize))
  /\ UNCHANGED <<hash, block, index, inner>>

(* The first loop.  Having completed the block it does not stop: it goes   *)
(* on with the new len and the old i, so len is soon more than what is left.*)
Fill ==
  /\ pc = "fill"
  /\ IF i < len
       THEN /\ PushByte(Taken(1)[1]) /\ msg' = Left(1)
            /\ len' = IF LastByte THEN len - 1 - i ELSE len
            /\ i' = i + 1 /\ pc' = pc
       ELSE pc' = "blocks" /\ UNCHANGED <<hash, block, index, locals>>
  /\ UNCHANGED <<msglen, history>>

(* The second loop.  The assert of sha256_push_block that index = 0 is in  *)
(* no build: `assert()` in line 174 compiles with NDEBUG only.  Without it *)
(* the bytes of a started block are overwritten, and a len that Fill left  *)
(* too large reads past the end of what was given.                         *)
Blocks ==
  /\ pc = "blocks"
  /\ IF len >= BlockSize
       THEN /\ block' = Taken(BlockSize)
            /\ hash' = sha256_solve_block(hash, block') /\ index' = 0
            /\ msg' = Left(BlockSize)
            /\ len' = len - BlockSize
            /\ UNCHANGED <<i, pc>>
       ELSE pc' = "rest" /\ UNCHANGED <<hash, block, index, locals>>
  /\ UNCHANGED <<msglen, history>>

(* The third loop, and the return. *)
Rest ==
  /\ pc = "rest"
  /\ IF i < len
       THEN /\ PushByte(Taken(1)[1]) /\ msg' = Left(1)
            /\ i' = i + 1 /\ UNCHANGED <<len, pc>>
       ELSE pc' = "idle" /\ UNCHANGED <<hash, block, index, locals>>
  /\ UNCHANGED <<msglen, history>>

(* A context after the bytes of b, one by one, with no test of the length. *)
Pushed(c, b) ==
  LET all == SubSeq(c.block, 1, c.index) \o b
      r == Len(all) % BlockSize
      full == Len(all) - r
  IN  [hash |-> c.hash \o SubSeq(all, 1, full),
       block |-> [j \in 1..BlockSize |->
                    IF j <= r THEN all[full + j]
                    ELSE IF full = 0 THEN c.block[j] ELSE all[full - BlockSize + j]],
       index |-> r,
       msglen |-> (c.msglen + Len(b)) % MsgMod]

Fresh == [hash |-> <<>>, block |-> Zeros(BlockSize), index |-> 0, msglen |-> 0]
Current == [hash |-> hash, block |-> block, index |-> index, msglen |-> msglen]

Becomes(c) ==
  hash' = c.hash /\ block' = c.block /\ index' = c.index /\ msglen' = c.msglen

(* sha256_begin: reset, then byte by byte. *)
sha256_begin(n) ==
  LET b == [j \in 1..n |-> <<"msg", j>>]
  IN  /\ pc \in {"idle", "finished"} /\ n < MsgMod
      /\ Becomes(Pushed(Fresh, b))
      /\ given' = b /\ calls' = 1 /\ straddled' = FALSE /\ inner' = NoInner
      /\ pc' = "idle"
      /\ UNCHANGED locals

(* The block up to index, the pad byte and zeros. *)
Ending(c) == [j \in 1..BlockSize |->
                IF j <= c.index THEN c.block[j]
                ELSE IF j = c.index + 1 THEN <<"pad", 128>> ELSE Zero]

(* A block with the message length in its last bytes. *)
Sized(s, n) ==
  [j \in 1..BlockSize |-> IF j > SizeOff THEN <<"size", n>> ELSE s[j]]

(* Mutant: `index > size_off`. *)
NeedsTwoStrictly(k) == k > SizeOff

(* There is no room for the pad byte and the length in this block. *)
NeedsTwo(k) == k >= SizeOff

(* The context after sha256_finish. *)
Finished(c) ==
  LET two == NeedsTwo(c.index)
      last == Sized(IF two THEN Zeros(BlockSize) ELSE Ending(c), c.msglen)
      before == IF two THEN sha256_solve_block(c.hash, Ending(c)) ELSE c.hash
  IN  [c EXCEPT !.hash = sha256_solve_block(before, last), !.block = last, !.index = 0]

sha256_finish ==
  /\ pc = "idle"
  /\ Becomes(Finished(Current))
  /\ pc' = "finished"
  /\ UNCHANGED <<locals, history>>

(* mid_sum after sha256_result: the digest, and behind it what was there.  *)
Stale == <<"stale", 0>>
MidSum == [j \in 1..BlockSize |-> IF j <= HashSize THEN <<"digest", j>> ELSE Stale]

(* The rest of the message byte by byte, finish, result; then reset, one   *)
(* update with all of mid_sum, not with the digest alone, and finish.      *)
sha256_cont_then_sha256_result(n) ==
  LET done == Finished(Pushed(Current, Bytes(n)))
  IN  /\ pc = "idle" /\ calls < MaxCalls
      /\ Becomes(Finished(Pushed(Fresh, MidSum)))
      /\ inner' = [msg |-> given \o Bytes(n), hash |-> done.hash]
      /\ given' = MidSum /\ calls' = calls + 1
      /\ pc' = "finished"
      /\ UNCHANGED <<locals, straddled>>

Next ==
  \/ sha256_reset \/ sha256_finish
  \/ \E n \in Lens :
       sha256_update(n) \/ sha256_begin(n) \/ sha256_cont_then_sha256_result(n)
  \/ Fill \/ Blocks \/ Rest

Spec == Init /\ [][Next]_vars
-----------------------------------------------------------------------------
(* Properties *)

Byte == ({"msg"} \X (Nat \ {0})) \cup ({"size"} \X (0..(MsgMod - 1)))
          \cup {Zero, Beyond, Stale, <<"pad", 128>>} \cup ({"digest"} \X (1..HashSize))

(* Every variable has its type. *)
TypeOK ==
  /\ hash \in Seq(Byte) /\ Len(hash) % BlockSize = 0
  /\ block \in [1..BlockSize -> Byte]
  /\ index \in 0..(BlockSize - 1)
  /\ msglen \in 0..(MsgMod - 1)
  /\ msg \in Seq(Byte) /\ i \in Nat /\ len \in 0..(MsgMod - 1)
  /\ pc \in {"idle", "fill", "blocks", "rest", "finished"}
  /\ given \in Seq(Byte) /\ calls \in 0..MaxCalls /\ straddled \in BOOLEAN
  /\ inner \in [msg : Seq(Byte), hash : Seq(Byte)]

(* The message bytes that the context has taken in. *)
Absorbed == hash \o SubSeq(block, 1, index)

(* Between calls the context holds the message so far, however it was cut  *)
(* into calls, as long as no call began inside a block and went past its   *)
(* end.  The solver's calls are of that kind: 76 bytes and then 4, or 32   *)
(* (main_block_solver.c:36, 42, 46).                                       *)
Streams == pc = "idle" /\ ~straddled => Absorbed = given /\ msglen = Len(given)

(* FIPS 180-4: the message, a 1 bit, zeros, and the length at the end of   *)
(* the last block.                                                         *)
Padding(s) ==
  LET size == BlockSize - SizeOff
      total == ((Len(s) + size + BlockSize) \div BlockSize) * BlockSize
  IN  [j \in 1..total |->
         IF j <= Len(s) THEN s[j]
         ELSE IF j = Len(s) + 1 THEN <<"pad", 128>>
         ELSE IF j > total - size THEN <<"size", Len(s)>> ELSE Zero]

(* After finish the compressed blocks are the padded message, for every    *)
(* length, those around the end of a block included; so are they for the   *)
(* inner digest of cont_then_sha256_result, although no test of the length *)
(* guards it, up to the greatest length; and the outer one is of a whole   *)
(* block, of which only the first bytes are the digest.                    *)
PaddedRight ==
  pc = "finished" /\ ~straddled =>
    /\ hash = Padding(given)
    /\ inner # NoInner /\ Len(inner.msg) < MsgMod => inner.hash = Padding(inner.msg)

(* "uint32_t msglen; // in bytes" (sha256.h:40), the length that finish    *)
(* puts at the end: as many bytes as the context has taken in.             *)
MsglenInBytes == pc = "idle" => msglen = Len(Absorbed)

=============================================================================
