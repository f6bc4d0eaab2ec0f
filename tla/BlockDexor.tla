----------------------------- MODULE BlockDexor -----------------------------
(***************************************************************************)
(* src/apps/bcapp/main_block_dexor.c: prints what is in a file of xor-ed   *)
(* blocks, block by block, and writes the decoded file.                    *)
(*                                                                         *)
(* A byte of the file is a pair: the plain byte, and which byte of the key *)
(* it was xor-ed with.  Field widths are constants.  Positions are those   *)
(* of ftell, from 0 on.                                                    *)
(***************************************************************************)
EXTENDS Integers, Sequences

CONSTANTS
  KeySize,      \* XorKeySize: 8 in the code
  MagicSize,    \* the magic: 4 bytes in the code; a block size follows
  SizeSize,     \* magic.block_size: 4 bytes in the code, the lowest first
  HeaderSize,   \* sizeof(btc_block_header_t): 80 in the code
  VersionSize,  \* tx.version: 4 in the code
  Files         \* what the file may hold: sequences of blocks

ASSUME SizeAssumption ==
  {KeySize, MagicSize, SizeSize, HeaderSize, VersionSize} \subseteq Nat \ {0}

(* n without its k lowest bytes. *)
Higher(n) ==
  LET upTo[k \in 0..SizeSize] == IF k = 0 THEN n ELSE upTo[k - 1] \div 256
  IN  upTo

Byte == 0..255

(* A block: the size that it claims, the bytes after its header, and what  *)
(* they say: how many transactions there are, whether the first one has    *)
(* the segwit marker, and how many inputs it has.                          *)
BlockType ==
  [size : Nat, body : Seq(Byte), txns : Nat, segwit : BOOLEAN, ins : Nat]

(* A count: one byte, or a mark and two or four bytes, the lowest first. *)
CountBytes(n) ==
  IF n < 253 THEN <<n>>
  ELSE IF n < 2^16 THEN <<253, n % 256, n \div 256>>
  ELSE <<254, n % 256, (n \div 256) % 256, (n \div 2^16) % 256, n \div 2^24>>

(* The body has s behind its first n bytes. *)
HasAt(b, n, s) ==
  n + Len(s) <= Len(b.body) /\ \A i \in 1..Len(s) : b.body[n + i] = s[i]

(* What a block says of itself is true of its body: it begins with the     *)
(* number of transactions; then come the version of the first one and the  *)
(* number of its inputs, before which may be the marker and the flag.      *)
Says(b) ==
  LET count == CountBytes(b.txns)
      ins == CountBytes(b.ins)
  IN  /\ HasAt(b, 0, count)
      /\ b.txns > 0 =>
           IF b.segwit THEN HasAt(b, Len(count) + VersionSize, <<0, 1>> \o ins)
           ELSE b.ins > 0 /\ HasAt(b, Len(count) + VersionSize, ins)

(* A size is one that its field holds, true or not; and the bytes of a     *)
(* body need not be what the block says.                                   *)
ASSUME FilesAssumption ==
  \A s \in Files :
    s \in Seq(BlockType) /\ \A i \in 1..Len(s) : Higher(s[i].size)[SizeSize] = 0

VARIABLES
  blocks,   \* the blocks of this file
  file,     \* its bytes, perhaps not up to the end of the last block
  pos,      \* the position in the file
  pc,       \* "open", a step of btc_file_print_info, "write" or an end
  begin,    \* block_header_begin
  header,   \* block_header_end
  size,     \* magic.block_size
  txns,     \* txn_count
  printed,  \* history: what was printed of each block
  buf       \* the bytes written to the output file

input == <<blocks, file>>
locals == <<begin, header, size, txns>>
vars == <<input, pos, pc, locals, printed, buf>>

(* The plain bytes of block b: magic, size, header, body. *)
Image(b) ==
  [i \in 1..MagicSize |-> 249]
    \o [i \in 1..SizeSize |-> Higher(b.size)[i - 1] % 256]
    \o [i \in 1..HeaderSize |-> 0] \o b.body

(* The plain bytes of the first n blocks of s, and of all of them. *)
PlainUpTo(s) ==
  LET upTo[n \in 0..Len(s)] ==
        IF n = 0 THEN <<>> ELSE upTo[n - 1] \o Image(s[n])
  IN  upTo

Plain(s) == PlainUpTo(s)[Len(s)]

Xored(s) == [i \in 1..Len(s) |-> <<s[i], (i - 1) % KeySize>>]

Init ==
  /\ blocks \in Files
  /\ \E n \in 0..Len(Plain(blocks)) : file = SubSeq(Xored(Plain(blocks)), 1, n)
  /\ pos = 0
  /\ pc = "open"
  /\ begin = 0 /\ header = 0 /\ size = 0 /\ txns = 0
  /\ printed = <<>>
  /\ buf = <<>>
-----------------------------------------------------------------------------
(* Mutant: each read begins with the first byte of the key. *)
KeyIndexFresh(p, i) == i % KeySize

(* (n + i) % XorKeySize, with n = ftell % XorKeySize *)
KeyIndex(p, i) == ((p % KeySize) + i) % KeySize

(* *p ^ f->xor_key[k]; with the wrong byte of the key, some other byte. *)
Dexor(c, k) == IF c[2] = k THEN c[1] ELSE 170

(* btc_file_read of n bytes at position p. *)
Fits(p, n) == p + n <= Len(file)
Bytes(p, n) == [i \in 1..n |-> Dexor(file[p + i], KeyIndex(p, i - 1))]

(* Where a read leaves the position, whether it is short or not. *)
After(p, n) ==
  IF Fits(p, n) THEN p + n ELSE IF p > Len(file) THEN p ELSE Len(file)

(* The number that the n last bytes of s are, the lowest first; and all.   *)
Ending(s) ==
  LET last[n \in 0..Len(s)] ==
        IF n = 0 THEN 0 ELSE s[Len(s) - n + 1] + 256 * last[n - 1]
  IN  last

Number(s) == Ending(s)[Len(s)]

(* A short. *)
Short(s) == LET n == Number(s) IN IF n < 2^15 THEN n ELSE n - 2^16

(* btc_read_var_int: whether it fails, the value, where it ends. *)
VarInt(p) ==
  LET b == Bytes(p, 1)[1]
      result(ec, val, at) == [ec |-> ec, val |-> val, at |-> at]
  IN  IF ~Fits(p, 1) \/ b \in {254, 255} THEN result(TRUE, 0, After(p, 1))
      ELSE IF b # 253 THEN result(FALSE, b, p + 1)
      ELSE IF ~Fits(p + 1, 2) THEN result(TRUE, 0, After(p + 1, 2))
      ELSE result(FALSE, Short(Bytes(p + 1, 2)), p + 3)

(* btc_read_tx_header: after a zero count come a flag and the count again, *)
(* which is read, but in_count stays 0.                                    *)
TxHeader(p) ==
  LET n == VarInt(p + VersionSize)
      again == VarInt(n.at + 1)
      result(ec, in_count, at) == [ec |-> ec, in_count |-> in_count, at |-> at]
  IN  IF ~Fits(p, VersionSize) THEN result(TRUE, 0, After(p, VersionSize))
      ELSE IF n.ec THEN result(TRUE, 0, n.at)
      ELSE IF n.val # 0 THEN result(FALSE, n.val, n.at)
      ELSE IF ~Fits(n.at, 1) \/ Bytes(n.at, 1) # <<1>>
        THEN result(TRUE, 0, After(n.at, 1))
      ELSE result(again.ec, 0, again.at)
-----------------------------------------------------------------------------
(* fopen: without a file, ferror(NULL) ends the process. *)
Open ==
  /\ pc = "open"
  /\ pc' \in {"magic", "crashed"}
  /\ UNCHANGED <<input, pos, locals, printed, buf>>

ReadMagic ==
  /\ pc = "magic"
  /\ begin' = pos /\ header' = -1
  /\ pos' = After(pos, MagicSize + SizeSize)
  /\ IF Fits(pos, MagicSize + SizeSize)
       THEN /\ size' = Number(Bytes(pos + MagicSize, SizeSize))
            /\ pc' = "header"
       ELSE size' = 0 /\ pc' = "write"
  /\ UNCHANGED <<input, txns, printed, buf>>

ReadHeader ==
  /\ pc = "header"
  /\ pos' = After(pos, HeaderSize)
  /\ IF Fits(pos, HeaderSize)
       THEN header' = pos' /\ pc' = "count"
       ELSE header' = header /\ pc' = "write"
  /\ UNCHANGED <<input, begin, size, txns, printed, buf>>

(* What is printed of a block. *)
Entry(n, coinbase, ins) ==
  [begin |-> begin, txns |-> n, coinbase |-> coinbase, ins |-> ins]

(* The number of transactions; after an error it is 0.  Then the header of *)
(* the first transaction; after an error nothing of it is printed.         *)
ReadCount ==
  /\ pc = "count"
  /\ txns' = VarInt(pos).val
  /\ pos' = VarInt(pos).at
  /\ IF txns' = 0
       THEN printed' = Append(printed, Entry(0, FALSE, 0)) /\ pc' = "seek"
       ELSE printed' = printed /\ pc' = "tx"
  /\ UNCHANGED <<input, begin, header, size, buf>>

ReadTx ==
  /\ pc = "tx"
  /\ LET h == TxHeader(pos)
     IN  printed' = Append(printed, Entry(txns, ~h.ec, h.in_count)) /\ pos' = h.at
  /\ pc' = "seek"
  /\ UNCHANGED <<input, locals, buf>>

(* Mutant: the next block is looked for where the reading ended. *)
NextBlockFromHere(e, n) == pos

(* block_header_end + magic.block_size - block_header_size *)
NextBlock(e, n) == e + n - HeaderSize

(* To the next block.  fseek may go past the end. *)
Seek ==
  /\ pc = "seek"
  /\ IF size < HeaderSize
       THEN pc' = "write" /\ pos' = pos
       ELSE pc' = "magic" /\ pos' = NextBlock(header, size)
  /\ UNCHANGED <<input, locals, printed, buf>>

(* Mutant: the file is read from where the printing ended. *)
ReadAllFromHere == SubSeq(Bytes(0, Len(file)), pos + 1, Len(file))

(* btc_file_read_all: rewind, and the whole file. *)
ReadAll == Bytes(0, Len(file))

(* The file is written, or fopen fails. *)
Write ==
  /\ pc = "write"
  /\ \/ buf' = ReadAll /\ pc' = "done"
     \/ buf' = buf /\ pc' = "unwritten"
  /\ UNCHANGED <<input, pos, locals, printed>>

Ended == pc \in {"done", "unwritten", "crashed"} /\ UNCHANGED vars

Next ==
  \/ Open \/ ReadMagic \/ ReadHeader \/ ReadCount \/ ReadTx \/ Seek \/ Write
  \/ Ended

Spec == Init /\ [][Next]_vars
-----------------------------------------------------------------------------
(* Properties *)

Shorts == (-(2^15))..(2^15 - 1)

(* Every variable has its type. *)
TypeOK ==
  /\ blocks \in Files /\ file \in Seq(Byte \X Nat)
  /\ pos \in Nat /\ begin \in Nat /\ header \in Nat \cup {-1}
  /\ size \in Nat /\ txns \in Shorts
  /\ pc \in {"open", "magic", "header", "count", "tx", "seek", "write", "done",
             "unwritten", "crashed"}
  /\ printed \in Seq([begin : Nat, txns : Shorts, coinbase : BOOLEAN, ins : Shorts])
  /\ buf \in Seq(Byte)

(* Where block i begins; whether the sizes of the blocks before it lead    *)
(* there, which a wrong one does not, nor one that is too small; and then  *)
(* whether the printing comes to it: if the file holds its header.         *)
Begins(i) == Len(PlainUpTo(blocks)[i - 1])
Led(i) ==
  \A j \in 1..(i - 1) :
    j \in DOMAIN blocks /\ blocks[j].size = HeaderSize + Len(blocks[j].body)
Reached(i) ==
  Led(i) /\ Begins(i) + MagicSize + SizeSize + HeaderSize <= Len(file)

(* Each block that the printing comes to is printed, once and in its place,*)
(* whatever is in the transactions and wherever reading them failed.       *)
BlocksPrinted ==
  /\ \A i \in DOMAIN printed :
       Led(i) => i \in DOMAIN blocks /\ Reached(i) /\ printed[i].begin = Begins(i)
  /\ pc \in {"write", "done", "unwritten"} =>
       \A i \in DOMAIN blocks : Reached(i) => i \in DOMAIN printed

(* Block i is printed, the file holds all of it, and what it says is so. *)
Whole(i) ==
  i \in DOMAIN blocks /\ Led(i) /\ Begins(i + 1) <= Len(file) /\ Says(blocks[i])

(* The numbers that are printed are those of the block, wherever in the    *)
(* file it stands (the key starts anew every XorKeySize bytes of the file, *)
(* not of a read), when a short holds them: the transactions, and the      *)
(* inputs of a first transaction without the segwit marker.                *)
CountsRight ==
  \A i \in DOMAIN printed : Whole(i) =>
    /\ blocks[i].txns < 2^15 => printed[i].txns = blocks[i].txns
    /\ printed[i].coinbase /\ ~blocks[i].segwit /\ blocks[i].ins < 2^15 =>
         printed[i].ins = blocks[i].ins

(* The output is all of the file, decoded, wherever the printing stopped.  *)
OutputDecoded ==
  pc = "done" => buf = SubSeq(Plain(blocks), 1, Len(file))

=============================================================================
