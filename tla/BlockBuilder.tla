---------------------------- MODULE BlockBuilder ----------------------------
(***************************************************************************)
(* src/apps/bcapp/main_block_builder.c: builds a block of one transaction  *)
(* and writes it to a binary and a hex file; with the serialisation it     *)
(* uses (src/apps/bclib/bc_utils.h, bc_utils.c, bc_hex.c).                 *)
(*                                                                         *)
(* A byte is a number below ByteMod, which is the square of Nibble; field  *)
(* widths are those of the code (1, 2, 4, 8), hashes have HashSize bytes.  *)
(* The transaction that main fills in from its constants is one of Txs;    *)
(* the others are what another caller of bc_append_transaction may pass.   *)
(* A failed allocation ends the process, as main sets no handlers; the     *)
(* last one is made when the binary file has been written.                 *)
(***************************************************************************)
EXTENDS Integers, Sequences, SequencesExt

CONSTANTS
  Nibble,       \* 16 in the code: the number of the hex digits
  HashSize,     \* BcHashSize: 32 in the code
  Hash256(_),   \* hash256_digest of a sequence of bytes
  Txs,          \* what tx_info may be
  ArgVectors,   \* argv[1..argc - 1]: sequences of arguments
  Version,      \* BcBlockVersion_Default
  Now,          \* time(NULL)
  FileAt(_),    \* the file that a path leads to
  Before,       \* what a file holds, or that there is none, before main runs
  Stops(_)      \* where fwrite of n bytes may stop: anywhere in 0..n

ByteMod == Nibble * Nibble

(* The numbers that k bytes can hold; no integer is wider than 8. *)
Power[k \in 0..8] == IF k = 0 THEN 1 ELSE Power[k - 1] * ByteMod

(* uint8_t, uint32_t and uint64_t, by their bytes; and what a uint64_t counts. *)
UInt(w) == 0..(Power[w] - 1)
Vector(S) == {v \in Seq(S) : Len(v) \in UInt(8)}

ASSUME SizesAssumption ==
  Nibble \in Nat \ {0, 1} /\ HashSize \in UInt(8) \ {0} /\ Version \in UInt(4) /\ Now \in UInt(4)
ASSUME FilesAssumption == Before \notin Seq(Int)

VARIABLES
  argv,     \* the arguments; each is what strcmp, strtoul and the hex digit
            \* table make of it: name, number, digits
  index,    \* i of parse_opts
  opts,     \* options_t
  tx_info,
  header,   \* the block header
  buf,      \* the buffer
  hex,      \* the string of hex digits
  files,    \* what each file holds
  step      \* "opts", "append", "bin", "hex" or an end

builder_vars == <<argv, index, opts, tx_info, header, buf, hex, files, step>>
-----------------------------------------------------------------------------
(* Serialisation *)

(* An integer of w bytes, the lowest first. *)
U(w, val) == [k \in 1..w |-> (val \div Power[k - 1]) % ByteMod]

Prefix(w) == ByteMod - (CASE w = 2 -> 3 [] w = 4 -> 2 [] w = 8 -> 1)

(* Mutant: the greatest value of one byte is that of the first prefix. *)
VarintShort(val) ==
  IF val <= ByteMod - 3 THEN U(1, val) ELSE <<Prefix(2)>> \o U(2, val)

(* bc_append_varint *)
Varint(val) ==
  IF val < ByteMod - 3 THEN U(1, val)
  ELSE IF val < Power[2] - 1 THEN <<Prefix(2)>> \o U(2, val)
  ELSE IF val < Power[4] - 1 THEN <<Prefix(4)>> \o U(4, val)
  ELSE <<Prefix(8)>> \o U(8, val)

Sized(bytes) == Varint(Len(bytes)) \o bytes

(* A vector of n elements, the jth written as W(j). *)
Many(n, W(_)) == FlattenSeq([j \in 1..n |-> W(j)])

in_count(t) == Len(t.ins)

Inputs(t) ==
  LET W(j) == LET txi == t.ins[j]
              IN  txi.txid \o U(4, txi.vout) \o Sized(txi.script) \o U(4, txi.sequence)
  IN  Varint(in_count(t)) \o Many(in_count(t), W)

Outputs(t) ==
  LET W(j) == U(8, t.outs[j].amount) \o Sized(t.outs[j].script)
  IN  Varint(Len(t.outs)) \o Many(Len(t.outs), W)

(* w->items + j, perhaps behind the last of the items: no byte. *)
Item(items, j) == IF j <= Len(items) THEN items[j] ELSE <<ByteMod>>

(* j < tx->in_count *)
Fields(t, items) == IF items = <<>> THEN 0 ELSE in_count(t)

Witnesses(t) ==
  LET W(j) == LET items == t.witness[j]
                  F(k) == Sized(Item(items, k))
              IN  Varint(Len(items)) \o Many(Fields(t, items), F)
  IN  Varint(in_count(t)) \o Many(in_count(t), W)

Legacy(t) == U(4, t.version) \o Inputs(t) \o Outputs(t) \o U(4, t.lock_time)

Segwit(t) ==
  U(4, t.version) \o U(1, t.marker) \o U(1, t.flags)
    \o Inputs(t) \o Outputs(t) \o Witnesses(t) \o U(4, t.lock_time)

Transaction(t) == IF t.flags # 0 THEN Segwit(t) ELSE Legacy(t)

(* Mutant: the txid covers the witnesses. *)
TxidOfAll(t) == Hash256(Transaction(t))

(* bc_tx_txid *)
Txid(t) == Hash256(Legacy(t))

(* bc_append_block_header: the struct as it is. *)
Header(h) ==
  U(4, h.version) \o h.hash_prev_block \o h.hash_merkle_root
    \o U(4, h.timestamp) \o U(4, h.bits) \o U(4, h.nonce)

(* bc_tx_info_t, as any caller may fill it.  Behind the inputs there are   *)
(* as many stacks (witness_vec, "same length as in_vec"), if flags say     *)
(* that there is a witness; and the hash function gives hashes.            *)
AHash == [1..HashSize -> UInt(1)]
AnInput == [txid : AHash, vout : UInt(4), script : Vector(UInt(1)), sequence : UInt(4)]
AnOutput == [amount : UInt(8), script : Vector(UInt(1))]
ATx ==
  [version : UInt(4), marker : UInt(1), flags : UInt(1), ins : Vector(AnInput),
   outs : Vector(AnOutput), witness : Seq(Vector(Vector(UInt(1)))), lock_time : UInt(4)]

ASSUME TxsAssumption ==
  /\ Txs \subseteq ATx
  /\ \A t \in Txs : (t.flags # 0 => Len(t.witness) = in_count(t)) /\ Txid(t) \in AHash
-----------------------------------------------------------------------------
(* Hex *)

ByteOfDigits(d) == d[1] * Nibble + d[2]
DigitsOfByte(b) == <<b \div Nibble, b % Nibble>>

HashStringSize == 2 * HashSize

(* Mutant: in the order of the digits. *)
HashInOrder(digits) ==
  [k \in 1..HashSize |-> ByteOfDigits(SubSeq(digits, 2 * k - 1, 2 * k))]

(* bc_hash32_from_cspan: the last byte comes first. *)
HashOfDigits(digits) ==
  [k \in 1..HashSize |->
     LET n == HashSize - k IN ByteOfDigits(SubSeq(digits, 2 * n + 1, 2 * n + 2))]

Nul == -1

(* bc_write_hex_forward, into a string with room for it *)
HexForward(bytes) ==
  [k \in 1..(2 * Len(bytes)) |-> DigitsOfByte(bytes[(k + 1) \div 2])[2 - (k % 2)]] \o <<Nul>>

(* bc_write_hex_backward *)
HexBackward(bytes) == HexForward(Reverse(bytes))
-----------------------------------------------------------------------------
AnArg == [name : STRING, number : UInt(4), digits : Seq(0..(Nibble - 1))]

ASSUME ArgumentsAssumption == ArgVectors \subseteq Seq(AnArg)

Paths == {a.name : a \in UNION {ToSet(v) : v \in ArgVectors}}
Unset == <<"unset">>
ZeroHash == [k \in 1..HashSize |-> 0]

BuilderInit ==
  /\ argv \in ArgVectors
  /\ index = 1
  /\ opts = [prev_block_hash |-> Unset, bits |-> 0, timestamp |-> 0,
             obin |-> {}, ohex |-> {}]
  /\ tx_info = <<>> /\ header = <<>>
  /\ buf = <<>> /\ hex = <<>>
  /\ files = [f \in {FileAt(path) : path \in Paths} |-> Before]
  /\ step = "opts"

Known == {"-pb", "-bits", "-time", "-obin", "-ohex"}

(* What an option with this value makes of the options; of the paths, the  *)
(* last one given counts.                                                  *)
Parsed(opt, val) ==
  CASE opt = "-pb"   -> [opts EXCEPT !.prev_block_hash = val.digits]
    [] opt = "-bits" -> [opts EXCEPT !.bits = val.number]
    [] opt = "-time" -> [opts EXCEPT !.timestamp = val.number]
    [] opt = "-obin" -> [opts EXCEPT !.obin = {val.name}]
    [] opt = "-ohex" -> [opts EXCEPT !.ohex = {val.name}]

(* One turn of the loop of parse_opts: an option takes the next argument,  *)
(* whatever it looks like.                                                 *)
ParseOpt ==
  /\ step = "opts" /\ index <= Len(argv)
  /\ IF argv[index].name \in Known /\ index + 1 <= Len(argv)
       THEN opts' = Parsed(argv[index].name, argv[index + 1]) /\ index' = index + 2 /\ step' = step
       ELSE step' = "usage" /\ UNCHANGED <<index, opts>>
  /\ UNCHANGED <<argv, tx_info, header, buf, hex, files>>

(* An allocation or an assertion fails: so ends, among others, a previous  *)
(* hash with too few digits, or the reading behind a witness's items.      *)
Abort == step' = "aborted" /\ UNCHANGED <<tx_info, header, buf, hex, files>>

(* The header and the transaction. *)
Fill ==
  /\ step = "opts" /\ index > Len(argv)
  /\ \/ Abort
     \/ /\ opts.prev_block_hash = Unset \/ Len(opts.prev_block_hash) >= HashStringSize
        /\ tx_info' \in Txs
        /\ header' =
             [version |-> Version,
              hash_prev_block |-> IF opts.prev_block_hash = Unset THEN ZeroHash
                                  ELSE HashOfDigits(opts.prev_block_hash),
              hash_merkle_root |-> Txid(tx_info'),
              timestamp |-> IF opts.timestamp # 0 THEN opts.timestamp ELSE Now,
              bits |-> opts.bits,
              nonce |-> 0]
        /\ step' = "append" /\ UNCHANGED <<buf, hex, files>>
  /\ UNCHANGED <<argv, index, opts>>

(* The header, the number of the transactions, and the transaction. *)
AppendBlock ==
  /\ step = "append"
  /\ \/ Abort
     \/ /\ buf' = Header(header) \o Varint(1) \o Transaction(tx_info)
        /\ step' = "bin" /\ UNCHANGED <<tx_info, header, hex, files>>
  /\ UNCHANGED <<argv, index, opts>>

Cuts(bytes) == {SubSeq(bytes, 1, n) : n \in Stops(Len(bytes)) \cap (0..Len(bytes))}

(* Mutant: the file is not emptied ("r+"). *)
WrittenOver(path, bytes) ==
  LET old == files[FileAt(path)]
  IN  \E cut \in Cuts(bytes) :
        files' = [files EXCEPT ![FileAt(path)] =
                    IF old = Before THEN cut ELSE cut \o SubSeq(old, Len(cut) + 1, Len(old))]

(* fopen, which empties the file or fails and leaves it as it is, and      *)
(* fwrite, which may stop anywhere.  Nobody looks at their results.        *)
Written(path, bytes) ==
  \E after \in {files[FileAt(path)]} \cup Cuts(bytes) :
    files' = [files EXCEPT ![FileAt(path)] = after]

WriteBin ==
  /\ step = "bin"
  /\ \/ opts.obin = {} /\ files' = files
     \/ \E path \in opts.obin : Written(path, buf)
  /\ step' = "hex"
  /\ UNCHANGED <<argv, index, opts, tx_info, header, buf, hex>>

(* The string is allocated, and only then the file is opened. *)
WriteHex ==
  /\ step = "hex"
  /\ \/ opts.ohex = {} /\ step' = "done" /\ UNCHANGED <<tx_info, header, buf, hex, files>>
     \/ opts.ohex # {} /\ Abort
     \/ \E path \in opts.ohex :
          /\ hex' = HexForward(buf) /\ Written(path, hex')
          /\ step' = "done" /\ UNCHANGED <<tx_info, header, buf>>
  /\ UNCHANGED <<argv, index, opts>>

BuilderEnded == step \in {"usage", "aborted", "done"} /\ UNCHANGED builder_vars

BuilderNext == ParseOpt \/ Fill \/ AppendBlock \/ WriteBin \/ WriteHex \/ BuilderEnded

BuilderSpec == BuilderInit /\ [][BuilderNext]_builder_vars
-----------------------------------------------------------------------------
(* A reader of blocks, written from the format and not from the code: each *)
(* operator reads at position p of s and says what it found and where it   *)
(* ends.  Behind the end it reads zeros.                                   *)

Cell(s, p) == IF p <= Len(s) THEN s[p] ELSE 0
Found(val, next) == [val |-> val, next |-> next]

ReadCells(s, p, n) == Found([k \in 1..n |-> Cell(s, p + k - 1)], p + n)

ReadU(s, p, w) ==
  LET upTo[k \in 0..w] ==
        IF k = 0 THEN 0 ELSE upTo[k - 1] + Cell(s, p + k - 1) * Power[k - 1]
  IN  Found(upTo[w], p + w)

ReadVarint(s, p) ==
  LET b == Cell(s, p)
  IN  CASE b = ByteMod - 3 -> ReadU(s, p + 1, 2)
        [] b = ByteMod - 2 -> ReadU(s, p + 1, 4)
        [] b = ByteMod - 1 -> ReadU(s, p + 1, 8)
        [] OTHER -> Found(b, p + 1)

(* A count is not believed beyond the length of s. *)
ReadCount(s, p) ==
  LET n == ReadVarint(s, p) IN Found(IF n.val > Len(s) THEN 0 ELSE n.val, n.next)

(* n elements; R gives for each position what is read there. *)
ReadMany(p, n, R) ==
  LET upTo[k \in 0..n] ==
        IF k = 0 THEN Found(<<>>, p)
        ELSE LET before == upTo[k - 1]
                 r == R[before.next]
             IN  Found(Append(before.val, r.val), r.next)
  IN  upTo[n]

ReadSized(s, p) == LET n == ReadCount(s, p) IN ReadCells(s, n.next, n.val)
ReadVector(s, p, R) == LET n == ReadCount(s, p) IN ReadMany(n.next, n.val, R)

ReadInput(s, p) ==
  LET txid == ReadCells(s, p, HashSize)
      vout == ReadU(s, txid.next, 4)
      script == ReadSized(s, vout.next)
      sequence == ReadU(s, script.next, 4)
  IN  Found([txid |-> txid.val, vout |-> vout.val, script |-> script.val,
             sequence |-> sequence.val], sequence.next)

ReadOutput(s, p) ==
  LET amount == ReadU(s, p, 8)
      script == ReadSized(s, amount.next)
  IN  Found([amount |-> amount.val, script |-> script.val], script.next)

ReadStack(s, p) == ReadVector(s, p, [q \in Nat |-> ReadSized(s, q)])

(* A transaction; a zero where the number of the inputs should be is the   *)
(* marker of a transaction with witnesses, before which it counts them.    *)
ReadTx(s, p) ==
  LET version == ReadU(s, p, 4)
      segwit == Cell(s, version.next) = 0
      ins == ReadVector(s, version.next + (IF segwit THEN 2 ELSE 0),
                        [q \in Nat |-> ReadInput(s, q)])
      outs == ReadVector(s, ins.next, [q \in Nat |-> ReadOutput(s, q)])
      stacks == IF segwit THEN ReadVector(s, outs.next, [q \in Nat |-> ReadStack(s, q)])
                ELSE Found(<<>>, outs.next)
      lock_time == ReadU(s, stacks.next, 4)
  IN  Found([version |-> version.val, marker |-> 0,
             flags |-> IF segwit THEN Cell(s, version.next + 1) ELSE 0,
             ins |-> ins.val, outs |-> outs.val, witness |-> stacks.val,
             lock_time |-> lock_time.val], lock_time.next)

ReadHeader(s, p) ==
  LET version == ReadU(s, p, 4)
      prev == ReadCells(s, version.next, HashSize)
      root == ReadCells(s, prev.next, HashSize)
      timestamp == ReadU(s, root.next, 4)
      bits == ReadU(s, timestamp.next, 4)
      nonce == ReadU(s, bits.next, 4)
  IN  Found([version |-> version.val, hash_prev_block |-> prev.val,
             hash_merkle_root |-> root.val, timestamp |-> timestamp.val,
             bits |-> bits.val, nonce |-> nonce.val], nonce.next)

BlockHeader == ReadHeader(buf, 1)
TxCount == ReadVarint(buf, BlockHeader.next)
FirstTx == ReadTx(buf, TxCount.next)
-----------------------------------------------------------------------------
(* Properties *)

(* What the format can say of a transaction: a marker is zero; without     *)
(* flags there must be inputs, and no witness is written.                  *)
Expressible(t) == t.marker = 0 /\ (t.flags = 0 => in_count(t) > 0)

(* What the code can write of that: it counts the fields of a witness by   *)
(* the inputs, so their numbers must agree.                                *)
Writable(t) ==
  /\ Expressible(t)
  /\ t.flags # 0 => \A j \in 1..in_count(t) : Len(t.witness[j]) \in {0, in_count(t)}

Shown(t) == IF t.flags = 0 THEN [t EXCEPT !.witness = <<>>] ELSE t

(* The bytes are one header, the number 1 and one transaction, and a       *)
(* reader finds in them what was written, whatever sizes the scripts and   *)
(* the witness fields have (bc_append_varint changes its form three        *)
(* times), for the transactions that the code can write.                   *)
ReadBack ==
  buf # <<>> =>
    /\ BlockHeader.val = header
    /\ TxCount.val = 1
    /\ Writable(tx_info) => FirstTx = Found(Shown(tx_info), Len(buf) + 1)

(* What bc_append_tx_witnesses_section says by the count that it writes    *)
(* before each witness: that so many fields follow, and so a reader finds  *)
(* every transaction there is in the format.  It does not hold: the loop   *)
(* below writes as many fields as there are inputs.                        *)
ReadBackAll ==
  buf # <<>> /\ Expressible(tx_info) => FirstTx = Found(Shown(tx_info), Len(buf) + 1)

(* A reader can check the header against the block: its merkle root is the *)
(* hash of the transaction read back without marker, flags and witness,    *)
(* and its previous hash, displayed, is the string that was given.         *)
HeaderCommits ==
  buf # <<>> =>
    /\ Writable(tx_info) =>
         BlockHeader.val.hash_merkle_root = Hash256(Legacy(FirstTx.val))
    /\ HexBackward(BlockHeader.val.hash_prev_block) =
         (IF opts.prev_block_hash = Unset THEN HexForward(ZeroHash)
          ELSE SubSeq(opts.prev_block_hash, 1, HashStringSize) \o <<Nul>>)

(* The digits of the block, two for each byte, as far as they go, and      *)
(* behind the last of them the end.                                        *)
HexOfBlock(digits) ==
  /\ \A k \in 1..(Len(digits) \div 2) :
       buf[k] = ByteOfDigits(SubSeq(digits, 2 * k - 1, 2 * k))
  /\ \A k \in 1..Len(digits) : digits[k] = Nul <=> k = 2 * Len(buf) + 1

(* The files never say different things of the block: whatever could not   *)
(* be opened, written or allocated, a file is as it was, or what it holds  *)
(* is cut off the one block, in the form that was asked of this file; if   *)
(* both options lead to it, in either form, but never a mixture.           *)
FilesAgree ==
  \A f \in DOMAIN files :
    \/ files[f] = Before
    \/ \E path \in opts.obin : FileAt(path) = f /\ IsPrefix(files[f], buf)
    \/ \E path \in opts.ohex : FileAt(path) = f /\ HexOfBlock(files[f])

=============================================================================
