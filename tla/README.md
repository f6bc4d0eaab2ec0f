# A TLA+ model of nulab

nulab is a small C code base around Bitcoin blocks: `nulib`, a library of
dynamic arrays and allocators; `bclib`, hashing, Merkle roots, serialisation and
JSON scanning; and five programs in `apps/bcapp` built on them. This directory
holds specifications of the parts with behaviour worth checking, the TLC
configurations that check small instances, and TLAPS proofs for the instances of
every size. Source paths below are relative to `src/`.

Run `tlc -config MCx.cfg MCx.tla` for a model, `tlapm xProofs.tla` for proofs.

## Inventory

| component | sources | state | operations | hard behaviour |
|---|---|---|---|---|
| block_solver | `apps/bcapp/main_block_solver.c` | the pool (`timestamp`, `nonce`), `mtx_tasks`, a task per thread | take a range, hash it, print and `exit`, join | threads, a shared counter, failing C11 calls, wrap-around |
| nulib dca | `libs/nulib/src/dca.c`, `include/nulib/dca.h`, `buffer.h`, `string.h` | per array: allocator, block with `bcap`, `blen`, elements | create, reserve, extend, consume, clean, release, access | overflow of `size_t`, moved blocks, failed allocation |
| nulib memory | `libs/nulib/src/memory.c`, `memory.h` | the default allocator | get/set default, `nu_malloc`, `nu_calloc`, `nu_realloc`, `nu_free` | a default that changes under living arrays and blocks |
| nulib assert | `assert.h`, `assert.c`, `preset.h` | three handlers | assert, expect, ensure | a handler that returns |
| client | `apps/bcapp/main_client.c`, `bc_client.c`, `tcp_client.c`, `bclib/bc_message.h` | socket, `ec`, `status`, failure counter | connect, version, receive loop, replies, disconnect | short reads and sends, end of stream, errors at every byte |
| sha256 | `apps/bclib/sha256.c` | `hash`, `block`, `index`, `msglen` | reset, update, finish, begin, result, a digest of a digest | loops that share counters, block boundaries, length overflow |
| merkle root | `apps/bclib/bc_merkle_root.c` | one buffer, read and written in place | rounds | aliasing, odd rounds, empty list |
| block_dexor | `apps/bcapp/main_block_dexor.c` | position in the file, key | print block by block, copy decoded | key phase, errors in the middle of a block, number formats |
| block_template_parser | `main_block_template_parser.c`, `bclib/bc_json.c` | the text, how far the scan is, a vector of spans | load, tag scan, merkle root, fields | tags found outside the transaction, a text cut off |
| block_builder | `main_block_builder.c` | options, a transaction, a buffer, one file or two | parse, build, write | files that fail unnoticed, one path for both |
| serialisation | `bclib/bc_utils.h`, `bc_utils.c` | a buffer | varints, inputs, outputs, witnesses, txid, files | form boundaries, counts of the wrong vector |
| hex, types | `bclib/bc_hex.*`, `bc_types.h` | none | conversion | |
| find_nonce | `apps/bcapp/find_nonce.c` | a stop flag shared by threads and calls, a job per thread | search in ranges, cancel, join | a flag that is never cleared, threads that were not created |
| tests | `tests/`, `bclib/test_*.c` | | | |

The programs share no state with each other; they meet in files (the solver reads
the 80-byte header the builder writes). Inside a program the interactions are
calls, except for four: the solver's threads share the pool, the client's peer
acts on its own, the threads of `find_nonce.c` share a flag that outlives the call,
and every dca array captures the default allocator of the moment
it is created, which other code may replace.

What makes each component correct:

* solver: the ranges partition the nonces of every timestamp; a drained pool means
  an exhausted search; what is printed solves the block; the program ends.
* dca: the header of a block tells the truth; a block has one owner, with the
  allocator that made it; pointers stay good while the capacity suffices; the
  elements are a sequence that only the caller changes.
* client: after any short read nothing more is read as a message; messages are
  handled in order, once; the answers follow them; a vanished peer ends the client.
* sha256: the cutting of a message into calls does not matter; the padding is right
  at every length.
* merkle root: no round overwrites what it has still to read, and the result is
  the root of the tree.
* dexor: every block of the file is found, whatever fails inside the one before
  it; every byte is decoded with its own byte of the key.
* memory: a block goes back to the allocator it came from, and is as large as it
  was asked to be.
* template parser: the spans of a view belong to one transaction, and the header
  is made of the template's fields.
* builder and serialisation: a reader of the format finds in the bytes what was
  written; the header commits to it; the files never say different things.
* find_nonce: "found" is true, "not found" has left nothing out, and every call
  returns, whatever the threads see of the flag.

The hazards of the code, line by line, are the `hazards` of `PROJECT.json`.

## Modules

| module | what it is | abstract specification | proofs |
|---|---|---|---|
| `BlockSolver` | the solver's threads, pool and lock | `NonceSearch` | `BlockSolverProofs` |
| `Dca` | arrays and allocators | `GrowArray` | `DcaProofs` |
| `Memory` | `Dca` with blocks from `nu_malloc` beside the arrays | `Dca` | `DcaProofs` |
| `BcClient` | the client and its peer | | `BcClientProofs` |
| `Sha256Stream` | the streaming digest | (a reference padding) | `Sha256StreamProofs` |
| `MerkleRoot` | the rounds of the Merkle root | `MerkleLevels` | `MerkleRootProofs` |
| `BlockDexor` | the reader of block files | (a reference decoding) | `BlockDexorProofs` |
| `FindNonce` | the older, parallel search and its flag | | `FindNonceProofs` |
| `BlockBuilder` | the builder, serialisation and hex | (a reference reader) | `TemplateBuilderProofs` |
| `TemplateParser` | the JSON scan and what is made of it | | `TemplateBuilderProofs` |

Each has an `MC` module that gives constants their values. Operators whose comment
begins with "Mutant" are plausible mistakes: each property is violated when one of
them replaces the operator that follows it. They are used nowhere else.

### BlockSolver

`pc[w]` says where thread `w` is in `worker_proc`. `Lock`, `TryLockBusy` and
`LockFails` are `mtx_trylock`/`mtx_lock` of `worker_pool_get_task`; `ReadPool` and
`TakeTask`/`NoTasksLeft` are `find_nonce_next_task`, split after it has read the
pool, so that a lock that did not exclude would be seen; `Unlock` returns. One
`TestNonce` is one turn of the loop of `find_nonce`, `PutTask` and `Exit` the
printing and the `exit(0)` of `worker_pool_put_task`. `Spawn`, `Join`, `JoinCrash`
and `MainReturn` are `main`. The result of `thrd_create` is ignored by the code, so
a thread may be missing; joining it is undefined, so it may do nothing or end the
process. `mtx_lock` may fail, which makes a thread stop as if the pool were empty.

A digest is not computed: a target is the set of the candidates (timestamp, nonce)
whose hash is not above it, and TLC tries several such sets. `RangeEnd` keeps the
rounding and the clipping, `NextTime` the `uint32_t` wrap.

Candidates are hashed without a lock, so `Partition` relates the shared pool, the
private tasks and the history `tested`.

### Dca

An array is a pair (allocator, block), a block a header (`bcap`, `blen`) followed
by elements. `Grow` is the allocator's answer to reconsume: the same address or a
free one, the old elements kept; `Refuse` is its NULL, or a failed check, after
which the handler either ends the process or lets the call return NULL (as the
tests' handlers do). All arithmetic is modulo `SizeMod`, and `HasCkd` says whether
`stdckdint.h` is there. `SetDefault` and `Create` are in the same module because
the hazard is in their interplay. One thing is assumed of callers: `create` is not
called on an array that has a block.

`dca.c:23` adds the offset of the elements to the size without a test, so a request
within `Off` bytes of `SIZE_MAX` gets a block that is too small for its header, with a
huge capacity in it. `AllocSize` wraps as the code does; the block then has no
elements, and a header that does not fit is written outside the block or into what the
allocator gave beyond the size (`HeaderWritten`). After a write outside a block
(`WriteOutside` too) the outcome is "undefined" and nothing is said of the program.
`Sound(a)` is that the capacity of `a` and the offset together do not wrap; an array
that is not sound is shown to `GrowArray` as `Lost`, which it stays until it is
released, and which happens by such a request alone and to no other array.

### Memory

Extends `Dca`: the arrays take their steps (`ArrayStep`) in a program that also
calls `nu_malloc`, `nu_calloc`, `nu_realloc` and `nu_free`. The two share the
addresses and the default allocator, and differ in one thing: an array remembers
its allocator, a raw block does not, so `ReturnedTo` is the default of the moment.
`corrupt` is the memory error that follows when that is not the block's `owner`;
nothing is said of the program after it. `raw[b].enough` is whether the block is as
large as the caller asked, `raw[b].swapped` a history: the default has changed since.
The allocator's alignment and the contents of raw blocks are left out.

### BcClient

The wire is a sequence of bytes `<<message, index>>`. `Recv(n, k)` is a `recv` of
`n` bytes that returns `k`: fewer than asked for, 0 at the end of the stream, or an
error. The client is at one of the calls that can wait or fail: `Connect`,
`SendVersion` (header, payload), `RecvMagic`, `RecvRest`, `RecvData`, `OnMsg`,
`LoopEnds`, `Disconnect`. The state between two of them is local, so nothing else
can act there. `Failed` and `GivesUp` are the failure counter of `main`. `Send`
may be short, fail, or end the process by SIGPIPE (`send` is given no flags).
A message is its kind; `Payload` gives its length. The peer sends well-formed
frames; the magic of its network, its checksums and its commands may be wrong, and a
payload that `on_msg` reads may not be there ("empty"), which ends the process: `inv`
by its expectation, `version` and `sendcmpct` by a read through NULL. The client's two
buffers are supposed to find memory.

### Sha256Stream

The compression function appends its block to `hash`, which is all that a
collision-free function knows of its input. The three loops of `sha256_update` are
the steps `Fill`, `Blocks` and `Rest` with the loop counter `i` and the `len` that
the first loop modifies. `Beyond` is a byte read past the end of what was given.
`sha256_begin`, whose loop is a plain one, is one step. Between its loops update
shares nothing with anybody, so the split is for reading, not for interleaving.

`sha256_cont_then_sha256_result` is one step too, made of the same functions of a
context (`Pushed`, `Finished`). Its second digest is that of a whole block: 32 bytes
of the first digest and, behind them, 32 of whatever the caller's array held
(`sha256.c:293`), so it is no digest of a digest unless the caller arranged it.

Two asserts: line 174's `assert()` compiles only when NDEBUG is defined, as the
default build type defines it, so no build evaluates line 120's
`assert(ctx->index == 0)`. The model goes on when it fails.

`Streams` and `PaddedRight` speak of contexts in which no call straddled, that is,
began inside a block and went past its end. Straddling calls break the digest (see
Findings); the programs make none: the solver's calls are of 76, 4 and 32 bytes
after a reset.

### MerkleRoot

`ip` says whether a round reads the given hashes or the buffer it also writes.
`HashPair` is one turn of the inner loop. Cells of the buffer that were consumed
but not cleared hold `Junk`. `level` is a history variable, the hashes that the
round began with. `ReadRoot` is the caller in
`main_block_template_parser.c:66-70`, which ignores the result for an empty list
and reads through NULL.

### BlockDexor

A byte of the file carries its plain value and the byte of the key it was xor-ed
with, so decoding with a wrong phase gives a wrong value. A block of a file may claim
any size and hold any bytes; `Says(b)` is that its bytes encode the numbers that its
record names, with the marker and the flag of a witness where it says so, and `Led(i)`
that the sizes before block `i` are the true ones. `BlocksPrinted` speaks of blocks that
the sizes lead to, `CountsRight` of those that also say what they hold, as far as a
short can hold a number and the code prints it; the two restrictions are findings. One action is one of the
reads of `btc_file_print_info`; `TxHeader` and `VarInt` are functions of the
position that return error, value and new position, including the sign of a
2-byte count and the positions left behind by short reads. `Seek` follows whatever
happened. `Write` is the rest of `blkdat_dexor`.

### FindNonce

`Call` is `bc_find_nonce` with new arguments; a program may call it again, and the
flag stays as it is. `variant` is which search the `#if` of `bc_find_nonce` compiles: as
the code stands it is "v1". The branch for "par" follows an `#if 1` and is compiled only
when somebody edits that, and no CMake target compiles `find_nonce.c` at all: the module
models the file, not a program of the build. The variant is in it because the flag and
the ranges of `find_nonce_par` are what is hard to get right in this file.
`pc[w]` is where job `w` is in the loop of `find_nonce_v1`: `Hash` is from `proc:` to
the test of `cmp`, `NotFound`, `Cancel` and `NextNonce` the three ways on from
`next_nonce:`. The flag is a plain `bool`, so a write is seen by other threads at any
later time or never: `stop` is what was true before the threads began, `raised` what
was set since, and with `raised` alone both `Cancel` and `NextNonce` are possible.
Unlike the block solver, which accepts a hash not above the target, this search
accepts the target only. `Hashes` are sequences of bytes and `i256_compare` is
written out; the MC module checks it against the order of the numbers.

### BlockBuilder

`ParseOpt` is one turn of `parse_opts`, `Fill` the header and the transaction,
`AppendBlock` the buffer, `WriteBin` and `WriteHex` the files. `files` is what each file
holds, by the path that leads to it (`FileAt`): `-obin` and `-ohex` may be given one
path, or two that lead to one file, and of an option given twice the last counts. A
file that cannot be opened stays as it was before (`Before`, if nothing was written to
it); one that was opened is emptied and holds what `fwrite` left, of which any part may
be missing since nobody looks at a result. `Abort` is an allocation or an assertion that
fails, also the one between the two files. Bytes are numbers below `Nibble` squared, so
that small scripts cross every form of a varint. A transaction is whatever a caller of
`bc_append_transaction` may pass (`Txs`); `main`'s coinbase is one of them. The reader at
the end of the module is written from the format of blocks; `ReadBack` compares what it
finds with what was written, for the transactions that the format can express and the
code can write (`Writable`). `ReadBackAll` is the same for all that the format can
express, and is violated (see Findings).

### TemplateParser

The text is a sequence of words and signs, a pointer is a place in it. `Find` is
`json_find_tag_value`: the first occurrence from a place on, whatever it is part of.
`ScanTx` is one turn of the loop of `json_blocktemplate_tx_scan`, in which three spans
are looked for from the same place and the place moves behind the last. `Load` may
leave any beginning of the file, for `btcp_load_text_file` takes a short read for the
whole; of a file that cannot seek it reads past its memory, after which nothing is said
("undefined"). A word stands for what is made of it: `strtoul`, which cuts the fields to
32 bits, is not modelled. `root` is the sequence of the leaves, since `MerkleRoot` has the tree.
`Regular` says when a text has its tags where the scan supposes them: it is the whole
file, each tag is once in each transaction, as a key with a value, and not behind the
transactions. `ScanExact` and `TemplateUsed` are about such texts; `ViewsApart` and
`Ends` hold for every text. `TemplatesAssumption` says of a template only that it has
pairs of a word and words, in any number, before, in and behind its transactions.

## What the runs check

| run | bounds | properties |
|---|---|---|
| `solver` | N=3 threads, 2 timestamps, nonces 0..4 (ranges 0-1, 2-3, 4), three targets: no solution, one in a clipped range, two in different ranges; with and without another target on the command line | `Partition`, `Exhaustive`, `ReportsSound`, `RangesPerTime`, `Terminates`, `Solves`, refinement of `NonceSearch` |
| `dca` | `Memory` with 2 arrays, 1 raw block, 2 allocators, 3 addresses, sizes 0..9, elements of 2 | types, `CapacityBacked`, `Ownership`, `StableElements`, `RoomGranted`, refinement of `GrowArray`, `OwnAllocator`, `RawBacked` |
| `client` | 3 messages of 8 kinds, headers of 2+1 bytes, one failure tolerated | `InStep`, `HandledInOrder`, `Spoken`, `TcpErrorIsFinal`, `Ends`, `AllHandled` |
| `sha256` | blocks of 4 with 2 for the length, digests of 2, lengths to 9, 3 calls, msglen mod 16 | `Streams`, `PaddedRight` |
| `merkle` | 0 to 17 hashes | `UnreadIntact`, `RootOfTree`, refinement of `MerkleLevels` |
| `dexor` | up to two blocks of eleven kinds, cut after every byte | `BlocksPrinted`, `CountsRight`, `OutputDecoded` |
| `find_nonce` | 3 jobs, 8 nonces, 5 inputs, 2 calls in a row, hashes of 2 bytes | `FoundSound`, `NotFoundExhaustive`, `Returns` |
| `builder` | bytes of 4 values, 21 transactions, 11 argument vectors, writes that stop after nothing, a quarter or all | `ReadBack`, `HeaderCommits`, `FilesAgree` |
| `template` | 13 templates, whole and cut after every lexeme | `ScanExact`, `ViewsApart`, `TemplateUsed`, `Ends` |

Why these bounds are enough to mean something:

* solver: the quotient of 4 by 3 is rounded, the last range is clipped, there are
  as many ranges as threads in one timestamp and twice as many in two, so threads
  wait, take second ranges and cross a timestamp while others still hash
  the one before. The proofs cover every other size.
* dca: with ten sizes and a header in front of the elements, each of the overflow
  tests is both passed and failed, and the sum of `dca.c:23`, which has none, wraps for
  some requests that pass the others; three addresses are enough for each array to move while the
  other stays. Addresses are symmetric, and so are arrays.
* client: three messages are enough for a reply between two others, for a failure
  after a success and a success after a failure; two bytes of magic and one of
  rest allow a short read at each place. `MaxSent` is the one bound that the
  program does not have.
* sha256: blocks of 4 with room for 2 have all the cases of 64 and 56: before, at
  and after the length field, exactly full, several blocks in one call; `MaxCalls`
  bounds the calls of one message.
* merkle: 17 hashes go through five rounds, odd ones in a row, an odd one after
  even ones, and both neighbours of a power of two.
* dexor: a key of three and fields of one or two bytes put block boundaries on every
  phase of the key; the cuts make every read fail somewhere; numbers are on both sides
  of 2^8 and of 2^15, and sizes too small for a block, for this one, and too large.
* find_nonce: 8 nonces in 3 jobs leave a remainder, 2 nonces in 3 jobs none; with
  two solutions in different jobs two threads may raise the flag; `MaxCalls` = 2 is
  one call before and one after a success.
* builder: varints change their form at 1, 15 and 255, and there are scripts, fields
  and counts at each of these, one less and one more; witnesses have no, too few, as
  many and too many items; paths are the same, another one for the same file, or apart.
* template: two and three transactions, so that a span may come from the next one
  or the one after that; tags in both orders, missing, doubled, as values, and outside
  of the transactions.

Deadlock is checked in every run. Programs that have ended stutter explicitly
(`Ended`, `BuilderEnded`, `Stopped`, `Idle`).

### Fairness

`BlockSolver!FairSpec` has weak fairness of `main`'s step and of each thread's own
steps: the system schedules every thread. Nothing fair is asked of failures, nor is
a waiting thread promised the lock against others; `Terminates` holds because
ranges run out. `BcClient!FairSpec` has weak fairness of client steps that do not
raise an error, since errors need not happen; the peer owes nothing, so a client
that waits for a silent peer is not required to end. `FindNonce!FairSpec`
has weak fairness of the calling thread's step and of each thread's own, as in the
solver; that a thread ever sees the flag is not assumed, and `Returns` holds because
ranges end. `TemplateParser!FairSpec` is a single thread whose calls return. The
other modules check safety only.

## Findings

Three runs show where the code and what is said about it disagree; TLC prints the
trace. The line that says it is quoted in `PROJECT.json`.

* `client_inv` (`MCBcClientInv.cfg`): `on_inv` treats what it expects as an error
  (`main_client.c:113`), so eleven inv messages in a row end the connection. The
  model tolerates one failure, not ten, so two do.
* `sha256_straddle` (`MCSha256StreamCut.cfg`): an update that completes a started
  block and goes on loses or invents bytes (`sha256.c:166-173`).
* `builder_witness` (`MCBlockBuilderWitness.cfg`): the fields of a witness are counted by
  the inputs (`bc_utils.h:189`), so a reader does not find the witness that was given.

The others are stated by properties of passing runs, which say what the code does:

* The documented `[target]` argument of the block solver is never used
  (`main_block_solver.c:242-248`): `solver` runs with one on the command line, and
  `ImplementsSearch` holds for the targets of the header alone.
* A request within `off` bytes of `SIZE_MAX` wraps when the header is added
  (`dca.c:23`) and returns a pointer with no memory behind it: `RoomGranted` is about
  the others (`Holdable`, `Sound`), and `ImplementsSequence` shows such an array as
  `Lost`. `btcp_load_file` makes such a request when `ftell` fails.
* A number of two bytes is read into a short (`main_block_dexor.c:106`), so from 2^15 on
  a negative one is printed; and the input count of a transaction with the segwit marker
  is read and 0 is printed (`main_block_dexor.c:156-162`). `CountsRight` is about the
  other numbers.
* Without `stdckdint.h`, `extend` multiplies (`dca.h:90`) where the other branch
  adds. Set `HasCkd = FALSE` in `MCDca.cfg`, and `RoomGranted` fails.
* The template parser's leaves are the `hash` of each transaction, not its `txid`
  (`main_block_template_parser.c:62`), so the root is right for transactions without
  witnesses only (`TemplateUsed`).
* The stop flag of `find_nonce.c:23` is never cleared (`NotFoundExhaustive` needs
  that no earlier call found anything), and a job whose thread was not created counts
  as a success (`FoundSound` needs that all were).

## What is proved

The theorems hold for all values of the constants that satisfy the named
assumptions of their module.

`BlockSolverProofs`. `TypeCorrect` and `WrapNeverDrainsHolds` need no assumption
on the header; the others assume `NoWrap`, that the timestamps do not reach the end
of `uint32_t`. None of `Partition`, `Exhaustive`, `ReportsSound` is inductive; `Inv`
adds: who holds the lock is exactly who is in the critical section (`LockInv`); what
that thread has read is still what the pool holds (`ReadInv`), which is why
`TakeTask` may write from its locals; the pool's nonce is at a range boundary
(`PoolInv`); somebody who was told that the pool is drained was told so by a pool
past its last timestamp (`DrainInv`); the tasks are disjoint, below the pool's mark,
not yet hashed, and cover what is missing (`PartInv`); a solver's header beats the
target (`SolverInv`, `ReportInv`); and main returns only when all threads have ended
(`MainInv`). From it follow `PartitionHolds`, `ExhaustiveHolds`,
`ReportsSoundHolds`, `RangesPerTimeHolds`, and step by step the refinement of
`NonceSearch` (`Refinement`): `TestNonce` is the abstract `Test`, because no
candidate can be tested twice; the return of main is the abstract `Return`, because
of `Exhaustive`.

`DcaProofs`. `TypeCorrect`, `OwnershipHolds`, `StableElementsHolds` and the
refinement of `GrowArray` hold with and without checked arithmetic;
`CapacityBackedHolds` needs it, as sizes that wrapped are not whole elements. The
invariant `CapInv` is `TypeOK`, `Ownership` and `HeaderInv`: the latter is
`CapacityBacked` with the exact number of element cells of a block, the multiple of
the element size spelt out as a product, and that part under `HasCkd` only. The
operations are first reduced to a few shapes of steps (`NextShape`: pointers and
blocks stay, one array grows, one length is set, one element is stored, one
block is released), and each shape is shown once to keep the invariant and to be a
step of `GrowArray`.
Nothing is assumed of the sizes: a header whose capacity wraps with the offset has a
block without elements (`CapacityBacked` says both cases), a write through it leads to
"undefined", and the array is `Lost` in the refinement, where one step may lose one array and only `release` finds
it again. `RoomGrantedHolds` is the action property, also under `HasCkd`: the sums and
products that `stdckdint.h` accepts are the true ones, and so the capacity reaches what
was asked for, in a sound array and for a request that does not wrap with the offset
(`Holdable`). Without either of the two conditions the run finds a violation.

The same module has the theorems of `Memory`. Every step of it is a step of `Dca` or
leaves the arrays alone (`MemRefinement`), so what holds of `Dca` carries over.
`MemInv` adds to `CapInv`: the types of the raw blocks; an address belongs to an array
or to a raw block, not to both; and a raw block whose default was not replaced since
has the present default as its owner. The last part is what makes `OwnAllocator`
inductive: `nu_free` asks for the default, and only a replaced one can be foreign.

`MerkleRootProofs`. `Invariance` for every number of hashes and any pair hash:
while a round is under way, the cells below `i` hold new hashes and the inputs at
`2i` and above are untouched, because a pair is written at `i`, which is not above
`2i`; and the two cells of an odd round lie at `ext`, which no output reaches.
Then `TypeCorrect` (no index leaves the buffer), `UnreadIntactHolds` and
`Refinement`: one round is one `Ascend` of `MerkleLevels`.
`RootOfTreeHolds` relates the rounds to the tree, which is defined recursively on
rows: `TreeInv` says that the hashes a round begins with are a row of the tree over
the ids. The prover has no induction principle here, and what a recursive function
definition computes is not given but has to be shown: that the widths and rows of the
tree exist is proved by taking the least height without them (`LeastHeight`,
`WidthsExist`, `RowsExist`), for which well-foundedness of `<` is enough.

`FindNonceProofs`. `TypeCorrect`, `FoundSoundHolds` and `NotFoundExhaustiveHolds`, for
every number of jobs, width of a nonce, hash and sequence of calls. `Inv` adds to
the types, while a call is under way: where main and the jobs are in their loops
(`LoopInv`); of each job, that its range is the one `Range` gives, that no nonce it has
passed is a hit, and that what its result says is true (`JobInv`); and that a flag
raised in this call was raised by a job that succeeded (`FlagInv`), which is why a
cancelled job does not make "not found" false. `CompareZero` shows that
`i256_compare` is 0 for equal hashes only, `Cover` that the ranges of the jobs leave
no nonce out, the remainder of the division included; both need a least or greatest
element, which comes from the well-foundedness of `<` on the naturals (`Least`,
`Greatest`).

`BcClientProofs`. `TypeCorrect`, `InStepHolds`, `HandledInOrderHolds`, `SpokenHolds` and
`TcpErrorIsFinalHolds`, for every number of messages, every size of the magic, the
rest of the header and each payload. The invariant says that the wire is the end of
a stream of the peer's messages (`Stream`: behind each byte come the others of its
message, behind the last one the first of the next message) and that its first byte is
the one the client is about to read (`Place`). A short read breaks the second part,
and then the client is on its way out (`status`), which is why no further read is
possible. What the client has sent corresponds, one answer to each due message, to
`handled`.

`Sha256StreamProofs`. `TypeCorrect`, `StreamsHolds` and `PaddedRightHolds`, for every
block size, every size of the length field and all lengths of all calls. Without a
straddling call, what was absorbed and what is left of the call are together what was
given, and each of the three loops has its own invariant: the first one ends with
the block at the latest (`FillInv`), the second begins with an empty block or has
nothing to do (`BlocksInv`), the third copies what is left (`RestInv`). `FinishPads` is
the padding at every fill of the block, with one block or with two.

`BlockDexorProofs`. `TypeCorrect`, `BlocksPrintedHolds`, `CountsRightHolds` and
`OutputDecodedHolds`, for all files, cut off anywhere, all sizes of the fields and
of the key. There are two invariants. `BaseInv` holds whatever the blocks claim: the
file is a prefix of the xor-ed plain bytes (`FileInv`), and how far behind the beginning
of a block the reading is (`Passed`); types, the copy and `Progress` rest on it. `Inv`
adds, as far as the sizes lead (`Led`), where the reading is after so many printed blocks
(`PlaceInv`, with `At(k)`), and that the count that was read is that of the block, if
the file has all of it (`CountInv`). `BytesPlain` is the phase of the key: a read at any position gives plain
bytes, because the sum of remainders modulo the key size is the remainder of the sum.
`NumberOfBytes` inverts the division of a size into bytes. Both, and the place
of a block in the file, are recursive; their existence is `ChainExists`, and
`Induction` is the principle for sets of naturals, from well-foundedness again.

`TemplateBuilderProofs`. `TypeCorrect`, `ViewsApartHolds`, `ScanMovesOnHolds` (an action
property: each view moves the place of the scan on) and `FewViews` (there are fewer
views than lexemes), for all templates and all texts that fread leaves of them. The
invariant: all spans so far are behind the beginning and not behind the place of the
scan (`SpansIn`), and the place is behind as many lexemes as there are views
(`ScanInv`). `ScanExactHolds` and `TemplateUsedHolds` add `ExactInv`: in a regular text,
after m views the scan is not beyond transaction m but for the one lexeme that may
follow its last value, and no tag of that transaction is left before it. This is what makes
each search from one place right: the first tag it meets is the one of the next
transaction (`NextView`), and when there are m transactions the next search fails
(`NoMoreViews`). `PrintInv` says that what is printed is what `Find` answers. Both rest
on where the parts of a file lie: `FlattenSeq` is given by its offsets (`OffsetFacts`),
which exist by `ChainExists`, and `FileFacts` places the head, each transaction and the
tail by them.

The second half of the module is about `BlockBuilder`, since the lemmas about joined
sequences serve blocks and texts alike; that is why `BlockBuilder` has a `BuilderSpec`
and a `step`, so that both components can be extended by one module. It assumes two
values of a digit at least (`SizesAssumption`), transactions of the C types with a stack
for each input when `flags` say so (`TxsAssumption`; `bc_types.h`: "same length as
in_vec"), and arguments with their digits. `FilesAgreeHolds`: whatever could not be
opened, written or allocated, a file is as it was before or a beginning of the one block
or of its digits, in the form that an option asked of it, for any number of paths that
lead to one file. The invariant is `BuilderTypeOK`, whose core is that everything that is
appended is a sequence of numbers (`VarintFacts` to `HeaderCells`), and `Files`: nothing
is written before the block is appended, and after each of the two writes every file is
one of those three. `HexFacts` says that two digits are their byte
again and that the NUL is last.

`ReadBackHolds` and `HeaderCommitsHolds` need two more parts of that invariant: `Filled`
(the header has the txid and the hash of the string that was given) and `Appended` (the
buffer is what was appended). The rest is a round trip, stated by `Lies(s, p, e)`: the
cells `e` are in `s` from `p` on. Of two parts that lie one behind the other each lies
where it should (`LiesApart`), and each reader finds what lies at its place and ends
behind it: `URead` (by `NextByte`, one step of division more), `VarintRead` (each of the
four forms), `SizedRead`, `ManyRead` and `VectorRead` (for any reader that finds each
element), then inputs, outputs, stacks, `LegacyRead`, `SegwitRead` and `HeaderRead`. A
reader takes zero inputs for the marker of a witness; `Varint` begins with zero only if
it is zero, which is why `Writable` asks for an input where there are no flags. That the
reader does not believe a count beyond the length of the block costs nothing, since no
element is empty (`JoinedLong`). `HashDisplayed` says that the digits of a hash, read
back to front, twice, are in their first order.

Termination is proved as far as it is not fairness. In each component that has a
loop, a measure in the natural numbers falls with every step, so that no behaviour
goes on for ever, for any size of the input:

| theorem | at most so many steps | what it rests on |
| --- | --- | --- |
| `BlockSolverProofs!Progress` | 7 for each candidate and 7 more, for each thread | `PoolInv`: what is handed out is missing from the pool |
| `FindNonceProofs!Progress` | 2 for each nonce of its range and 1 more, for each job | `JobInv`: a job is inside its range |
| `MerkleRootProofs!Progress` | 4 for each hash and 3 more | a round of n hashes leaves (n + 1) / 2, and one hash ends the loop |
| `BcClientProofs!Progress` | 5 for each byte on the wire and 5 more, unless the peer sends | a read takes a byte or is the last |
| `Sha256StreamProofs!UpdateProgress` | 3 for each byte of a call and 3 more | no length falls below 0, even in a straddling call |
| `TemplateBuilderProofs!ParserProgress` | 1 for each lexeme of the file and 4 more | each view moves the scan on (`ScanTxStep`, `PlaceIn`) |
| `BlockDexorProofs!Progress` | 6 for each byte of the file and 8 more | the next block begins behind this one, whatever size it claims (`SeekMoves`) |

Where threads wait for each other that is half of the argument, and the other half is
`NeverStuck`, in `BlockSolverProofs` and in `FindNonceProofs`: until the end, `Ready`
holds, which says that main or some thread meets the conditions of its next step (the
guards of `Main` and `Work(w)`, without ENABLED). A thread in the critical section can
always go on, so a lock is never what everyone waits for, and main joins only threads
that can end. That some thread that can go on does so is weak fairness, which the
module's fairness gives, and with it `Terminates` and `Returns` follow; only this last
inference is left to TLC. In the solver all of it needs `NoWrap`: without it the pool
may be endless (`WrapNeverDrainsHolds`). What `Solves` and `AllHandled` say of the states
in which nothing is left to do is proved as well: a process that has ended has missed
no solution, if its C11 calls did not fail (`SolvedAtEndHolds`), and a client that waits
for a peer of its network is between two messages and has handled all that were sent
(`CaughtUpHolds`).

Only model-checked: the liveness properties themselves (`Terminates`, `Solves`, `Ends`,
`AllHandled`, `Returns`), since TLAPS reasons neither about ENABLED nor about fairness
here. No module declares a RECURSIVE operator, under which the SMT backend is lost:
recursion is written as functions.

## Not modelled

The compression function (arithmetic on values, covered by the repository's unit
tests). Printing and wording: `bc_fprint_*`, `tx_view_print`, the reports of
`assert.c`. The three handlers of `assert.h` as variables: programs set them, if at
all, before anything else, so the models choose a handler that ends the process or
one that returns. `btcp_load_file`, which differs from `btcp_load_text_file` in the
NUL only; files are read whole or not at all, except in the dexor and the template
parser, where every cut is tried. `find_nonce_v2`, the loop of `find_nonce_v1` over
`sha256_cont_then_sha256_result`: the `#if` chooses neither it nor the parallel search,
and of the two the parallel search has the behaviour that v1 alone has not. Failing
allocations of the client's buffers. The values that `strtoul` reads. The layout of the client's
version payload, which is a length. Plain types and macros (`bc_types.h`,
`bc_error.h`, `preset.h`), the unit tests and the build files.

## Plan

All components with behaviour of their own are modelled, every safety property of
the runs is proved, and so is the termination of each loop but for fairness. What could still be proved are further relations
between modules: that the root that `TemplateParser` names by its leaves is the one of
`MerkleRoot`, and that the bytes the block solver hashes are those `Header` writes.
