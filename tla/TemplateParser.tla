--------------------------- MODULE TemplateParser ---------------------------
(***************************************************************************)
(* src/apps/bcapp/main_block_template_parser.c: reads a block template in  *)
(* JSON and prints the header of a block made of it; with the search for   *)
(* tags (src/apps/bclib/bc_json.c) and btcp_load_text_file.                *)
(*                                                                         *)
(* The text is a sequence of lexemes: a word (a quoted string or a         *)
(* number), or one of the signs "," "[" "]", of which the comma ends a     *)
(* value.  Quotes, colons and white space are left out, since strspn skips *)
(* them.  A pointer into the text is the index of a lexeme; the NUL is     *)
(* behind the last one.  Handlers are the default ones, so that a failed   *)
(* allocation ends the process, and the scan's callback never fails.       *)
(* A word stands for what the program makes of it: the number that strtoul *)
(* reads, cut to 32 bits, or the hash.                                     *)
(***************************************************************************)
EXTENDS Naturals, Sequences, SequencesExt, FiniteSetsExt

CONSTANTS
  Templates,   \* what the file may hold
  HashWords    \* the words of BcHashStringSize characters or more

VARIABLES
  template,  \* the template in the file: pairs before the transactions, the
             \* pairs of each transaction, and the pairs behind them
  text,      \* blocktemplate_json_str
  tmp,       \* how far json_blocktemplate_tx_scan has come
  tx_arr,    \* the views: spans of data, txid and hash
  root,      \* merkle_root
  block,     \* what is printed
  pc         \* "load", "tag", "scan", "root", "fields" or an end

vars == <<template, text, tmp, tx_arr, root, block, pc>>

(* A pair is a key and the lexemes of its value. *)
APair == [key : STRING, val : Seq(STRING)]

ASSUME TemplatesAssumption ==
  Templates \subseteq [head : Seq(APair), txs : Seq(Seq(APair)), tail : Seq(APair)]

Lexemes(pairs) ==
  FlattenSeq([j \in 1..Len(pairs) |->
                <<pairs[j].key>> \o pairs[j].val \o <<",">>])

File(t) ==
  Lexemes(t.head) \o <<"transactions", "[">>
    \o FlattenSeq([j \in 1..Len(t.txs) |-> Lexemes(t.txs[j])])
    \o <<"]", ",">> \o Lexemes(t.tail)

Init ==
  /\ template \in Templates
  /\ text = <<>>
  /\ tmp = 0
  /\ tx_arr = <<>>
  /\ root = <<>>
  /\ block = <<>>
  /\ pc = "load"
-----------------------------------------------------------------------------
(* What fread may leave: the file, or less of it, which may end inside a   *)
(* word.                                                                   *)
Loaded ==
  {SubSeq(File(template), 1, n) : n \in 1..Len(File(template))}
    \cup {Append(SubSeq(File(template), 1, n), "cut") : n \in 0..(Len(File(template)) - 1)}

(* argc, fopen and the allocation may end the program here.  When nothing  *)
(* is read and errno is 0, the string is empty and has no NUL: what strstr *)
(* then finds, the program does not come far.  Of a file that cannot seek  *)
(* ftell gives -1: room is made for no byte, fread is asked for SIZE_MAX,  *)
(* and what it reads is written behind the room.                           *)
Load ==
  /\ pc = "load"
  /\ \/ text' \in Loaded /\ pc' = "tag"
     \/ text' = text /\ pc' \in {"failed", "aborted", "crashed", "undefined"}
  /\ UNCHANGED <<template, tmp, tx_arr, root, block>>

NoSpan == [beg |-> 0, end |-> 0]

(* The value of the tag at k: up to the next quote or comma. *)
Value(k) ==
  IF k < Len(text) /\ text[k + 1] # ","
    THEN [beg |-> k + 1, end |-> k + 2]
    ELSE [beg |-> k + 1, end |-> k + 1]

Places(p, tag) == {k \in p..Len(text) : text[k] = tag}

(* json_find_tag_value from p on: the first place that reads like the tag, *)
(* be it a key or not, in this transaction or not.                         *)
Find(p, tag) ==
  IF Places(p, tag) = {} THEN NoSpan ELSE Value(Min(Places(p, tag)))

Word(span) == IF span.beg < span.end THEN text[span.beg] ELSE ""

(* The beginning of json_blocktemplate_tx_scan. *)
FindTransactions ==
  /\ pc = "tag"
  /\ IF Places(1, "transactions") = {}
       THEN pc' = "failed" /\ tmp' = tmp
       ELSE pc' = "scan" /\ tmp' = Min(Places(1, "transactions")) + 1
  /\ UNCHANGED <<template, text, tx_arr, root, block>>

(* The spans are all looked for from the same place on. *)
View(p) == [data |-> Find(p, "data"), txid |-> Find(p, "txid"), hash |-> Find(p, "hash")]

Spans(view) == {view.data, view.txid, view.hash}

(* Mutant: on from the end of the data. *)
AfterData(view) == view.data.end

(* Mutant: the hash does not move the place. *)
AfterTxid(view) == Max({tmp, view.data.end, view.txid.end})

(* On from the end of the last of the spans. *)
After(view) == Max({tmp} \cup {s.end : s \in Spans(view)})

(* Mutant: `continue`. *)
MissingContinues == "scan"

(* `break`, when a tag is missing; that is no error. *)
Missing == "root"

(* One turn of the loop. *)
ScanTx ==
  /\ pc = "scan"
  /\ LET view == View(tmp)
     IN  IF tmp > Len(text) THEN pc' = "root" /\ UNCHANGED <<tmp, tx_arr>>
         ELSE IF NoSpan \in Spans(view) THEN pc' = Missing /\ UNCHANGED <<tmp, tx_arr>>
         ELSE /\ tx_arr' = Append(tx_arr, view)
              /\ tmp' = After(view)
              /\ pc' = pc
  /\ UNCHANGED <<template, text, root, block>>

(* A leaf of the tree is the hash of the view. *)
Leaf(view) == Word(view.hash)

(* Mutant: one too few. *)
LeavesShort == [j \in 1..(Len(tx_arr) - 1) |-> Leaf(tx_arr[j])]

Leaves == [j \in 1..Len(tx_arr) |-> Leaf(tx_arr[j])]

(* The leaves and the root, which stands for the sequence of the leaves    *)
(* (module MerkleRoot has the tree): a value that is too short fails an    *)
(* assertion, and an empty list leaves no root to read.                    *)
ReadRoot ==
  /\ pc = "root"
  /\ IF ~ ToSet(Leaves) \subseteq HashWords THEN pc' = "aborted" /\ root' = root
     ELSE IF Leaves = <<>> THEN pc' = "crashed" /\ root' = root
     ELSE pc' = "fields" /\ root' = Leaves
  /\ UNCHANGED <<template, text, tmp, tx_arr, block>>

(* json_find_target and its like *)
Field(tag) == Find(1, tag)

(* The header that is printed.  strtoul of a field that is missing reads   *)
(* from NULL; a hash that is missing or too short fails an assertion.      *)
ReadFields ==
  /\ pc = "fields"
  /\ IF NoSpan \in {Field("height"), Field("mintime"), Field("bits")}
       THEN pc' = "crashed" /\ block' = block
     ELSE IF ~ {Word(Field("target")), Word(Field("previousblockhash"))} \subseteq HashWords
       THEN pc' = "aborted" /\ block' = block
     ELSE /\ pc' = "done"
          /\ block' = [hash_prev_block |-> Word(Field("previousblockhash")),
                       hash_merkle_root |-> root,
                       timestamp |-> Word(Field("mintime")),
                       bits |-> Word(Field("bits"))]
  /\ UNCHANGED <<template, text, tmp, tx_arr, root>>

Ended == pc \in {"failed", "aborted", "crashed", "undefined", "done"} /\ UNCHANGED vars

Next == Load \/ FindTransactions \/ ScanTx \/ ReadRoot \/ ReadFields \/ Ended

Spec == Init /\ [][Next]_vars

(* One thread, whose calls return. *)
FairSpec == Spec /\ WF_vars(Next)
-----------------------------------------------------------------------------
(* Properties *)

Tags == {"data", "txid", "hash"}

(* The value of a key among pairs, and that there is one. *)
PairOf(pairs, key) == pairs[CHOOSE n \in 1..Len(pairs) : pairs[n].key = key]
ValueOf(pairs, key) == PairOf(pairs, key).val[1]

Valued(pairs, key) ==
  /\ key \in {pair.key : pair \in ToSet(pairs)}
  /\ PairOf(pairs, key).val # <<>> /\ ValueOf(pairs, key) # ","

(* A text in which the tags can only be the keys of the transactions: it   *)
(* is the whole file, each transaction has each of them once, in any order *)
(* and with a value, and what is behind the transactions has none.         *)
Regular ==
  /\ text = File(template)
  /\ \A pair \in ToSet(template.head) :
       "transactions" \notin {pair.key} \cup ToSet(pair.val)
  /\ \A tx \in ToSet(template.txs) : \A tag \in Tags :
       Cardinality({k \in 1..Len(Lexemes(tx)) : Lexemes(tx)[k] = tag}) = 1
         /\ Valued(tx, tag)
  /\ \A pair \in ToSet(template.tail) : Tags \cap ({pair.key} \cup ToSet(pair.val)) = {}

(* In a regular text the scan finds the transactions, each with its own    *)
(* data, txid and hash, in their order, although strstr knows nothing of   *)
(* the borders between them.                                               *)
ScanExact ==
  (pc \in {"root", "fields", "done"} /\ Regular) =>
    [j \in 1..Len(tx_arr) |->
       [tag \in Tags |-> Word(tx_arr[j][tag])]] =
    [j \in 1..Len(template.txs) |->
       [tag \in Tags |-> ValueOf(template.txs[j], tag)]]

(* In any text, whole or cut off, with tags missing, repeated or in other  *)
(* places, no piece of it is used by two views: all of a view is behind    *)
(* all of the one before it, and inside the text.                          *)
ViewsApart ==
  \A j, k \in 1..Len(tx_arr) :
    /\ \A s \in Spans(tx_arr[j]) : s.end <= Len(text) + 1
    /\ j < k => \A s \in Spans(tx_arr[j]), u \in Spans(tx_arr[k]) : s.end < u.beg

(* A field of the template whose name is nowhere else. *)
Named(tag) ==
  /\ Cardinality(Places(1, tag)) = 1
  /\ Valued(template.head \o template.tail, tag)

Given(tag) == ValueOf(template.head \o template.tail, tag)

(* The header is made of the template: its fields wherever they stand,     *)
(* before or behind the transactions; its root is that of the txids, as    *)
(* the format of blocks wants it, just when each hash is the txid.         *)
TemplateUsed ==
  (pc = "done" /\ Regular) =>
    /\ Named("previousblockhash") => block.hash_prev_block = Given("previousblockhash")
    /\ Named("mintime") => block.timestamp = Given("mintime")
    /\ Named("bits") => block.bits = Given("bits")
    /\ (block.hash_merkle_root =
          [j \in 1..Len(template.txs) |-> ValueOf(template.txs[j], "txid")])
         <=> \A tx \in ToSet(template.txs) : ValueOf(tx, "hash") = ValueOf(tx, "txid")

(* The scan comes to an end in every text: each view moves it on. *)
Ends == <>(pc \in {"failed", "aborted", "crashed", "undefined", "done"})

=============================================================================
