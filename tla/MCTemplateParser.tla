-------------------------- MODULE MCTemplateParser --------------------------
(* A finite instance of TemplateParser. *)
EXTENDS TemplateParser

MCHashWords == {"id1", "id2", "wid2", "prev", "target1", "id0"}

P(key, word) == [key |-> key, val |-> <<word>>]

Prev == P("previousblockhash", "prev")
Fields == <<P("target", "target1"), P("mintime", "now"), P("bits", "1d"), P("height", "7")>>
Mutable == [key |-> "mutable", val |-> <<"[", "time", ",", "transactions", "]">>]

(* The pairs of a transaction of its own kind, as in coinbasetxn. *)
Coinbasetxn == <<P("data", "d0"), P("txid", "id0"), P("hash", "id0")>>

(* The same transaction twice over: txid and hash, in two orders; one with *)
(* a witness; one with tags missing; one with a tag as a value.            *)
Tx1 == <<P("data", "d1"), P("txid", "id1"), P("hash", "id1"), P("fee", "1")>>
Tx1Reversed == <<P("hash", "id1"), P("depends", "["), P("txid", "id1"), P("data", "d1")>>
Tx2 == <<P("data", "d2"), P("txid", "id2"), P("hash", "wid2")>>
NoTxid == <<P("data", "d2"), P("hash", "wid2")>>
OwnTag == <<P("data", "hash"), P("txid", "id2"), P("hash", "wid2")>>

MCTemplate(head, txs, tail) == [head |-> head, txs |-> txs, tail |-> tail]

MCTemplates ==
  {MCTemplate(<<Prev>>, txs, Fields \o <<Mutable>>) :
     txs \in {<<>>, <<Tx1>>, <<Tx1, Tx2>>, <<Tx1, Tx1Reversed>>, <<Tx1Reversed, Tx2, Tx1>>, <<Tx2, Tx1Reversed>>,
              <<Tx1, NoTxid, Tx2>>, <<NoTxid, Tx1>>, <<OwnTag, Tx1>>}}
    \cup {MCTemplate(<<Prev>> \o Coinbasetxn \o Fields, <<Tx1, Tx2>>, <<Mutable>>),
          MCTemplate(<<Prev, Mutable>> \o Fields, <<Tx2>>, <<>>),
          MCTemplate(<<Mutable>> \o Coinbasetxn, <<Tx1, Tx1>>, Fields \o <<Prev>>),
          MCTemplate(Fields, <<Tx1, Tx1>>, Coinbasetxn \o <<Prev>>),
          MCTemplate(<<Prev>>, <<Tx1>>, Fields \o <<P("longpollid", "bits")>>)}

=============================================================================
