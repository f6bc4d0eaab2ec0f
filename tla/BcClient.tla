------------------------------ MODULE BcClient ------------------------------
(***************************************************************************)
(* The node client of src/apps/bcapp: main_client.c, its protocol layer    *)
(* bc_client.c and the socket wrapper tcp_client.c, with the peer it talks *)
(* to.                                                                     *)
(*                                                                         *)
(* The connection carries bytes.  Byte <<n, i>> is the i-th byte of the    *)
(* n-th message of the peer: a magic, the rest of the header, a payload.   *)
(* One recv may return fewer bytes than it was asked for, one send may     *)
(* take fewer than it was given.                                           *)
(***************************************************************************)
EXTENDS Naturals, Sequences, FiniteSets

CONSTANTS
  MagicBytes,   \* sizeof(hdr->magic): 4 in the code
  RestBytes,    \* the rest of the header: 20 in the code
  MaxFails,     \* the failures in a row that main tolerates: 10 in the code
  Kinds,        \* the kinds of messages that the peer sends
  Payload,      \* Payload[k]: the size of the payload of kind k
  MaxSent       \* bound: how many messages the peer sends

ASSUME SizeAssumption ==
  /\ MagicBytes \in Nat \ {0} /\ RestBytes \in Nat \ {0}
  /\ MaxFails \in Nat /\ MaxSent \in Nat
  /\ Payload \in [Kinds -> Nat]

(* "oldVersion" has a version below BcClient_ProtocolVersion, "corrupt" a   *)
(* wrong checksum, "other" a command that on_msg does not know; "ignored"   *)
(* stands for verack, sendcmpct and feefilter; "empty" for a version, inv   *)
(* or sendcmpct without the payload that on_msg reads of them.              *)
ASSUME KindsAssumption ==
  Kinds \subseteq {"version", "oldVersion", "ping", "inv", "ignored", "other",
                   "corrupt", "empty"}

VARIABLES
  ours,         \* the peer's messages have the magic cli->magic
  sent,         \* the kinds of the messages that the peer sent
  wire,         \* the bytes on their way to the client
  closed,       \* the peer has closed the connection
  pc,           \* where the client is
  sd,           \* cli->tcp.sd: "fd0" before connect, "open", or "none" (-1)
  ec,           \* cli->tcp.ec # 0
  status,       \* cli->status
  hdr,          \* the number of the message whose header was read last
  fails,        \* main's num_fails
  handled,      \* history: the messages that on_msg was called with
  out,          \* history: what the peer got from the client
  cut           \* history: a send took less than it was given, or failed

peer == <<ours, sent, closed>>
conn == <<sd, ec, status>>
history == <<handled, out, cut>>
vars == <<peer, wire, pc, conn, hdr, fails, history>>

Size(k) == MagicBytes + RestBytes + Payload[k]

Lesser(x, y) == IF x < y THEN x ELSE y

PCs == {"connect", "header", "payload", "loop", "rest", "data", "on_msg",
        "disconnect", "done", "killed"}

Init ==
  /\ ours \in BOOLEAN /\ sent = <<>> /\ closed = FALSE
  /\ wire = <<>>
  /\ pc = "connect"
  /\ sd = "fd0" /\ ec = FALSE /\ status = "Ok"
  /\ hdr = 0
  /\ fails = 0
  /\ handled = <<>> /\ out = <<>> /\ cut = FALSE
-----------------------------------------------------------------------------
(* The peer, and the network *)

PeerSends(k) ==
  /\ sd = "open" /\ ~closed /\ Len(sent) < MaxSent
  /\ sent' = Append(sent, k)
  /\ wire' = wire \o [i \in 1..Size(k) |-> <<Len(sent) + 1, i>>]
  /\ UNCHANGED <<ours, closed, pc, conn, hdr, fails, history>>

PeerCloses ==
  /\ sd = "open" /\ ~closed
  /\ closed' = TRUE
  /\ UNCHANGED <<ours, sent, wire, pc, conn, hdr, fails, history>>

(* nu_tcp_client_recv of n bytes returns k: some of what is there, 0 at    *)
(* the end of the stream, or 0 with tcp.ec set.                            *)
Recv(n, k) ==
  /\ \/ /\ k \in 1..Lesser(n, Len(wire))
        /\ wire' = SubSeq(wire, k + 1, Len(wire)) /\ ec' = ec
     \/ k = 0 /\ wire = <<>> /\ closed /\ UNCHANGED <<ec, wire>>
     \/ k = 0 /\ ec' = TRUE /\ wire' = wire
  /\ UNCHANGED <<peer, sd>>

(* nu_tcp_client_send of m, after which the client is at `to`, or at       *)
(* `failed` with tcp.ec set.  A short count is not looked at.  A peer that *)
(* is gone may also mean SIGPIPE: send gets no flags.                      *)
Send(m, to, failed) ==
  /\ \/ /\ pc' = to /\ ec' = FALSE
        /\ out' = IF cut THEN out ELSE Append(out, m)
        /\ cut' = cut
     \/ pc' = to /\ ec' = FALSE /\ cut' = TRUE /\ out' = out
     \/ pc' = failed /\ ec' = TRUE /\ cut' = TRUE /\ out' = out
     \/ closed /\ pc' = "killed" /\ cut' = TRUE /\ UNCHANGED <<ec, out>>
  /\ UNCHANGED <<peer, wire, sd, hdr>>
-----------------------------------------------------------------------------
(* bc_client_connect, bc_client_send_version and bc_client_disconnect *)

Connect ==
  /\ pc = "connect"
  /\ sd' = "open" /\ pc' = "header"
  /\ UNCHANGED <<peer, wire, ec, status, hdr, fails, history>>

(* getaddrinfo fails and leaves tcp.ec as it was, or connect fails. *)
ConnectFails ==
  /\ pc = "connect"
  /\ ec' \in BOOLEAN /\ status' = "TcpError" /\ pc' = "disconnect"
  /\ UNCHANGED <<peer, wire, sd, hdr, fails, history>>

SendVersion ==
  /\ \/ pc = "header" /\ Send("header", "payload", "disconnect")
     \/ pc = "payload" /\ Send("version", "loop", "disconnect")
  /\ status' = IF ec' THEN "TcpError" ELSE status
  /\ UNCHANGED <<fails, handled>>

Disconnect ==
  /\ pc = "disconnect"
  /\ sd' = "none" /\ pc' = "done"
  /\ UNCHANGED <<peer, wire, ec, status, hdr, fails, history>>
-----------------------------------------------------------------------------
(* The loop of main, around bc_client_next_message *)

(* Mutant: main goes on after a TcpError. *)
GivesUpOnCount(st, n) == n > MaxFails

GivesUp(st, n) == st = "TcpError" \/ n > MaxFails

(* bc_client_next_message returned an error, with cli->status = st. *)
Failed(st) ==
  /\ status' = st
  /\ fails' = IF st = "TcpError" THEN fails ELSE fails + 1
  /\ pc' = IF GivesUp(st, fails') THEN "disconnect" ELSE "loop"

(* `while (cli.tcp.ec == 0)` *)
LoopEnds ==
  /\ pc = "loop" /\ ec
  /\ pc' = "disconnect"
  /\ UNCHANGED <<peer, wire, conn, hdr, fails, history>>

(* memcmp(hdr->magic, cli->magic, M): the bytes are those of our magic. *)
MagicMatches(s) == ours /\ \A i \in 1..MagicBytes : s[i] = <<s[1][1], i>>

RecvMagic ==
  /\ pc = "loop" /\ ~ec
  /\ \E k \in 0..MagicBytes :
       /\ Recv(MagicBytes, k)
       /\ IF k # MagicBytes THEN Failed("TcpError")
          ELSE IF ~MagicMatches(wire) THEN Failed("MagicMismatch")
          ELSE pc' = "rest" /\ UNCHANGED <<status, fails>>
  /\ UNCHANGED <<hdr, history>>

(* Mutants: no payload is read; a byte more is read, for a NUL. *)
DataBytesNone(n) == 0
DataBytesWithNul(n) == Payload[sent[n]] + 1

(* hdr.size of message n *)
DataBytes(n) == Payload[sent[n]]

RecvRest ==
  /\ pc = "rest"
  /\ \E k \in 0..RestBytes :
       /\ Recv(RestBytes, k)
       /\ IF k # RestBytes
            THEN Failed("TcpError") /\ hdr' = hdr
            ELSE /\ hdr' = wire[1][1]
                 /\ pc' = IF DataBytes(hdr') > 0 THEN "data" ELSE "on_msg"
                 /\ UNCHANGED <<status, fails>>
  /\ UNCHANGED history

RecvData ==
  /\ pc = "data"
  /\ \E k \in 0..DataBytes(hdr) :
       /\ Recv(DataBytes(hdr), k)
       /\ IF k # DataBytes(hdr) THEN Failed("TcpError")
          ELSE pc' = "on_msg" /\ UNCHANGED <<status, fails>>
  /\ UNCHANGED <<hdr, history>>

(* `nu_expect(size > 0 && data != NULL)` is true of an inv message with a  *)
(* payload, and then on_inv returns 1.                                     *)
on_inv == 1

(* Mutant: an old version is acknowledged as well. *)
ReplyToAny(k) == CASE k \in {"version", "oldVersion"} -> "verack"
                   [] k = "ping" -> "pong"
                   [] OTHER -> "none"

Reply(k) == CASE k = "version" -> "verack"
              [] k = "ping" -> "pong"
              [] OTHER -> "none"

Result(k) == CASE k \in {"corrupt", "other"} -> 1
               [] k = "inv" -> on_inv
               [] OTHER -> 0

(* on_msg, and what main makes of its result.  The results of the sends    *)
(* are dropped: an error shows in tcp.ec when the loop comes round.  A     *)
(* payload that is not there is read through NULL, or not expected.        *)
OnMsg ==
  /\ pc = "on_msg"
  /\ handled' = Append(handled, hdr)
  /\ LET k == sent[hdr]
     IN  \/ /\ k = "empty"
            /\ pc' = "killed"
            /\ UNCHANGED <<peer, wire, conn, hdr, fails, out, cut>>
         \/ /\ Reply(k) # "none"
            /\ Send(Reply(k), "loop", "loop")
            /\ fails' = 0 /\ status' = status
         \/ /\ k # "empty" /\ Reply(k) = "none"
            /\ IF Result(k) = 0
                 THEN pc' = "loop" /\ fails' = 0 /\ status' = status
                 ELSE Failed(status)
            /\ UNCHANGED <<peer, wire, sd, ec, hdr, out, cut>>

Client ==
  \/ Connect \/ ConnectFails \/ SendVersion \/ Disconnect
  \/ LoopEnds \/ RecvMagic \/ RecvRest \/ RecvData \/ OnMsg

Ended == pc \in {"done", "killed"} /\ UNCHANGED vars

Next ==
  \/ Client
  \/ \E k \in Kinds : PeerSends(k)
  \/ PeerCloses
  \/ Ended

Spec == Init /\ [][Next]_vars

(* The client's thread goes on whenever its call can return without an     *)
(* error.  Errors need not happen, and the peer may stay silent and keep   *)
(* the client waiting.                                                     *)
FairSpec == Spec /\ WF_vars(Client /\ ec' = ec)
-----------------------------------------------------------------------------
(* Properties *)

(* Every variable has its type. *)
TypeOK ==
  /\ ours \in BOOLEAN /\ closed \in BOOLEAN /\ ec \in BOOLEAN /\ cut \in BOOLEAN
  /\ sent \in Seq(Kinds) /\ Len(sent) <= MaxSent
  /\ wire \in Seq((1..MaxSent) \X (Nat \ {0}))
  /\ pc \in PCs
  /\ sd \in {"fd0", "open", "none"}
  /\ status \in {"Ok", "MagicMismatch", "TcpError"}
  /\ hdr \in 0..Len(sent)
  /\ fails \in 0..(MaxFails + 1)
  /\ handled \in Seq(1..Len(sent))
  /\ out \in Seq({"header", "version", "verack", "pong"})

(* The client knows where messages begin: with a peer of its own network   *)
(* each step of reading starts at the byte it is meant for.  Short reads   *)
(* break this, so none may be followed by another read.                    *)
(* (bc_client.c:110, 121, 142 and main_client.c:170-172.)                  *)
InStep ==
  ours /\ wire # <<>> =>
    /\ pc = "loop" => wire[1][2] = 1
    /\ pc = "rest" => wire[1][2] = MagicBytes + 1
    /\ pc = "data" => wire[1] = <<hdr, MagicBytes + RestBytes + 1>>

(* on_msg sees the peer's messages in their order, each of them once,      *)
(* although the loop drops a message in every error path; and none at all  *)
(* of a peer of another network.                                           *)
HandledInOrder ==
  /\ \A i \in DOMAIN handled : handled[i] = i
  /\ handled # <<>> => ours

(* The handled messages that are to be answered, of the first n.           *)
Due(n) == {i \in 1..n : sent[handled[i]] \in {"version", "ping"}}

(* Until a send is cut, the peer sees version first, then one verack for   *)
(* each acceptable version it sent, one pong for each ping, in the order   *)
(* of its messages and nothing else.                                       *)
Spoken ==
  ~cut /\ pc \in {"loop", "rest", "data", "on_msg"} =>
    /\ Len(out) = 2 + Cardinality(Due(Len(handled)))
    /\ out[1] = "header" /\ out[2] = "version"
    /\ \A n \in Due(Len(handled)) :
         out[2 + Cardinality(Due(n))] =
           (IF sent[handled[n]] = "ping" THEN "pong" ELSE "verack")

(* After a short read the client reads, handles and answers nothing more:  *)
(* it does not know where the next message begins.                         *)
TcpErrorIsFinal ==
  [][status = "TcpError" =>
       UNCHANGED <<handled, out>> /\ Len(wire') >= Len(wire)]_vars

(* A client whose peer has gone, or whose connection has failed, does not  *)
(* wait or spin for ever.                                                  *)
Ends == (closed \/ ec \/ status = "TcpError") ~> pc \in {"done", "killed"}

(* Every message that a peer of the same network sent is handled, unless   *)
(* the client ends.                                                        *)
AllHandled ==
  \A n \in 1..MaxSent :
    ours /\ n <= Len(sent) ~>
      n \in {handled[i] : i \in DOMAIN handled} \/ pc \in {"done", "killed"}

(* Only messages that are wrong or unknown make the client give up on its  *)
(* peer: on_inv states that an inv message with data is what it expects    *)
(* (main_client.c:113), and on_msg returns its result.                     *)
InvAccepted ==
  fails > MaxFails /\ ours =>
    \E i \in DOMAIN handled : sent[handled[i]] \in {"corrupt", "other"}

=============================================================================
