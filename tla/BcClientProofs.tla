--------------------------- MODULE BcClientProofs ---------------------------
(***************************************************************************)
(* Proofs about BcClient, for messages of any size and a peer that sends   *)
(* any number of them.                                                     *)
(***************************************************************************)
EXTENDS BcClient, FiniteSetTheorems, SequenceTheorems, TLAPS

Pairs == Nat \X Nat

(* The bytes of w are the end of a stream of the messages s: after a byte  *)
(* come the others of its message, and then the first of the next one.     *)
Stream(w, s) ==
  \A j \in 1..Len(w) :
    /\ w[j][1] \in 1..Len(s) /\ w[j][2] \in 1..Size(s[w[j][1]])
    /\ \A m \in w[j][2]..Size(s[w[j][1]]) :
         /\ j + (m - w[j][2]) <= Len(w)
         /\ w[j + (m - w[j][2])] = <<w[j][1], m>>
    /\ w[j][2] = Size(s[w[j][1]]) =>
         IF j = Len(w) THEN w[j][1] = Len(s) ELSE w[j + 1] = <<w[j][1] + 1, 1>>

(* The next byte of w is, or will be, byte i of message n.                 *)
Place(w, s, n, i) ==
  IF w = <<>> THEN n = Len(s) + 1 /\ i = 1 ELSE w[1] = <<n, i>>

LEMMA Fields ==
  ASSUME NEW a, NEW b, NEW p, p = <<a, b>>
  PROVE  p[1] = a /\ p[2] = b
  OBVIOUS

LEMMA NotEmpty ==
  ASSUME NEW S, NEW w \in Seq(S)
  PROVE  w # <<>> <=> 1 \in 1..Len(w)
  BY EmptySeq

LEMMA SizeNat ==
  ASSUME NEW k \in Kinds
  PROVE  /\ Payload[k] \in Nat /\ Size(k) \in Nat
         /\ Size(k) = MagicBytes + RestBytes + Payload[k]
         /\ MagicBytes \in Nat /\ RestBytes \in Nat
         /\ MagicBytes > 0 /\ RestBytes > 0 /\ Size(k) > 1
  BY SizeAssumption DEF Size

(* Bytes that are taken from the front leave a stream.                     *)
LEMMA SuffixStream ==
  ASSUME NEW w \in Seq(Pairs), NEW s \in Seq(Kinds), Stream(w, s),
         NEW k \in 1..Len(w)
  PROVE  /\ SubSeq(w, k + 1, Len(w)) \in Seq(Pairs)
         /\ Len(SubSeq(w, k + 1, Len(w))) = Len(w) - k
         /\ \A j \in 1..(Len(w) - k) : SubSeq(w, k + 1, Len(w))[j] = w[j + k]
         /\ Stream(SubSeq(w, k + 1, Len(w)), s)
  <1> DEFINE v == SubSeq(w, k + 1, Len(w))
  <1>1. v \in Seq(Pairs) /\ Len(v) = Len(w) - k
    OBVIOUS
  <1>2. \A j \in 1..(Len(w) - k) : v[j] = w[j + k]
    OBVIOUS
  <1> HIDE DEF v
  <1>3. Stream(v, s)
    <2> SUFFICES ASSUME NEW j \in 1..Len(v)
                 PROVE  /\ v[j][1] \in 1..Len(s) /\ v[j][2] \in 1..Size(s[v[j][1]])
                        /\ \A m \in v[j][2]..Size(s[v[j][1]]) :
                             /\ j + (m - v[j][2]) <= Len(v)
                             /\ v[j + (m - v[j][2])] = <<v[j][1], m>>
                        /\ v[j][2] = Size(s[v[j][1]]) =>
                             IF j = Len(v) THEN v[j][1] = Len(s)
                             ELSE v[j + 1] = <<v[j][1] + 1, 1>>
      BY DEF Stream
    <2>1. j + k \in 1..Len(w) /\ v[j] = w[j + k] /\ w[j + k] \in Pairs
      BY <1>1, <1>2
    <2>2. /\ v[j][1] \in 1..Len(s) /\ v[j][2] \in 1..Size(s[v[j][1]])
          /\ \A m \in v[j][2]..Size(s[v[j][1]]) :
               /\ j + k + (m - v[j][2]) <= Len(w)
               /\ w[j + k + (m - v[j][2])] = <<v[j][1], m>>
          /\ v[j][2] = Size(s[v[j][1]]) =>
               IF j + k = Len(w) THEN v[j][1] = Len(s)
               ELSE w[j + k + 1] = <<v[j][1] + 1, 1>>
      BY <2>1 DEF Stream
    <2>3. v[j][2] \in Nat
      BY <2>1 DEF Pairs
    <2>4. ASSUME NEW m \in v[j][2]..Size(s[v[j][1]])
          PROVE  /\ j + (m - v[j][2]) <= Len(v)
                 /\ v[j + (m - v[j][2])] = <<v[j][1], m>>
      <3>1. Size(s[v[j][1]]) \in Nat
        <4>1. s[v[j][1]] \in Kinds
          BY <2>2
        <4> QED
          BY <4>1, SizeNat
      <3>2. m \in Nat /\ m - v[j][2] \in Nat
        BY <2>3, <3>1
      <3>3. j + k + (m - v[j][2]) <= Len(w)
        BY <2>2
      <3>4. j + (m - v[j][2]) \in 1..(Len(w) - k)
        BY <3>2, <3>3
      <3>5. v[j + (m - v[j][2])] = w[j + (m - v[j][2]) + k]
        BY <1>2, <3>4
      <3>6. j + (m - v[j][2]) + k = j + k + (m - v[j][2])
        BY <3>2
      <3>7. w[j + k + (m - v[j][2])] = <<v[j][1], m>>
        BY <2>2
      <3>8. v[j + (m - v[j][2])] = <<v[j][1], m>>
        BY <3>5, <3>6, <3>7
      <3> QED
        BY <1>1, <3>4, <3>8
    <2>5. v[j][2] = Size(s[v[j][1]]) =>
            IF j = Len(v) THEN v[j][1] = Len(s) ELSE v[j + 1] = <<v[j][1] + 1, 1>>
      <3>1. CASE j = Len(v)
        BY <1>1, <2>2, <3>1
      <3>2. CASE j # Len(v)
        <4>1. j + 1 \in 1..(Len(w) - k)
          BY <1>1, <3>2
        <4>2. v[j + 1] = w[j + k + 1]
          BY <1>2, <4>1
        <4> QED
          BY <1>1, <2>2, <3>2, <4>2
      <3> QED
        BY <3>1, <3>2
    <2> QED
      BY <2>2, <2>4, <2>5
  <1> QED
    BY <1>1, <1>2, <1>3 DEF v

(* A message that is put behind a stream makes it a stream with that       *)
(* message.                                                                *)
LEMMA AppendStream ==
  ASSUME NEW w \in Seq(Pairs), NEW s \in Seq(Kinds), Stream(w, s), NEW k \in Kinds
  PROVE  LET v == w \o [i \in 1..Size(k) |-> <<Len(s) + 1, i>>]
         IN  v \in Seq(Pairs) /\ Stream(v, Append(s, k))
  <1> DEFINE t == Append(s, k)
             b == [i \in 1..Size(k) |-> <<Len(s) + 1, i>>]
             v == w \o b
  <1>1. Size(k) \in Nat /\ Size(k) > 1
    BY SizeNat
  <1>2. b \in Seq(Pairs) /\ Len(b) = Size(k)
    <2>1. \A i \in 1..Size(k) : <<Len(s) + 1, i>> \in Pairs
      BY <1>1 DEF Pairs
    <2>2. b \in Seq(Pairs)
      BY <1>1, <2>1, IsASeq
    <2> QED
      BY <1>1, <2>2
  <1>3. \A i \in 1..Size(k) : b[i] = <<Len(s) + 1, i>>
    OBVIOUS
  <1>4. t \in Seq(Kinds) /\ Len(t) = Len(s) + 1 /\ t[Len(s) + 1] = k
    OBVIOUS
  <1>5. \A n \in 1..Len(s) : t[n] = s[n]
    OBVIOUS
  <1>6. v = w \o b
    OBVIOUS
  <1> HIDE DEF b, t, v
  <1>7. v \in Seq(Pairs) /\ Len(v) = Len(w) + Size(k)
    BY <1>1, <1>2, <1>6, ConcatProperties
  <1>8. \A j \in 1..Len(w) : v[j] = w[j]
    BY <1>2, <1>6
  <1>9. \A i \in 1..Size(k) : v[Len(w) + i] = <<Len(s) + 1, i>>
    BY <1>1, <1>2, <1>3, <1>6
  <1>10. ASSUME NEW j \in 1..Len(w)
         PROVE  /\ v[j][1] \in 1..Len(t) /\ v[j][2] \in 1..Size(t[v[j][1]])
                /\ \A m \in v[j][2]..Size(t[v[j][1]]) :
                     /\ j + (m - v[j][2]) <= Len(v)
                     /\ v[j + (m - v[j][2])] = <<v[j][1], m>>
                /\ v[j][2] = Size(t[v[j][1]]) =>
                     IF j = Len(v) THEN v[j][1] = Len(t)
                     ELSE v[j + 1] = <<v[j][1] + 1, 1>>
    <2>1. v[j] = w[j] /\ w[j] \in Pairs
      BY <1>8
    <2>2. /\ v[j][1] \in 1..Len(s) /\ v[j][2] \in 1..Size(s[v[j][1]])
          /\ \A m \in v[j][2]..Size(s[v[j][1]]) :
               /\ j + (m - v[j][2]) <= Len(w)
               /\ w[j + (m - v[j][2])] = <<v[j][1], m>>
          /\ v[j][2] = Size(s[v[j][1]]) =>
               IF j = Len(w) THEN v[j][1] = Len(s)
               ELSE w[j + 1] = <<v[j][1] + 1, 1>>
      BY <2>1 DEF Stream
    <2>3. t[v[j][1]] = s[v[j][1]]
      BY <1>5, <2>2
    <2>4. v[j][2] \in Nat /\ Size(s[v[j][1]]) \in Nat
      <3>1. s[v[j][1]] \in Kinds
        BY <2>2
      <3>2. v[j][2] \in Nat
        BY <2>1 DEF Pairs
      <3> QED
        BY <3>1, <3>2, SizeNat
    <2>5. ASSUME NEW m \in v[j][2]..Size(t[v[j][1]])
          PROVE  /\ j + (m - v[j][2]) <= Len(v)
                 /\ v[j + (m - v[j][2])] = <<v[j][1], m>>
      <3>1. m \in Nat /\ m - v[j][2] \in Nat
        BY <2>3, <2>4
      <3>2. j + (m - v[j][2]) <= Len(w) /\ w[j + (m - v[j][2])] = <<v[j][1], m>>
        BY <2>2, <2>3
      <3>3. j + (m - v[j][2]) \in 1..Len(w)
        BY <3>1, <3>2
      <3> QED
        BY <1>1, <1>7, <1>8, <3>2, <3>3
    <2>6. v[j][2] = Size(t[v[j][1]]) =>
            IF j = Len(v) THEN v[j][1] = Len(t) ELSE v[j + 1] = <<v[j][1] + 1, 1>>
      <3>1. j # Len(v)
        BY <1>1, <1>7
      <3>2. CASE j = Len(w)
        <4>1. v[j + 1] = <<Len(s) + 1, 1>>
          BY <1>1, <1>9, <3>2
        <4> QED
          BY <2>2, <2>3, <3>1, <3>2, <4>1
      <3>3. CASE j # Len(w)
        <4>1. v[j + 1] = w[j + 1]
          BY <1>8, <3>3
        <4> QED
          BY <2>2, <2>3, <3>1, <3>3, <4>1
      <3> QED
        BY <3>2, <3>3
    <2>7. v[j][1] \in 1..Len(t)
      BY <1>4, <2>2
    <2> QED
      BY <2>2, <2>3, <2>5, <2>6, <2>7
  <1>11. ASSUME NEW i \in 1..Size(k), NEW j, j = Len(w) + i
         PROVE  /\ v[j][1] \in 1..Len(t) /\ v[j][2] \in 1..Size(t[v[j][1]])
                /\ \A m \in v[j][2]..Size(t[v[j][1]]) :
                     /\ j + (m - v[j][2]) <= Len(v)
                     /\ v[j + (m - v[j][2])] = <<v[j][1], m>>
                /\ v[j][2] = Size(t[v[j][1]]) =>
                     IF j = Len(v) THEN v[j][1] = Len(t)
                     ELSE v[j + 1] = <<v[j][1] + 1, 1>>
    <2>1. v[j][1] = Len(s) + 1 /\ v[j][2] = i
      <3> DEFINE n == Len(s) + 1
      <3>1. v[j] = <<n, i>>
        BY <1>9, <1>11
      <3> HIDE DEF n
      <3>2. v[j][1] = n /\ v[j][2] = i
        BY <3>1, Fields
      <3> QED
        BY <3>2 DEF n
    <2>2. t[v[j][1]] = k
      BY <1>4, <2>1
    <2>3. ASSUME NEW m \in i..Size(k)
          PROVE  j + (m - i) <= Len(v) /\ v[j + (m - i)] = <<Len(s) + 1, m>>
      <3>1. m \in 1..Size(k) /\ j + (m - i) = Len(w) + m
        BY <1>1, <1>11
      <3> QED
        BY <1>1, <1>7, <1>9, <3>1
    <2>4. i = Size(k) => j = Len(v)
      BY <1>7, <1>11
    <2>5. v[j][1] \in 1..Len(t) /\ v[j][2] \in 1..Size(k) /\ v[j][1] = Len(t)
      BY <1>1, <1>4, <2>1
    <2> QED
      BY <2>1, <2>2, <2>3, <2>4, <2>5
  <1>12. \A j \in 1..Len(v) : j \in 1..Len(w) \/ \E i \in 1..Size(k) : j = Len(w) + i
    <2> TAKE j \in 1..Len(v)
    <2>1. CASE j <= Len(w)
      BY <2>1
    <2>2. CASE ~(j <= Len(w))
      <3>1. j - Len(w) \in 1..Size(k) /\ j = Len(w) + (j - Len(w))
        BY <1>1, <1>7, <2>2
      <3> QED
        BY <3>1
    <2> QED
      BY <2>1, <2>2
  <1>13. Stream(v, t)
    <2> SUFFICES ASSUME NEW j \in 1..Len(v)
                 PROVE  /\ v[j][1] \in 1..Len(t) /\ v[j][2] \in 1..Size(t[v[j][1]])
                        /\ \A m \in v[j][2]..Size(t[v[j][1]]) :
                             /\ j + (m - v[j][2]) <= Len(v)
                             /\ v[j + (m - v[j][2])] = <<v[j][1], m>>
                        /\ v[j][2] = Size(t[v[j][1]]) =>
                             IF j = Len(v) THEN v[j][1] = Len(t)
                             ELSE v[j + 1] = <<v[j][1] + 1, 1>>
      BY DEF Stream
    <2>1. CASE j \in 1..Len(w)
      BY <1>10, <2>1
    <2>2. CASE \E i \in 1..Size(k) : j = Len(w) + i
      BY <1>11, <2>2
    <2> QED
      BY <1>12, <2>1, <2>2
  <1> QED
    BY <1>7, <1>13 DEF t, v, b

(* k bytes of one message, taken from the front, leave the next byte of    *)
(* that message there, or the first one of the next message.               *)
LEMMA ReadOn ==
  ASSUME NEW w \in Seq(Pairs), NEW s \in Seq(Kinds), Stream(w, s),
         NEW n \in Nat, NEW i \in Nat, w # <<>>, w[1] = <<n, i>>,
         NEW k \in 1..Len(w), i + k <= Size(s[n]) + 1
  PROVE  LET v == SubSeq(w, k + 1, Len(w))
         IN  /\ n \in 1..Len(s)
             /\ \A m \in 1..k : w[m] = <<n, i + (m - 1)>>
             /\ i + k <= Size(s[n]) => v # <<>> /\ Place(v, s, n, i + k)
             /\ i + k = Size(s[n]) + 1 => Place(v, s, n + 1, 1)
  <1> DEFINE v == SubSeq(w, k + 1, Len(w))
  <1>1. /\ Len(v) = Len(w) - k /\ v \in Seq(Pairs)
        /\ \A j \in 1..(Len(w) - k) : v[j] = w[j + k]
    BY SuffixStream
  <1> HIDE DEF v
  <1>2. 1 \in 1..Len(w) /\ w[1][1] = n /\ w[1][2] = i
    OBVIOUS
  <1>3. /\ n \in 1..Len(s) /\ i \in 1..Size(s[n])
        /\ \A m \in i..Size(s[n]) : 1 + (m - i) <= Len(w) /\ w[1 + (m - i)] = <<n, m>>
    BY <1>2 DEF Stream
  <1>4. Size(s[n]) \in Nat
    BY <1>3, SizeNat
  <1>5. ASSUME NEW m \in 1..(k + 1), i + (m - 1) <= Size(s[n])
        PROVE  m <= Len(w) /\ w[m] = <<n, i + (m - 1)>>
    <2>1. i + (m - 1) \in i..Size(s[n]) /\ 1 + (i + (m - 1) - i) = m
      BY <1>4, <1>5
    <2> QED
      BY <1>3, <2>1
  <1>6. \A m \in 1..k : w[m] = <<n, i + (m - 1)>>
    <2> TAKE m \in 1..k
    <2>1. m \in 1..(k + 1) /\ i + (m - 1) <= Size(s[n])
      BY <1>4
    <2> QED
      BY <1>5, <2>1
  <1>7. ASSUME i + k <= Size(s[n])
        PROVE  v # <<>> /\ Place(v, s, n, i + k)
    <2>1. k + 1 \in 1..(k + 1) /\ i + ((k + 1) - 1) = i + k
      OBVIOUS
    <2>2. k + 1 <= Len(w) /\ w[k + 1] = <<n, i + k>>
      BY <1>5, <1>7, <2>1
    <2>3. 1 \in 1..(Len(w) - k) /\ v[1] = w[1 + k] /\ 1 + k = k + 1
      BY <1>1, <2>2
    <2>4. v # <<>>
      BY <1>1, <2>3, NotEmpty
    <2>5. v[1] = <<n, i + k>>
      BY <2>2, <2>3
    <2> QED
      BY <2>4, <2>5 DEF Place
  <1>8. ASSUME i + k = Size(s[n]) + 1
        PROVE  Place(v, s, n + 1, 1)
    <2>1. w[k] = <<n, i + (k - 1)>> /\ i + (k - 1) = Size(s[n])
      BY <1>4, <1>6, <1>8
    <2>2. IF k = Len(w) THEN n = Len(s) ELSE w[k + 1] = <<n + 1, 1>>
      <3>1. w[k][1] = n /\ w[k][2] = Size(s[n])
        BY <2>1
      <3> QED
        BY <3>1 DEF Stream
    <2>3. ASSUME k = Len(w)
          PROVE  Place(v, s, n + 1, 1)
      <3>1. v = <<>>
        BY <1>1, <2>3, EmptySeq
      <3> QED
        BY <2>2, <2>3, <3>1 DEF Place
    <2>4. ASSUME k # Len(w)
          PROVE  Place(v, s, n + 1, 1)
      <3>1. 1 \in 1..(Len(w) - k)
        BY <2>4
      <3>2. v[1] = w[1 + k] /\ 1 + k = k + 1
        BY <1>1, <3>1
      <3>3. v # <<>>
        BY <1>1, <3>1, NotEmpty
      <3>4. v[1] = <<n + 1, 1>>
        BY <2>2, <2>4, <3>2
      <3> QED
        BY <3>3, <3>4 DEF Place
    <2> QED
      BY <2>3, <2>4
  <1> QED
    BY <1>3, <1>6, <1>7, <1>8 DEF v
-----------------------------------------------------------------------------
(* The inductive invariant *)

At(n, i) == Place(wire, sent, n, i)
Next1 == Len(handled) + 1
Stopped == {"disconnect", "done", "killed"}

(* Where the client is in the stream: at the first byte of the message     *)
(* after those it has handled, or that far into it as it has read.         *)
PlaceInv ==
  /\ pc \in {"connect", "header", "payload"} => handled = <<>>
  /\ pc = "connect" => sent = <<>> /\ wire = <<>> /\ sd = "fd0"
  /\ pc \in {"rest", "data", "on_msg"} => ours
  /\ pc \in {"data", "on_msg"} => hdr = Next1
  /\ ours /\ pc \in {"connect", "header", "payload", "loop"} => At(Next1, 1)
  /\ pc = "rest" => At(Next1, MagicBytes + 1)
  /\ pc = "data" => DataBytes(hdr) > 0 /\ At(hdr, MagicBytes + RestBytes + 1)
  /\ pc = "on_msg" => hdr \in 1..Len(sent) /\ At(hdr + 1, 1)

(* A short read, or failures in a row, end the loop at once.               *)
StopInv ==
  /\ status = "TcpError" => pc \in Stopped
  /\ fails > MaxFails => pc \in Stopped

(* What the peer has got before the loop.                                  *)
OutInv ==
  ~cut => /\ pc \in {"connect", "header"} => Len(out) = 0
          /\ pc = "payload" => Len(out) = 1 /\ out[1] = "header"

ReadInv == TypeOK /\ Stream(wire, sent) /\ PlaceInv /\ StopInv /\ HandledInOrder

Inv == ReadInv /\ OutInv /\ Spoken

Bytes == (1..MaxSent) \X (Nat \ {0})

LEMMA TypeFacts ==
  ASSUME TypeOK
  PROVE  /\ wire \in Seq(Pairs) /\ Len(wire) \in Nat /\ Len(sent) \in Nat
         /\ Len(handled) \in Nat /\ sent \in Seq(Kinds)
         /\ MagicBytes \in Nat \ {0} /\ RestBytes \in Nat \ {0}
         /\ MaxFails \in Nat /\ MaxSent \in Nat
  <1>1. wire \in Seq(Bytes) /\ Bytes \subseteq Pairs
    BY SizeAssumption DEF TypeOK, Bytes, Pairs
  <1>2. wire \in Seq(Pairs)
    BY <1>1, SeqMonotonic
  <1>3. sent \in Seq(Kinds) /\ handled \in Seq(1..Len(sent))
    BY DEF TypeOK
  <1> QED
    BY <1>2, <1>3, SizeAssumption

(* What recv may do: it takes bytes from the front, as many as it was      *)
(* asked for, or fewer.                                                    *)
LEMMA RecvFacts ==
  ASSUME TypeOK, Stream(wire, sent), NEW n \in Nat, NEW k \in 0..n, n > 0, Recv(n, k)
  PROVE  /\ wire' \in Seq(Bytes) /\ ec' \in BOOLEAN
         /\ Stream(wire', sent') /\ UNCHANGED <<ours, sent, closed, sd>>
         /\ k = n => /\ k \in 1..Len(wire) /\ wire # <<>> /\ ec' = ec
                     /\ wire' = SubSeq(wire, k + 1, Len(wire))
  <1>1. wire \in Seq(Bytes) /\ ec \in BOOLEAN
    BY DEF TypeOK, Bytes
  <1>2. UNCHANGED <<ours, sent, closed, sd>>
    BY DEF Recv, peer
  <1>3. CASE k \in 1..Lesser(n, Len(wire)) /\ wire' = SubSeq(wire, k + 1, Len(wire)) /\ ec' = ec
    <2>1. k \in 1..Len(wire)
      BY <1>3, TypeFacts DEF Lesser
    <2>2. Stream(wire', sent)
      BY <1>3, <2>1, TypeFacts, SuffixStream
    <2>3. wire' \in Seq(Bytes)
      BY <1>1, <1>3, <2>1, TypeFacts
    <2>4. wire # <<>>
      BY <2>1, TypeFacts, EmptySeq
    <2> QED
      BY <1>1, <1>2, <1>3, <2>1, <2>2, <2>3, <2>4
  <1>4. CASE k = 0 /\ wire' = wire /\ ec' \in BOOLEAN
    BY <1>1, <1>2, <1>4
  <1> QED
    BY <1>1, <1>3, <1>4 DEF Recv

LEMMA FailedFacts ==
  ASSUME TypeOK, NEW st \in {"Ok", "MagicMismatch", "TcpError"},
         fails <= MaxFails, Failed(st)
  PROVE  /\ status' = st /\ fails' \in 0..(MaxFails + 1)
         /\ pc' \in {"disconnect", "loop"}
         /\ st = "TcpError" \/ fails' > MaxFails => pc' = "disconnect"
  BY SizeAssumption DEF Failed, GivesUp, TypeOK

(* Reading changes nothing that was said.                                  *)
LEMMA SpokenStays ==
  ASSUME Spoken, OutInv, pc \in {"loop", "rest", "data", "on_msg"},
         UNCHANGED <<sent, handled, out, cut>>,
         pc' \in {"loop", "rest", "data", "on_msg"} \cup Stopped
  PROVE  OutInv' /\ Spoken'
  BY DEF Spoken, Due, OutInv, Stopped

LEMMA InitInv == Init => Inv
  <1> SUFFICES ASSUME Init
               PROVE  Inv
    OBVIOUS
  <1>1. /\ sent = <<>> /\ wire = <<>> /\ handled = <<>> /\ out = <<>>
        /\ Len(sent) = 0 /\ Len(handled) = 0 /\ Len(wire) = 0
    BY DEF Init
  <1>2. TypeOK
    <2>1. /\ sent \in Seq(Kinds) /\ wire \in Seq((1..MaxSent) \X (Nat \ {0}))
          /\ handled \in Seq(1..Len(sent))
          /\ out \in Seq({"header", "version", "verack", "pong"})
      BY <1>1, EmptySeq
    <2>2. Len(sent) <= MaxSent /\ hdr \in 0..Len(sent) /\ fails \in 0..(MaxFails + 1)
      BY <1>1, SizeAssumption DEF Init
    <2> QED
      BY <2>1, <2>2 DEF Init, TypeOK, PCs
  <1>3. Stream(wire, sent)
    BY <1>1 DEF Stream
  <1>4. At(Next1, 1)
    BY <1>1 DEF At, Place, Next1
  <1>5. PlaceInv
    BY <1>1, <1>4 DEF Init, PlaceInv
  <1>6. StopInv /\ HandledInOrder /\ OutInv /\ Spoken
    BY <1>1, SizeAssumption DEF Init, StopInv, HandledInOrder, OutInv, Spoken
  <1> QED
    BY <1>2, <1>3, <1>5, <1>6 DEF Inv, ReadInv
-----------------------------------------------------------------------------
(* Steps outside the loop *)

LEMMA ConnectInv ==
  ASSUME Inv, Connect \/ ConnectFails \/ Disconnect \/ LoopEnds
  PROVE  Inv'
  <1>1. /\ UNCHANGED <<ours, sent, closed, wire, hdr, fails, handled, out, cut>>
        /\ sd' \in {"fd0", "open", "none"} /\ ec' \in BOOLEAN
        /\ status' \in {"Ok", "MagicMismatch", "TcpError"}
    BY DEF Inv, ReadInv, TypeOK, Connect, ConnectFails, Disconnect, LoopEnds,
           peer, conn, history
  <1>2. \/ pc = "connect" /\ pc' = "header" /\ status' = status
        \/ pc' = "disconnect"
        \/ pc = "disconnect" /\ pc' = "done"
    BY DEF Connect, ConnectFails, Disconnect, LoopEnds, conn
  <1>3. TypeOK'
    BY <1>1, <1>2 DEF Inv, ReadInv, TypeOK, PCs
  <1>4. Stream(wire, sent)'
    BY <1>1 DEF Inv, ReadInv
  <1>5. At(Next1, 1)' <=> At(Next1, 1)
    BY <1>1 DEF At, Next1
  <1>6. PlaceInv'
    BY <1>1, <1>2, <1>5 DEF Inv, ReadInv, PlaceInv
  <1>7. StopInv'
    BY <1>1, <1>2 DEF Inv, ReadInv, StopInv, Stopped
  <1>8. HandledInOrder'
    BY <1>1 DEF Inv, ReadInv, HandledInOrder
  <1>9. OutInv' /\ Spoken'
    BY <1>1, <1>2 DEF Inv, OutInv, Spoken
  <1> QED
    BY <1>3, <1>4, <1>6, <1>7, <1>8, <1>9 DEF Inv, ReadInv

LEMMA SendVersionInv ==
  ASSUME Inv, SendVersion
  PROVE  Inv'
  <1>1. /\ UNCHANGED <<ours, sent, closed, wire, sd, hdr, fails, handled>>
        /\ ec' \in BOOLEAN /\ cut' \in BOOLEAN
        /\ status' \in {"Ok", "MagicMismatch", "TcpError"}
    BY DEF Inv, ReadInv, TypeOK, SendVersion, Send, peer
  <1>2. \/ pc = "header" /\ pc' \in {"payload", "disconnect", "killed"}
        \/ pc = "payload" /\ pc' \in {"loop", "disconnect", "killed"}
    BY DEF SendVersion, Send
  <1>3. pc' \in {"payload", "loop"} => ec' = FALSE /\ status' = status
    BY <1>2 DEF SendVersion, Send
  <1>4. \/ out' = out
        \/ pc = "header" /\ out' = Append(out, "header")
        \/ pc = "payload" /\ out' = Append(out, "version")
    BY DEF SendVersion, Send
  <1>5. TypeOK'
    <2>1. out' \in Seq({"header", "version", "verack", "pong"})
      <3>1. out \in Seq({"header", "version", "verack", "pong"})
        BY DEF Inv, ReadInv, TypeOK
      <3> QED
        BY <1>4, <3>1, AppendProperties
    <2> QED
      BY <1>1, <1>2, <2>1 DEF Inv, ReadInv, TypeOK, PCs
  <1>6. Stream(wire, sent)'
    BY <1>1 DEF Inv, ReadInv
  <1>7. At(Next1, 1)' <=> At(Next1, 1)
    BY <1>1 DEF At, Next1
  <1>8. PlaceInv'
    BY <1>1, <1>2, <1>7 DEF Inv, ReadInv, PlaceInv
  <1>9. StopInv'
    BY <1>1, <1>2, <1>3 DEF Inv, ReadInv, StopInv, Stopped
  <1>10. HandledInOrder'
    BY <1>1 DEF Inv, ReadInv, HandledInOrder
  <1>11. ASSUME ~cut', pc' \in {"payload", "loop"}
         PROVE  /\ pc = "header" =>
                     pc' = "payload" /\ Len(out') = 1 /\ out'[1] = "header"
                /\ pc = "payload" =>
                     /\ pc' = "loop" /\ Len(out') = 2
                     /\ out'[1] = "header" /\ out'[2] = "version"
    <2>1. /\ ~cut
          /\ pc = "header" => pc' = "payload" /\ out' = Append(out, "header")
          /\ pc = "payload" => pc' = "loop" /\ out' = Append(out, "version")
      BY <1>11 DEF SendVersion, Send
    <2>2. /\ pc = "header" => Len(out) = 0
          /\ pc = "payload" => Len(out) = 1 /\ out[1] = "header"
      BY <2>1 DEF Inv, OutInv
    <2>3. out \in Seq({"header", "version", "verack", "pong"})
      BY DEF Inv, ReadInv, TypeOK
    <2>4. pc = "header" => Len(out') = 1 /\ out'[1] = "header"
      BY <2>1, <2>2, <2>3, AppendProperties
    <2>5. pc = "payload" => Len(out') = 2 /\ out'[1] = "header" /\ out'[2] = "version"
      <3> SUFFICES ASSUME pc = "payload"
                   PROVE  Len(out') = 2 /\ out'[1] = "header" /\ out'[2] = "version"
        OBVIOUS
      <3>1. out' = Append(out, "version") /\ Len(out) = 1 /\ out[1] = "header"
        BY <2>1, <2>2
      <3>2. /\ Len(out') = Len(out) + 1 /\ out'[Len(out) + 1] = "version"
            /\ \A j \in 1..Len(out) : out'[j] = out[j]
        <4> DEFINE S == {"header", "version", "verack", "pong"}
        <4>1. out \in Seq(S) /\ "version" \in S
          BY <2>3
        <4> HIDE DEF S
        <4>2. /\ Len(Append(out, "version")) = Len(out) + 1
              /\ \A j \in 1..Len(out) : Append(out, "version")[j] = out[j]
              /\ Append(out, "version")[Len(out) + 1] = "version"
          BY <4>1, AppendProperties
        <4> QED
          BY <3>1, <4>2
      <3>3. Len(out) = 1 /\ Len(out) + 1 = 2 /\ 1 \in 1..Len(out)
        BY <3>1
      <3> QED
        BY <3>1, <3>2, <3>3
    <2> QED
      BY <2>1, <2>4, <2>5
  <1>12. OutInv'
    BY <1>2, <1>11 DEF OutInv
  <1>13. Spoken'
    <2> SUFFICES ASSUME ~cut', pc' = "loop"
                 PROVE  /\ Len(out') = 2 + Cardinality(Due(Len(handled))')
                        /\ out'[1] = "header" /\ out'[2] = "version"
                        /\ Due(Len(handled))' = {}
      BY <1>2 DEF Spoken
    <2>1. /\ pc = "payload" /\ Len(out') = 2
          /\ out'[1] = "header" /\ out'[2] = "version"
      BY <1>2, <1>11
    <2>2. handled' = <<>> /\ Len(handled') = 0
      BY <1>1, <2>1 DEF Inv, ReadInv, PlaceInv
    <2>3. Due(Len(handled))' = {}
      BY <2>2 DEF Due
    <2> QED
      BY <2>1, <2>3, FS_EmptySet
  <1> QED
    BY <1>5, <1>6, <1>8, <1>9, <1>10, <1>12, <1>13 DEF Inv, ReadInv

LEMMA PeerInv ==
  ASSUME Inv, PeerCloses \/ \E k \in Kinds : PeerSends(k)
  PROVE  Inv'
  <1>1. CASE PeerCloses
    <2>1. /\ closed' \in BOOLEAN
          /\ UNCHANGED <<ours, sent, wire, pc, sd, ec, status, hdr, fails, handled, out, cut>>
      BY <1>1 DEF PeerCloses, conn, history
    <2>2. TypeOK'
      BY <2>1 DEF Inv, ReadInv, TypeOK
    <2>3. Stream(wire, sent)' /\ PlaceInv' /\ StopInv' /\ HandledInOrder'
      BY <2>1 DEF Inv, ReadInv, PlaceInv, At, Next1, DataBytes, StopInv, HandledInOrder
    <2>4. OutInv' /\ Spoken'
      BY <2>1 DEF Inv, OutInv, Spoken, Due
    <2> QED
      BY <2>2, <2>3, <2>4 DEF Inv, ReadInv
  <1>2. ASSUME NEW k \in Kinds, PeerSends(k)
        PROVE  Inv'
    <2>1. /\ UNCHANGED <<ours, closed, pc, sd, ec, status, hdr, fails, handled, out, cut>>
          /\ sd = "open" /\ Len(sent) < MaxSent
          /\ sent' = Append(sent, k)
          /\ wire' = wire \o [i \in 1..Size(k) |-> <<Len(sent) + 1, i>>]
      BY <1>2 DEF PeerSends, conn, history
    <2>2. /\ sent' \in Seq(Kinds) /\ Len(sent') = Len(sent) + 1
          /\ \A n \in 1..Len(sent) : sent'[n] = sent[n]
          /\ sent'[Len(sent) + 1] = k /\ sent \in Seq(Kinds)
      BY <2>1 DEF Inv, ReadInv, TypeOK
    <2>3. Stream(wire', sent')
      BY <2>1, TypeFacts, AppendStream DEF Inv, ReadInv
    <2>4. Size(k) \in Nat /\ Size(k) > 1
      BY SizeNat
    <2> DEFINE b == [i \in 1..Size(k) |-> <<Len(sent) + 1, i>>]
    <2>5. /\ b \in Seq(Bytes) /\ Len(b) = Size(k) /\ b[1] = <<Len(sent) + 1, 1>>
      <3>1. \A i \in 1..Size(k) : <<Len(sent) + 1, i>> \in Bytes
        BY <2>1, <2>2, <2>4, TypeFacts DEF Bytes, Inv, ReadInv
      <3> QED
        BY <2>4, <3>1, IsASeq
    <2>6. wire' = wire \o b
      BY <2>1
    <2> HIDE DEF b
    <2>7. wire \in Seq(Bytes)
      BY DEF Inv, ReadInv, TypeOK, Bytes
    <2>8. wire' \in Seq(Bytes) /\ Len(wire') = Len(wire) + Size(k)
      BY <2>4, <2>5, <2>6, <2>7, ConcatProperties
    <2>9. wire' # <<>>
      BY <2>4, <2>7, <2>8, EmptySeq
    <2>10. ASSUME NEW n, NEW i, At(n, i)
           PROVE  At(n, i)'
      <3>1. CASE wire = <<>>
        <4>1. wire'[1] = <<Len(sent) + 1, 1>>
          BY <2>4, <2>5, <2>6, <3>1, EmptySeq
        <4> QED
          BY <2>9, <2>10, <3>1, <4>1 DEF At, Place
      <3>2. CASE wire # <<>>
        <4>1. 1 \in 1..Len(wire)
          BY <2>7, <3>2, NotEmpty
        <4>2. wire'[1] = wire[1]
          BY <2>5, <2>6, <2>7, <4>1
        <4> QED
          BY <2>9, <2>10, <3>2, <4>2 DEF At, Place
      <3> QED
        BY <3>1, <3>2
    <2>11. /\ pc # "connect" /\ Next1' = Next1
           /\ pc = "data" => hdr \in 1..Len(sent)
      <3>1. pc = "data" => hdr \in 1..Len(sent)
        <4> SUFFICES ASSUME pc = "data"
                     PROVE  hdr \in 1..Len(sent)
          OBVIOUS
        <4>1. hdr \in 0..Len(sent) /\ hdr = Next1
          BY DEF Inv, ReadInv, TypeOK, PlaceInv
        <4> QED
          BY <4>1, TypeFacts DEF Inv, ReadInv, Next1
      <3> QED
        BY <2>1, <3>1 DEF Inv, ReadInv, PlaceInv, Next1
    <2>12. PlaceInv'
      <3>1. pc = "data" => DataBytes(hdr)' = DataBytes(hdr)
        BY <2>1, <2>2, <2>11 DEF DataBytes
      <3>2. pc = "on_msg" => hdr' \in 1..Len(sent')
        BY <2>1, <2>2 DEF Inv, ReadInv, PlaceInv
      <3>3. PlaceInv
        BY DEF Inv, ReadInv
      <3>4. /\ ours' /\ pc' \in {"connect", "header", "payload", "loop"} => At(Next1, 1)'
            /\ pc' = "rest" => At(Next1, MagicBytes + 1)'
            /\ pc' = "data" => At(hdr, MagicBytes + RestBytes + 1)'
            /\ pc' = "on_msg" => At(hdr + 1, 1)'
        BY <2>1, <2>10, <2>11, <3>3 DEF PlaceInv, Next1, At
      <3> QED
        BY <2>1, <2>11, <3>1, <3>2, <3>3, <3>4 DEF PlaceInv
    <2>13. handled \in Seq(1..Len(sent)) /\ 1..Len(sent) \subseteq 1..Len(sent')
      BY <2>2, TypeFacts DEF Inv, ReadInv, TypeOK
    <2>14. TypeOK'
      <3>1. handled' \in Seq(1..Len(sent'))
        BY <2>1, <2>13, SeqMonotonic
      <3>2. hdr' \in 0..Len(sent') /\ Len(sent') <= MaxSent
        BY <2>1, <2>2, SizeAssumption DEF Inv, ReadInv, TypeOK
      <3> QED
        BY <2>1, <2>2, <2>8, <3>1, <3>2 DEF Inv, ReadInv, TypeOK, Bytes
    <2>15. StopInv' /\ HandledInOrder' /\ OutInv'
      BY <2>1 DEF Inv, ReadInv, StopInv, HandledInOrder, OutInv
    <2>16. Spoken'
      <3>1. \A i \in 1..Len(handled) : sent'[handled'[i]] = sent[handled[i]]
        BY <2>1, <2>2, <2>13
      <3>2. \A n \in 1..Len(handled) : Due(n)' = Due(n)
        BY <2>1, <3>1, <2>13 DEF Due
      <3>3. Due(Len(handled))' = Due(Len(handled))
        BY <2>1, <3>1 DEF Due
      <3>4. Due(Len(handled)) \subseteq 1..Len(handled)
        BY DEF Due
      <3> SUFFICES ASSUME ~cut, pc \in {"loop", "rest", "data", "on_msg"}
                   PROVE  /\ Len(out) = 2 + Cardinality(Due(Len(handled)))
                          /\ out[1] = "header" /\ out[2] = "version"
                          /\ \A n \in Due(Len(handled)) :
                               out[2 + Cardinality(Due(n)')] =
                                 (IF sent'[handled[n]] = "ping" THEN "pong" ELSE "verack")
        BY <2>1, <3>3 DEF Spoken
      <3>5. /\ Len(out) = 2 + Cardinality(Due(Len(handled)))
            /\ out[1] = "header" /\ out[2] = "version"
            /\ \A n \in Due(Len(handled)) :
                 out[2 + Cardinality(Due(n))] =
                   (IF sent[handled[n]] = "ping" THEN "pong" ELSE "verack")
        BY DEF Inv, Spoken
      <3> QED
        BY <2>1, <3>1, <3>2, <3>4, <3>5
    <2> QED
      BY <2>3, <2>12, <2>14, <2>15, <2>16 DEF Inv, ReadInv
  <1> QED
    BY <1>1, <1>2
-----------------------------------------------------------------------------
(* Steps of the loop *)

(* The rest of the invariant after a read that failed: the client is back  *)
(* at the loop or gives up.                                                *)
LEMMA AfterFailure ==
  ASSUME Inv, pc \in {"loop", "rest", "data"}, NEW st \in {"MagicMismatch", "TcpError"},
         Failed(st), st = "TcpError" \/ ~ours,
         wire' \in Seq(Bytes), ec' \in BOOLEAN, Stream(wire', sent'),
         UNCHANGED <<ours, sent, closed, sd, hdr, handled, out, cut>>
  PROVE  Inv'
  <1>1. fails <= MaxFails
    BY TypeFacts DEF Inv, ReadInv, StopInv, Stopped, TypeOK
  <1>2. /\ status' = st /\ fails' \in 0..(MaxFails + 1)
        /\ pc' \in {"disconnect", "loop"}
        /\ st = "TcpError" \/ fails' > MaxFails => pc' = "disconnect"
    BY <1>1, FailedFacts DEF Inv, ReadInv
  <1>3. TypeOK'
    BY <1>2 DEF Inv, ReadInv, TypeOK, PCs, Bytes
  <1>4. PlaceInv'
    BY <1>2 DEF PlaceInv
  <1>5. StopInv' /\ HandledInOrder'
    BY <1>2 DEF Inv, ReadInv, StopInv, Stopped, HandledInOrder
  <1>6. OutInv' /\ Spoken'
    BY <1>2, SpokenStays DEF Inv, Stopped
  <1> QED
    BY <1>3, <1>4, <1>5, <1>6 DEF Inv, ReadInv

(* The rest of the invariant after a read that succeeded.                  *)
LEMMA AfterRead ==
  ASSUME Inv, pc \in {"loop", "rest", "data"},
         pc' \in {"rest", "data", "on_msg"}, PlaceInv',
         hdr' \in 0..Len(sent),
         wire' \in Seq(Bytes), Stream(wire', sent'),
         UNCHANGED <<ours, sent, closed, sd, ec, status, fails, handled, out, cut>>
  PROVE  Inv'
  <1>1. TypeOK'
    BY DEF Inv, ReadInv, TypeOK, PCs, Bytes
  <1>2. StopInv' /\ HandledInOrder'
    BY DEF Inv, ReadInv, StopInv, Stopped, HandledInOrder
  <1>3. OutInv' /\ Spoken'
    BY SpokenStays DEF Inv, Stopped
  <1> QED
    BY <1>1, <1>2, <1>3 DEF Inv, ReadInv

LEMMA FirstByte ==
  ASSUME Inv, wire # <<>>, NEW n \in Nat, NEW i \in Nat, At(n, i)
  PROVE  /\ wire[1] = <<n, i>> /\ n \in 1..Len(sent)
         /\ sent[n] \in Kinds /\ DataBytes(n) \in Nat
         /\ Size(sent[n]) = MagicBytes + RestBytes + DataBytes(n)
  <1>1. wire \in Seq(Pairs) /\ sent \in Seq(Kinds) /\ Stream(wire, sent)
    BY TypeFacts DEF Inv, ReadInv
  <1>2. 1 \in 1..Len(wire) /\ wire[1] = <<n, i>>
    BY <1>1, NotEmpty DEF At, Place
  <1>3. wire[1][1] = n
    BY <1>2
  <1>4. n \in 1..Len(sent)
    BY <1>1, <1>2, <1>3 DEF Stream
  <1>5. sent[n] \in Kinds
    BY <1>1, <1>4
  <1> QED
    BY <1>2, <1>4, <1>5, SizeNat DEF DataBytes

LEMMA ReadFacts ==
  ASSUME Inv, wire # <<>>, NEW n \in Nat, NEW i \in Nat, At(n, i),
         NEW k \in 1..Len(wire), wire' = SubSeq(wire, k + 1, Len(wire)),
         i + k <= Size(sent[n]) + 1
  PROVE  /\ \A m \in 1..k : wire[m] = <<n, i + (m - 1)>>
         /\ i + k <= Size(sent[n]) => Place(wire', sent, n, i + k)
         /\ i + k = Size(sent[n]) + 1 => Place(wire', sent, n + 1, 1)
  <1>1. wire \in Seq(Pairs) /\ sent \in Seq(Kinds) /\ Stream(wire, sent)
    BY TypeFacts DEF Inv, ReadInv
  <1>2. wire[1] = <<n, i>>
    BY DEF At, Place
  <1>3. LET v == SubSeq(wire, k + 1, Len(wire))
        IN  /\ n \in 1..Len(sent)
            /\ \A m \in 1..k : wire[m] = <<n, i + (m - 1)>>
            /\ i + k <= Size(sent[n]) => v # <<>> /\ Place(v, sent, n, i + k)
            /\ i + k = Size(sent[n]) + 1 => Place(v, sent, n + 1, 1)
    BY <1>1, <1>2, ReadOn
  <1> QED
    BY <1>3

LEMMA RecvMagicInv ==
  ASSUME Inv, RecvMagic
  PROVE  Inv'
  <1>1. PICK k \in 0..MagicBytes :
          /\ Recv(MagicBytes, k)
          /\ IF k # MagicBytes THEN Failed("TcpError")
             ELSE IF ~MagicMatches(wire) THEN Failed("MagicMismatch")
             ELSE pc' = "rest" /\ UNCHANGED <<status, fails>>
    BY DEF RecvMagic
  <1>2. pc = "loop" /\ UNCHANGED <<hdr, handled, out, cut>>
    BY DEF RecvMagic, history
  <1>3. TypeOK /\ Stream(wire, sent) /\ PlaceInv
    BY DEF Inv, ReadInv
  <1>4. MagicBytes \in Nat /\ MagicBytes > 0 /\ RestBytes \in Nat /\ RestBytes > 0
    BY SizeAssumption
  <1>5. /\ wire' \in Seq(Bytes) /\ ec' \in BOOLEAN
        /\ Stream(wire', sent') /\ UNCHANGED <<ours, sent, closed, sd>>
        /\ k = MagicBytes => /\ k \in 1..Len(wire) /\ wire # <<>> /\ ec' = ec
                             /\ wire' = SubSeq(wire, k + 1, Len(wire))
    BY <1>1, <1>3, <1>4, RecvFacts
  <1>6. CASE k # MagicBytes
    BY <1>1, <1>2, <1>5, <1>6, AfterFailure
  <1>7. CASE k = MagicBytes /\ ~ours
    <2>1. Failed("MagicMismatch")
      BY <1>1, <1>7 DEF MagicMatches
    <2> QED
      BY <1>2, <1>5, <1>7, <2>1, AfterFailure
  <1>8. CASE k = MagicBytes /\ ours
    <2>1. At(Next1, 1) /\ Next1 \in Nat
      BY <1>2, <1>3, <1>8, TypeFacts DEF PlaceInv, Next1
    <2>2. /\ wire[1] = <<Next1, 1>> /\ Next1 \in 1..Len(sent)
          /\ DataBytes(Next1) \in Nat
          /\ Size(sent[Next1]) = MagicBytes + RestBytes + DataBytes(Next1)
      BY <1>5, <1>8, <2>1, FirstByte
    <2>3. 1 + k <= Size(sent[Next1])
      BY <1>4, <1>8, <2>2
    <2>4. /\ \A m \in 1..k : wire[m] = <<Next1, 1 + (m - 1)>>
          /\ Place(wire', sent, Next1, 1 + k)
      <3>1. 1 + k <= Size(sent[Next1]) + 1
        BY <1>4, <1>8, <2>2
      <3> QED
        BY <1>5, <1>8, <2>1, <2>3, <3>1, ReadFacts
    <2>5. MagicMatches(wire)
      <3>1. wire[1][1] = Next1
        BY <2>2
      <3>2. \A i \in 1..MagicBytes : wire[i] = <<Next1, i>>
        <4> TAKE i \in 1..MagicBytes
        <4>1. i \in 1..k /\ 1 + (i - 1) = i
          BY <1>8
        <4> QED
          BY <2>4, <4>1
      <3> QED
        BY <1>8, <3>1, <3>2 DEF MagicMatches
    <2>6. pc' = "rest" /\ UNCHANGED <<status, fails>>
      BY <1>1, <1>8, <2>5
    <2>7. At(Next1, MagicBytes + 1)'
      <3>1. 1 + k = MagicBytes + 1 /\ Next1' = Next1 /\ sent' = sent
        BY <1>2, <1>4, <1>5, <1>8 DEF Next1
      <3> QED
        BY <2>4, <3>1 DEF At
    <2>8. PlaceInv'
      BY <1>5, <1>8, <2>6, <2>7 DEF PlaceInv
    <2>9. hdr' \in 0..Len(sent)
      BY <1>2, <1>3 DEF TypeOK
    <2> QED
      BY <1>2, <1>5, <1>8, <2>6, <2>8, <2>9, AfterRead
  <1> QED
    BY <1>6, <1>7, <1>8

LEMMA RecvRestInv ==
  ASSUME Inv, RecvRest
  PROVE  Inv'
  <1>1. PICK k \in 0..RestBytes :
          /\ Recv(RestBytes, k)
          /\ IF k # RestBytes
               THEN Failed("TcpError") /\ hdr' = hdr
               ELSE /\ hdr' = wire[1][1]
                    /\ pc' = IF DataBytes(hdr') > 0 THEN "data" ELSE "on_msg"
                    /\ UNCHANGED <<status, fails>>
    BY DEF RecvRest
  <1>2. pc = "rest" /\ UNCHANGED <<handled, out, cut>>
    BY DEF RecvRest, history
  <1>3. TypeOK /\ Stream(wire, sent) /\ PlaceInv
    BY DEF Inv, ReadInv
  <1>4. MagicBytes \in Nat /\ MagicBytes > 0 /\ RestBytes \in Nat /\ RestBytes > 0
    BY SizeAssumption
  <1>5. /\ wire' \in Seq(Bytes) /\ ec' \in BOOLEAN
        /\ Stream(wire', sent') /\ UNCHANGED <<ours, sent, closed, sd>>
        /\ k = RestBytes => /\ k \in 1..Len(wire) /\ wire # <<>> /\ ec' = ec
                            /\ wire' = SubSeq(wire, k + 1, Len(wire))
    BY <1>1, <1>3, <1>4, RecvFacts
  <1>6. CASE k # RestBytes
    BY <1>1, <1>2, <1>5, <1>6, AfterFailure
  <1>7. CASE k = RestBytes
    <2> DEFINE i == MagicBytes + 1
    <2>1. At(Next1, i) /\ Next1 \in Nat /\ i \in Nat /\ ours
      BY <1>2, <1>3, <1>4, TypeFacts DEF PlaceInv, Next1
    <2>2. /\ wire[1] = <<Next1, i>> /\ Next1 \in 1..Len(sent)
          /\ DataBytes(Next1) \in Nat
          /\ Size(sent[Next1]) = MagicBytes + RestBytes + DataBytes(Next1)
      BY <1>5, <1>7, <2>1, FirstByte
    <2>3. i + k <= Size(sent[Next1]) + 1
      BY <1>4, <1>7, <2>2
    <2>4. /\ i + k <= Size(sent[Next1]) => Place(wire', sent, Next1, i + k)
          /\ i + k = Size(sent[Next1]) + 1 => Place(wire', sent, Next1 + 1, 1)
      BY <1>5, <1>7, <2>1, <2>3, ReadFacts
    <2>5. hdr' = Next1 /\ Next1' = Next1
      BY <1>1, <1>2, <1>7, <2>2 DEF Next1
    <2>6. /\ pc' = IF DataBytes(Next1) > 0 THEN "data" ELSE "on_msg"
          /\ UNCHANGED <<status, fails>> /\ DataBytes(hdr)' = DataBytes(Next1)
      BY <1>1, <1>5, <1>7, <2>5 DEF DataBytes
    <2>7. ASSUME DataBytes(Next1) > 0
          PROVE  PlaceInv'
      <3>1. At(hdr, MagicBytes + RestBytes + 1)'
        <4>1. i + k <= Size(sent[Next1]) /\ i + k = MagicBytes + RestBytes + 1
          BY <1>4, <1>7, <2>2, <2>7
        <4> QED
          BY <1>5, <2>4, <2>5, <4>1 DEF At
      <3> QED
        BY <1>5, <2>1, <2>5, <2>6, <2>7, <3>1 DEF PlaceInv
    <2>8. ASSUME ~(DataBytes(Next1) > 0)
          PROVE  PlaceInv'
      <3>1. At(hdr + 1, 1)'
        <4>1. i + k = Size(sent[Next1]) + 1
          BY <1>4, <1>7, <2>2, <2>8
        <4> QED
          BY <1>5, <2>4, <2>5, <4>1 DEF At
      <3> QED
        BY <1>5, <2>1, <2>2, <2>5, <2>6, <2>8, <3>1 DEF PlaceInv
    <2>9. hdr' \in 0..Len(sent)
      BY <2>2, <2>5
    <2>10. PlaceInv' /\ pc' \in {"data", "on_msg"}
      BY <2>6, <2>7, <2>8
    <2> QED
      BY <1>2, <1>5, <1>7, <2>6, <2>9, <2>10, AfterRead
  <1> QED
    BY <1>6, <1>7

LEMMA RecvDataInv ==
  ASSUME Inv, RecvData
  PROVE  Inv'
  <1>1. PICK k \in 0..DataBytes(hdr) :
          /\ Recv(DataBytes(hdr), k)
          /\ IF k # DataBytes(hdr) THEN Failed("TcpError")
             ELSE pc' = "on_msg" /\ UNCHANGED <<status, fails>>
    BY DEF RecvData
  <1>2. pc = "data" /\ UNCHANGED <<hdr, handled, out, cut>>
    BY DEF RecvData, history
  <1>3. TypeOK /\ Stream(wire, sent) /\ PlaceInv
    BY DEF Inv, ReadInv
  <1>4. MagicBytes \in Nat /\ MagicBytes > 0 /\ RestBytes \in Nat /\ RestBytes > 0
    BY SizeAssumption
  <1> DEFINE i == MagicBytes + RestBytes + 1
             n == hdr
  <1>5. /\ n = Next1 /\ n \in 1..Len(sent) /\ At(n, i) /\ i \in Nat /\ ours
        /\ DataBytes(n) > 0 /\ DataBytes(n) \in Nat
    <2>1. /\ hdr = Next1 /\ hdr \in 0..Len(sent) /\ At(hdr, i) /\ ours
          /\ DataBytes(hdr) > 0
      BY <1>2, <1>3 DEF PlaceInv, TypeOK
    <2>2. hdr \in 1..Len(sent)
      BY <1>3, <2>1, TypeFacts DEF Next1
    <2>3. DataBytes(hdr) \in Nat
      <3>1. sent[hdr] \in Kinds
        BY <1>3, <2>2 DEF TypeOK
      <3> QED
        BY <3>1, SizeNat DEF DataBytes
    <2> QED
      BY <1>4, <2>1, <2>2, <2>3
  <1>6. /\ wire' \in Seq(Bytes) /\ ec' \in BOOLEAN
        /\ Stream(wire', sent') /\ UNCHANGED <<ours, sent, closed, sd>>
        /\ k = DataBytes(n) => /\ k \in 1..Len(wire) /\ wire # <<>> /\ ec' = ec
                               /\ wire' = SubSeq(wire, k + 1, Len(wire))
    BY <1>1, <1>3, <1>5, RecvFacts
  <1>7. CASE k # DataBytes(n)
    BY <1>1, <1>2, <1>6, <1>7, AfterFailure
  <1>8. CASE k = DataBytes(n)
    <2>1. /\ wire[1] = <<n, i>>
          /\ Size(sent[n]) = MagicBytes + RestBytes + DataBytes(n)
      BY <1>5, <1>6, <1>8, FirstByte
    <2>2. i + k = Size(sent[n]) + 1 /\ i + k <= Size(sent[n]) + 1
      BY <1>4, <1>5, <1>8, <2>1
    <2>3. Place(wire', sent, n + 1, 1)
      <3>1. n \in Nat /\ i \in Nat /\ wire # <<>> /\ At(n, i) /\ k \in 1..Len(wire)
        BY <1>5, <1>6, <1>8
      <3> QED
        BY <1>6, <1>8, <2>2, <3>1, ReadFacts
    <2>4. pc' = "on_msg" /\ UNCHANGED <<status, fails>>
      BY <1>1, <1>8
    <2>5. At(hdr + 1, 1)' /\ Next1' = Next1
      BY <1>2, <1>6, <2>3 DEF At, Next1
    <2>6. PlaceInv'
      BY <1>2, <1>5, <1>6, <2>4, <2>5 DEF PlaceInv
    <2>7. hdr' \in 0..Len(sent)
      BY <1>2, <1>3 DEF TypeOK
    <2> QED
      BY <1>2, <1>6, <1>8, <2>4, <2>6, <2>7, AfterRead
  <1> QED
    BY <1>7, <1>8
-----------------------------------------------------------------------------
(* on_msg *)

(* What has been said is what the handled messages ask for.                *)
Answered ==
  /\ Len(out) = 2 + Cardinality(Due(Len(handled)))
  /\ out[1] = "header" /\ out[2] = "version"
  /\ \A n \in Due(Len(handled)) :
       out[2 + Cardinality(Due(n))] =
         (IF sent[handled[n]] = "ping" THEN "pong" ELSE "verack")

LEMMA DueFinite ==
  ASSUME NEW h \in Nat
  PROVE  /\ IsFiniteSet(Due(h)) /\ Cardinality(Due(h)) \in Nat /\ Due(h) \subseteq 1..h
         /\ \A n \in Due(h) :
              /\ IsFiniteSet(Due(n)) /\ Cardinality(Due(n)) \in Nat
              /\ Cardinality(Due(n)) <= Cardinality(Due(h)) /\ Cardinality(Due(n)) > 0
  <1>1. \A n \in 0..h : IsFiniteSet(Due(n)) /\ Cardinality(Due(n)) \in Nat
    <2> TAKE n \in 0..h
    <2>1. IsFiniteSet(1..n)
      BY FS_Interval
    <2>2. Due(n) \subseteq 1..n
      BY DEF Due
    <2> QED
      BY <2>1, <2>2, FS_Subset, FS_CardinalityType
  <1>2. Due(h) \subseteq 1..h
    BY DEF Due
  <1>3. ASSUME NEW n \in Due(h)
        PROVE  Cardinality(Due(n)) <= Cardinality(Due(h)) /\ Cardinality(Due(n)) > 0
    <2>1. n \in 1..h /\ Due(n) \subseteq Due(h) /\ n \in Due(n)
      BY DEF Due
    <2>2. IsFiniteSet(Due(h)) /\ IsFiniteSet(Due(n)) /\ Cardinality(Due(n)) \in Nat
      BY <1>1, <2>1
    <2>3. Cardinality(Due(n)) # 0
      BY <2>1, <2>2, FS_EmptySet
    <2> QED
      BY <2>1, <2>2, <2>3, FS_Subset
  <1> QED
    BY <1>1, <1>2, <1>3

LEMMA AnswerKeeps ==
  ASSUME TypeOK, Answered, NEW k, hdr \in 1..Len(sent), k = sent[hdr],
         handled' = Append(handled, hdr), sent' = sent,
         Reply(k) = "none" => out' = out,
         Reply(k) # "none" => out' = Append(out, Reply(k))
  PROVE  Answered'
  <1> DEFINE Replies == {"header", "version", "verack", "pong"}
  <1>0. PICK h \in Nat : h = Len(handled)
    BY DEF TypeOK
  <1>1. /\ h \in Nat /\ handled \in Seq(1..Len(sent)) /\ out \in Seq(Replies)
        /\ Len(out) \in Nat
    BY <1>0 DEF TypeOK
  <1>2. /\ Len(handled') = h + 1 /\ handled'[h + 1] = hdr
        /\ \A n \in 1..h : handled'[n] = handled[n]
    BY <1>0, <1>1, AppendProperties
  <1>3. \A n \in 0..h : Due(n)' = Due(n)
    BY <1>2 DEF Due
  <1>4. Due(h + 1)' = IF k \in {"version", "ping"} THEN Due(h) \cup {h + 1} ELSE Due(h)
    <2>1. \A i \in 1..(h + 1) : i \in 1..h \/ i = h + 1
      BY <1>1
    <2>2. \A i \in 1..h : i \in 1..(h + 1)
      BY <1>1
    <2>3. h + 1 \in 1..(h + 1)
      BY <1>1
    <2> QED
      BY <1>1, <1>2, <2>1, <2>2, <2>3 DEF Due
  <1>5. /\ IsFiniteSet(Due(h)) /\ Cardinality(Due(h)) \in Nat /\ Due(h) \subseteq 1..h
        /\ \A n \in Due(h) :
             /\ Cardinality(Due(n)) \in Nat
             /\ Cardinality(Due(n)) <= Cardinality(Due(h)) /\ Cardinality(Due(n)) > 0
    BY <1>1, DueFinite
  <1>6. \A n \in Due(h) : sent'[handled'[n]] = sent[handled[n]] /\ Due(n)' = Due(n)
    BY <1>1, <1>2, <1>3, <1>5
  <1>7. /\ Len(out) = 2 + Cardinality(Due(h))
        /\ out[1] = "header" /\ out[2] = "version"
        /\ \A n \in Due(h) :
             out[2 + Cardinality(Due(n))] =
               (IF sent[handled[n]] = "ping" THEN "pong" ELSE "verack")
    BY <1>0 DEF Answered
  <1> DEFINE Good == /\ Len(out') = 2 + Cardinality(Due(h + 1)')
                     /\ out'[1] = "header" /\ out'[2] = "version"
                     /\ \A n \in Due(h + 1)' :
                          out'[2 + Cardinality(Due(n)')] =
                            (IF sent'[handled'[n]] = "ping" THEN "pong" ELSE "verack")
  <1>8. CASE k \notin {"version", "ping"}
    <2>1. out' = out
      BY <1>8 DEF Reply
    <2>2. Due(h + 1)' = Due(h)
      BY <1>4, <1>8
    <2>3. Good
      <3>1. \A n \in Due(h) :
              out'[2 + Cardinality(Due(n)')] =
                (IF sent'[handled'[n]] = "ping" THEN "pong" ELSE "verack")
        BY <1>6, <1>7, <2>1
      <3>2. Len(out') = 2 + Cardinality(Due(h + 1)')
        BY <1>7, <2>1, <2>2
      <3>3. out'[1] = "header" /\ out'[2] = "version"
        BY <1>7, <2>1
      <3> QED
        BY <2>2, <3>1, <3>2, <3>3
    <2> QED
      BY <1>2, <2>3 DEF Answered
  <1>9. CASE k \in {"version", "ping"}
    <2> DEFINE r == IF k = "ping" THEN "pong" ELSE "verack"
    <2>1. out' = Append(out, r)
      BY <1>9 DEF Reply
    <2>2. Due(h + 1)' = Due(h) \cup {h + 1}
      BY <1>4, <1>9
    <2>3. h + 1 \notin Due(h)
      BY <1>1, <1>5
    <2>4. Cardinality(Due(h + 1)') = Cardinality(Due(h)) + 1
      BY <1>5, <2>2, <2>3, FS_AddElement
    <2>5. /\ Len(out') = Len(out) + 1 /\ out'[Len(out) + 1] = r
          /\ \A j \in 1..Len(out) : out'[j] = out[j]
      BY <1>1, <2>1, AppendProperties
    <2>6. Len(out') = 2 + Cardinality(Due(h + 1)')
      BY <1>5, <1>7, <2>4, <2>5
    <2>7. out'[1] = "header" /\ out'[2] = "version"
      BY <1>5, <1>7, <2>5
    <2>8. ASSUME NEW n \in Due(h)
          PROVE  out'[2 + Cardinality(Due(n)')] =
                   (IF sent'[handled'[n]] = "ping" THEN "pong" ELSE "verack")
      <3>1. 2 + Cardinality(Due(n)) \in 1..Len(out)
        BY <1>1, <1>5, <1>7
      <3> QED
        BY <1>6, <1>7, <2>5, <3>1
    <2>9. out'[2 + Cardinality(Due(h + 1)')] =
            (IF sent'[handled'[h + 1]] = "ping" THEN "pong" ELSE "verack")
      <3>1. 2 + Cardinality(Due(h + 1)') = Len(out) + 1
        BY <1>5, <1>7, <2>4
      <3>2. sent'[handled'[h + 1]] = k
        BY <1>2
      <3> QED
        BY <2>5, <3>1, <3>2
    <2>10. Good
      BY <2>2, <2>6, <2>7, <2>8, <2>9
    <2> QED
      BY <1>2, <2>10 DEF Answered
  <1> QED
    BY <1>8, <1>9

LEMMA OnMsgInv ==
  ASSUME Inv, OnMsg
  PROVE  Inv'
  <1> DEFINE k == sent[hdr]
  <1>1. /\ pc = "on_msg" /\ handled' = Append(handled, hdr)
        /\ UNCHANGED <<ours, sent, closed, wire, sd, hdr>>
    BY DEF OnMsg, Send, peer, conn
  <1>2. TypeOK /\ Stream(wire, sent) /\ PlaceInv /\ StopInv /\ HandledInOrder
    BY DEF Inv, ReadInv
  <1>3. hdr \in 1..Len(sent) /\ hdr = Next1 /\ ours /\ At(hdr + 1, 1)
    BY <1>1, <1>2 DEF PlaceInv
  <1>4. status # "TcpError" /\ fails <= MaxFails
    BY <1>1, <1>2, SizeAssumption DEF StopInv, Stopped, TypeOK
  <1>5. handled \in Seq(1..Len(sent)) /\ Len(handled) \in Nat
    BY <1>2 DEF TypeOK
  <1>6. /\ handled' \in Seq(1..Len(sent)) /\ Len(handled') = Len(handled) + 1
        /\ handled'[Len(handled) + 1] = hdr
        /\ \A j \in 1..Len(handled) : handled'[j] = handled[j]
    BY <1>1, <1>3, <1>5, AppendProperties
  <1>7. out \in Seq({"header", "version", "verack", "pong"})
    BY <1>2 DEF TypeOK
  <1>8. \/ /\ Reply(k) # "none" /\ fails' = 0 /\ status' = status
           /\ pc' \in {"loop", "killed"} /\ ec' \in BOOLEAN /\ cut' \in BOOLEAN
           /\ out' = out \/ out' = Append(out, Reply(k))
           /\ ~cut' => ~cut /\ out' = Append(out, Reply(k))
        \/ /\ Reply(k) = "none" /\ fails' \in 0..(MaxFails + 1)
           /\ status' = status
           /\ pc' \in {"loop", "disconnect", "killed"} /\ ec' = ec /\ cut' = cut
           /\ out' = out
           /\ fails' > MaxFails => pc' = "disconnect"
    <2>1. CASE /\ Reply(k) # "none"
               /\ Send(Reply(k), "loop", "loop")
               /\ fails' = 0 /\ status' = status
      <3>1. ec \in BOOLEAN /\ cut \in BOOLEAN
        BY <1>2 DEF TypeOK
      <3>2. CASE /\ pc' = "loop" /\ ec' = FALSE
                 /\ out' = IF cut THEN out ELSE Append(out, Reply(k))
                 /\ cut' = cut
        <4>1. CASE cut
          BY <2>1, <3>1, <3>2, <4>1
        <4>2. CASE ~cut
          BY <2>1, <3>1, <3>2, <4>2
        <4> QED
          BY <4>1, <4>2
      <3>3. CASE pc' = "loop" /\ ec' = FALSE /\ cut' = TRUE /\ out' = out
        BY <2>1, <3>3
      <3>4. CASE pc' = "loop" /\ ec' = TRUE /\ cut' = TRUE /\ out' = out
        BY <2>1, <3>4
      <3>5. CASE closed /\ pc' = "killed" /\ cut' = TRUE /\ UNCHANGED <<ec, out>>
        BY <2>1, <3>1, <3>5
      <3> QED
        BY <2>1, <3>2, <3>3, <3>4, <3>5 DEF Send
    <2>2. CASE /\ k # "empty" /\ Reply(k) = "none"
               /\ IF Result(k) = 0
                    THEN pc' = "loop" /\ fails' = 0 /\ status' = status
                    ELSE Failed(status)
               /\ UNCHANGED <<peer, wire, sd, ec, hdr, out, cut>>
      <3>1. CASE Result(k) = 0
        BY <2>2, <3>1, SizeAssumption
      <3>2. CASE Result(k) # 0
        <4>1. Failed(status) /\ status \in {"Ok", "MagicMismatch", "TcpError"}
          BY <1>2, <2>2, <3>2 DEF TypeOK
        <4>2. /\ status' = status /\ fails' \in 0..(MaxFails + 1)
              /\ pc' \in {"disconnect", "loop"}
              /\ fails' > MaxFails => pc' = "disconnect"
          BY <1>2, <1>4, <4>1, FailedFacts
        <4> QED
          BY <2>2, <4>2
      <3> QED
        BY <3>1, <3>2
    <2>3. CASE k = "empty" /\ pc' = "killed" /\ UNCHANGED <<peer, wire, conn, hdr, fails, out, cut>>
      <3>1. Reply(k) = "none" /\ fails' = fails /\ fails' \in 0..(MaxFails + 1)
        BY <1>2, <2>3 DEF Reply, TypeOK
      <3> QED
        BY <1>4, <2>3, <3>1, SizeAssumption DEF conn
    <2> QED
      BY <2>1, <2>2, <2>3 DEF OnMsg
  <1>9. Reply(k) \in {"none", "verack", "pong"}
    BY DEF Reply
  <1> HIDE DEF k
  <1>10. TypeOK'
    <2>1. out' \in Seq({"header", "version", "verack", "pong"})
      <3>1. Reply(k) # "none" => Reply(k) \in {"header", "version", "verack", "pong"}
        BY <1>9
      <3> QED
        BY <1>7, <1>8, <3>1, AppendProperties
    <2>2. fails' \in 0..(MaxFails + 1) /\ ec' \in BOOLEAN /\ cut' \in BOOLEAN
      BY <1>2, <1>8, SizeAssumption DEF TypeOK
    <2>3. pc' \in PCs /\ status' = status
      BY <1>8 DEF PCs
    <2> QED
      BY <1>1, <1>2, <1>6, <2>1, <2>2, <2>3 DEF TypeOK
  <1>11. PlaceInv'
    <2>1. Next1' = hdr + 1 /\ At(Next1, 1)'
      BY <1>1, <1>3, <1>6 DEF Next1, At
    <2>2. pc' \in {"loop", "killed", "disconnect"}
      BY <1>8
    <2> QED
      BY <2>1, <2>2 DEF PlaceInv
  <1>12. StopInv'
    BY <1>2, <1>4, <1>8, SizeAssumption DEF StopInv, Stopped
  <1>13. HandledInOrder'
    <2>1. DOMAIN handled = 1..Len(handled) /\ DOMAIN handled' = 1..(Len(handled) + 1)
      BY <1>5, <1>6
    <2>2. \A j \in 1..(Len(handled) + 1) : handled'[j] = j
      <3> TAKE j \in 1..(Len(handled) + 1)
      <3>1. CASE j \in 1..Len(handled)
        BY <1>2, <1>6, <2>1, <3>1 DEF HandledInOrder
      <3>2. CASE j = Len(handled) + 1
        BY <1>3, <1>6, <3>2 DEF Next1
      <3> QED
        BY <1>5, <3>1, <3>2
    <2> QED
      BY <1>1, <1>3, <2>1, <2>2 DEF HandledInOrder
  <1>14. OutInv'
    BY <1>8 DEF OutInv
  <1>15. Spoken'
    <2> SUFFICES ASSUME ~cut'
                 PROVE  Answered'
      BY DEF Spoken, Answered
    <2>1. Answered
      BY <1>1, <1>8 DEF Inv, Spoken, Answered
    <2> QED
      BY <1>1, <1>2, <1>3, <1>8, <2>1, AnswerKeeps DEF k
  <1> QED
    BY <1>1, <1>2, <1>10, <1>11, <1>12, <1>13, <1>14, <1>15 DEF Inv, ReadInv
-----------------------------------------------------------------------------
(* The theorems *)

LEMMA StepInv ==
  ASSUME Inv, [Next]_vars
  PROVE  Inv'
  <1>1. CASE UNCHANGED vars
    BY <1>1 DEF vars, peer, conn, history, Inv, ReadInv, TypeOK, PlaceInv, At, Next1,
                DataBytes, StopInv, HandledInOrder, OutInv, Spoken, Due
  <1>2. CASE Client
    BY <1>2, ConnectInv, SendVersionInv, RecvMagicInv, RecvRestInv, RecvDataInv, OnMsgInv
       DEF Client
  <1>3. CASE PeerCloses \/ \E k \in Kinds : PeerSends(k)
    BY <1>3, PeerInv
  <1> QED
    BY <1>1, <1>2, <1>3 DEF Next, Ended

(* The inductive invariant holds in every state.                           *)
THEOREM Invariance == Spec => []Inv
  <1>1. Inv /\ [Next]_vars => Inv'
    BY StepInv
  <1> QED
    BY <1>1, InitInv, PTL DEF Spec

(* Every variable keeps its type: main gives up before num_fails is more   *)
(* than one above its limit, and on_msg is only called for a message that  *)
(* the peer has sent (main_client.c:168-184).                              *)
THEOREM TypeCorrect == Spec => []TypeOK
  <1>1. Inv => TypeOK
    BY DEF Inv, ReadInv
  <1> QED
    BY <1>1, Invariance, PTL

(* Whatever recv returns, each step of reading begins at the byte it is    *)
(* meant for (bc_client.c:110, 121, 142).                                  *)
THEOREM InStepHolds == Spec => []InStep
  <1>1. Inv => InStep
    <2> SUFFICES ASSUME Inv, ours, wire # <<>>
                 PROVE  /\ pc = "loop" => wire[1][2] = 1
                        /\ pc = "rest" => wire[1][2] = MagicBytes + 1
                        /\ pc = "data" => wire[1] = <<hdr, MagicBytes + RestBytes + 1>>
      BY DEF InStep
    <2>1. /\ pc = "loop" => wire[1] = <<Next1, 1>>
          /\ pc = "rest" => wire[1] = <<Next1, MagicBytes + 1>>
          /\ pc = "data" => wire[1] = <<hdr, MagicBytes + RestBytes + 1>>
      BY DEF Inv, ReadInv, PlaceInv, At, Place
    <2> QED
      BY <2>1, Fields
  <1> QED
    BY <1>1, Invariance, PTL

(* on_msg sees the messages of the peer in their order and each of them    *)
(* once, and none of a peer of another network (main_client.c:168-184).    *)
THEOREM HandledInOrderHolds == Spec => []HandledInOrder
  <1>1. Inv => HandledInOrder
    BY DEF Inv, ReadInv
  <1> QED
    BY <1>1, Invariance, PTL

(* Until a send is cut, the peer sees the greeting and then one answer for *)
(* each message that asks for one, in their order (main_client.c:64-98).  *)
THEOREM SpokenHolds == Spec => []Spoken
  <1>1. Inv => Spoken
    BY DEF Inv
  <1> QED
    BY <1>1, Invariance, PTL

(* After a short read nothing more is read, handled or answered, as the    *)
(* loop has ended (main_client.c:170-173).                                 *)
THEOREM TcpErrorIsFinalHolds == Spec => TcpErrorIsFinal
  <1>1. ASSUME Inv, [Next]_vars, status = "TcpError"
        PROVE  UNCHANGED <<handled, out>> /\ Len(wire') >= Len(wire)
    <2>1. pc \in Stopped /\ TypeOK
      BY <1>1 DEF Inv, ReadInv, StopInv
    <2>2. Len(wire) \in Nat
      BY <2>1, TypeFacts
    <2>3. CASE \E k \in Kinds : PeerSends(k)
      <3>1. PICK k \in Kinds : PeerSends(k)
        BY <2>3
      <3>2. /\ UNCHANGED <<handled, out>>
            /\ wire' = wire \o [i \in 1..Size(k) |-> <<Len(sent) + 1, i>>]
        BY <3>1 DEF PeerSends, history
      <3> DEFINE b == [i \in 1..Size(k) |-> <<Len(sent) + 1, i>>]
      <3>3. b \in Seq(Pairs) /\ Len(b) = Size(k) /\ Size(k) \in Nat
        <4>1. \A i \in 1..Size(k) : <<Len(sent) + 1, i>> \in Pairs
          BY <2>1, TypeFacts DEF Pairs
        <4> QED
          BY <4>1, SizeNat, IsASeq
      <3>4. wire \in Seq(Pairs)
        BY <2>1, TypeFacts
      <3> HIDE DEF b
      <3>5. Len(wire \o b) = Len(wire) + Len(b)
        BY <3>3, <3>4, ConcatProperties
      <3> QED
        BY <2>2, <3>2, <3>3, <3>5 DEF b
    <2>4. CASE ~ \E k \in Kinds : PeerSends(k)
      <3>1. UNCHANGED <<handled, out, wire>>
        BY <1>1, <2>1, <2>4
           DEF Stopped, Next, Client, Ended, PeerCloses, Connect, ConnectFails,
               SendVersion, Disconnect, LoopEnds, RecvMagic, RecvRest, RecvData, OnMsg,
               vars, history
      <3> QED
        BY <2>2, <3>1
    <2> QED
      BY <2>3, <2>4
  <1>2. Inv /\ [Next]_vars =>
          [status = "TcpError" =>
             UNCHANGED <<handled, out>> /\ Len(wire') >= Len(wire)]_vars
    BY <1>1
  <1> QED
    BY <1>2, Invariance, PTL DEF Spec, TcpErrorIsFinal

-----------------------------------------------------------------------------
(* Termination, as far as it is not fairness                               *)

(* How many steps the client may still take, at most, if the peer sends    *)
(* nothing more: five for each byte on the wire, and those it is at.       *)
Stage ==
  CASE pc \in {"connect", "rest"} -> 5
    [] pc \in {"header", "data"} -> 4
    [] pc \in {"payload", "on_msg"} -> 3
    [] pc = "loop" -> 2
    [] pc = "disconnect" -> 1
    [] OTHER -> 0

ClientSteps == 5 * Len(wire) + Stage

(* A client that waits for the peer between two messages or inside of one. *)
CaughtUp ==
  ours /\ wire = <<>> /\ pc \in {"loop", "rest", "data"} =>
    pc = "loop" /\ Len(handled) = Len(sent)

LEMMA StepsNat ==
  ASSUME TypeOK
  PROVE  ClientSteps \in Nat
  <1>1. Len(wire) \in Nat
    BY TypeFacts
  <1>2. Stage \in Nat
    BY SMT DEF Stage
  <1> HIDE DEF Stage
  <1> QED
    BY <1>1, <1>2 DEF ClientSteps

(* A read takes bytes from the wire, or it is the last one.                *)
LEMMA RecvShrinks ==
  ASSUME TypeOK, NEW n \in Nat, NEW k \in 0..n, n > 0, Recv(n, k)
  PROVE  /\ Len(wire') \in Nat /\ Len(wire') <= Len(wire)
         /\ k = n => Len(wire') < Len(wire)
  <1>1. wire \in Seq(Pairs) /\ Len(wire) \in Nat
    BY TypeFacts
  <1>2. CASE k \in 1..Lesser(n, Len(wire)) /\ wire' = SubSeq(wire, k + 1, Len(wire))
    <2>1. k \in 1..Len(wire)
      BY <1>1, <1>2 DEF Lesser
    <2>2. Len(wire') = Len(wire) - k
      BY <1>1, <1>2, <2>1
    <2> QED
      BY <1>1, <2>1, <2>2
  <1>3. CASE k = 0 /\ wire' = wire
    BY <1>1, <1>3
  <1> QED
    BY <1>2, <1>3 DEF Recv

LEMMA ClientFewer ==
  ASSUME Inv, Client
  PROVE  ClientSteps' < ClientSteps /\ ClientSteps' \in Nat
  <1>1. Len(wire) \in Nat /\ TypeOK
    BY TypeFacts DEF Inv, ReadInv
  <1>2. MagicBytes \in Nat /\ MagicBytes > 0 /\ RestBytes \in Nat /\ RestBytes > 0
    BY SizeAssumption
  <1>3. ASSUME Failed("TcpError")
        PROVE  pc' = "disconnect"
    BY <1>3 DEF Failed, GivesUp
  <1> DEFINE x == Len(wire)
             y == Len(wire')
  <1>4. ASSUME y \in Nat, \/ y <= x /\ Stage' < Stage
                          \/ y < x /\ Stage' < Stage + 5
        PROVE  ClientSteps' < ClientSteps /\ ClientSteps' \in Nat
    <2> DEFINE a == Stage
               b == Stage'
    <2>1. a \in Nat /\ b \in Nat
      BY SMT DEF Stage
    <2>2. ClientSteps = 5 * x + a /\ ClientSteps' = 5 * y + b
      BY DEF ClientSteps
    <2>3. x \in Nat /\ y \in Nat /\ ((y <= x /\ b < a) \/ (y < x /\ b < a + 5))
      BY <1>1, <1>4
    <2> HIDE DEF x, y, a, b
    <2>4. 5 * y + b < 5 * x + a /\ 5 * y + b \in Nat
      BY <2>1, <2>3
    <2> QED
      BY <2>2, <2>4
  <1>5. CASE Connect \/ ConnectFails \/ SendVersion \/ Disconnect \/ LoopEnds \/ OnMsg
    <2>1. wire' = wire
      BY <1>5 DEF Connect, ConnectFails, SendVersion, Disconnect, LoopEnds, OnMsg, Send, Failed
    <2>2. \/ pc = "connect" /\ pc' \in {"header", "disconnect"}
          \/ pc = "header" /\ pc' \in {"payload", "disconnect", "killed"}
          \/ pc = "payload" /\ pc' \in {"loop", "disconnect", "killed"}
          \/ pc = "disconnect" /\ pc' = "done"
          \/ pc = "loop" /\ pc' = "disconnect"
          \/ pc = "on_msg" /\ pc' \in {"loop", "disconnect", "killed"}
      BY <1>5 DEF Connect, ConnectFails, SendVersion, Disconnect, LoopEnds, OnMsg, Send, Failed
    <2>3. Stage' < Stage
      BY <2>2, SMT DEF Stage
    <2>4. y \in Nat /\ y <= x
      BY <1>1, <2>1
    <2> QED
      BY <1>4, <2>3, <2>4
  <1>6. CASE RecvMagic
    <2>1. PICK k \in 0..MagicBytes :
            /\ Recv(MagicBytes, k)
            /\ IF k # MagicBytes THEN Failed("TcpError")
               ELSE IF ~MagicMatches(wire) THEN Failed("MagicMismatch")
               ELSE pc' = "rest" /\ UNCHANGED <<status, fails>>
      BY <1>6 DEF RecvMagic
    <2>2. y \in Nat /\ y <= x /\ (k = MagicBytes => y < x)
      BY <1>1, <1>2, <2>1, RecvShrinks
    <2>3. pc = "loop" /\ Stage = 2
      BY <1>6 DEF RecvMagic, Stage
    <2>4. CASE k # MagicBytes
      <3>1. pc' = "disconnect"
        BY <1>3, <2>1, <2>4
      <3>2. Stage' = 1
        BY <3>1 DEF Stage
      <3>3. y \in Nat /\ y <= x /\ Stage' < Stage
        BY <2>2, <2>3, <3>2
      <3> QED
        BY <1>4, <3>3
    <2>5. CASE k = MagicBytes
      <3>1. pc' \in {"rest", "loop", "disconnect"}
        BY <2>1, <2>5 DEF Failed
      <3>2. Stage' \in {5, 2, 1}
        BY <3>1, SMT DEF Stage
      <3>3. y \in Nat /\ y < x /\ Stage' < Stage + 5
        BY <2>2, <2>3, <2>5, <3>2
      <3> QED
        BY <1>4, <3>3
    <2> QED
      BY <2>4, <2>5
  <1>7. CASE RecvRest
    <2>1. PICK k \in 0..RestBytes :
            /\ Recv(RestBytes, k)
            /\ IF k # RestBytes
                 THEN Failed("TcpError") /\ hdr' = hdr
                 ELSE /\ hdr' = wire[1][1]
                      /\ pc' = IF DataBytes(hdr') > 0 THEN "data" ELSE "on_msg"
                      /\ UNCHANGED <<status, fails>>
      BY <1>7 DEF RecvRest
    <2>2. y \in Nat /\ y <= x
      BY <1>1, <1>2, <2>1, RecvShrinks
    <2>3. pc = "rest" /\ pc' \in {"data", "on_msg", "disconnect"}
      BY <1>3, <1>7, <2>1 DEF RecvRest
    <2>4. Stage' < Stage
      BY <2>3, SMT DEF Stage
    <2> QED
      BY <1>4, <2>2, <2>4
  <1>8. CASE RecvData
    <2>1. PICK k \in 0..DataBytes(hdr) :
            /\ Recv(DataBytes(hdr), k)
            /\ IF k # DataBytes(hdr) THEN Failed("TcpError")
               ELSE pc' = "on_msg" /\ UNCHANGED <<status, fails>>
      BY <1>8 DEF RecvData
    <2>2. DataBytes(hdr) \in Nat /\ DataBytes(hdr) > 0
      <3>1. pc = "data" /\ PlaceInv /\ sent \in Seq(Kinds)
        BY <1>8 DEF RecvData, Inv, ReadInv, TypeOK
      <3>2. DataBytes(hdr) > 0
        BY <3>1 DEF PlaceInv
      <3>3. hdr = Next1 /\ hdr \in 0..Len(sent)
        BY <1>1, <3>1 DEF PlaceInv, TypeOK
      <3>4. hdr \in 1..Len(sent)
        BY <1>1, <3>3, TypeFacts DEF Next1
      <3>5. sent[hdr] \in Kinds
        BY <3>1, <3>4
      <3> QED
        BY <3>2, <3>5, SizeNat DEF DataBytes
    <2>3. y \in Nat /\ y <= x
      BY <1>1, <2>1, <2>2, RecvShrinks
    <2>4. pc = "data" /\ pc' \in {"on_msg", "disconnect"}
      BY <1>3, <1>8, <2>1 DEF RecvData
    <2>5. Stage' < Stage
      BY <2>4, SMT DEF Stage
    <2> QED
      BY <1>4, <2>3, <2>5
  <1> QED
    BY <1>5, <1>6, <1>7, <1>8 DEF Client

(* The client cannot spin: whatever its calls return, also when recv gives *)
(* 0 at the end of the stream again and again, each of its steps takes one *)
(* of a number of steps that only a message of the peer adds to, five for  *)
(* each of its bytes (main_client.c:168-184).                              *)
THEOREM Progress ==
  Spec => [][Client \/ PeerCloses =>
               /\ ClientSteps' <= ClientSteps /\ ClientSteps' \in Nat
               /\ Client => ClientSteps' < ClientSteps]_vars
  <1>1. ASSUME Inv, Client
        PROVE  ClientSteps' <= ClientSteps /\ ClientSteps' < ClientSteps /\ ClientSteps' \in Nat
    <2>1. ClientSteps \in Nat
      BY <1>1, StepsNat DEF Inv, ReadInv
    <2>2. ClientSteps' < ClientSteps /\ ClientSteps' \in Nat
      BY <1>1, ClientFewer
    <2> QED
      BY <2>1, <2>2
  <1>2. ASSUME Inv, PeerCloses
        PROVE  ClientSteps' = ClientSteps /\ ClientSteps \in Nat
    BY <1>2, StepsNat DEF Inv, ReadInv, PeerCloses, ClientSteps, Stage
  <1>3. Inv /\ [Next]_vars =>
          [Client \/ PeerCloses =>
               /\ ClientSteps' <= ClientSteps /\ ClientSteps' \in Nat
               /\ Client => ClientSteps' < ClientSteps]_vars
    <2> SUFFICES ASSUME Inv, Client \/ PeerCloses
                 PROVE  /\ ClientSteps' <= ClientSteps /\ ClientSteps' \in Nat
                        /\ Client => ClientSteps' < ClientSteps
      OBVIOUS
    <2>1. CASE Client
      BY <1>1, <2>1
    <2>2. CASE ~ Client
      <3>1. ClientSteps' = ClientSteps /\ ClientSteps \in Nat
        BY <1>2, <2>2
      <3> QED
        BY <2>2, <3>1
    <2> QED
      BY <2>1, <2>2
  <1> QED
    BY <1>3, Invariance, PTL DEF Spec

(* A client that waits for a peer of its network has handled all messages  *)
(* that the peer sent: none is left lying, and no read is left half done.  *)
THEOREM CaughtUpHolds == Spec => []CaughtUp
  <1>1. Inv => CaughtUp
    <2> SUFFICES ASSUME Inv, ours, wire = <<>>, pc \in {"loop", "rest", "data"}
                 PROVE  pc = "loop" /\ Len(handled) = Len(sent)
      BY DEF CaughtUp
    <2>1. PlaceInv /\ Len(handled) \in Nat /\ Len(sent) \in Nat
          /\ MagicBytes \in Nat \ {0} /\ RestBytes \in Nat \ {0}
      BY TypeFacts DEF Inv, ReadInv
    <2>2. pc # "rest"
      <3>1. pc = "rest" => MagicBytes + 1 = 1
        BY <2>1 DEF PlaceInv, At, Place
      <3> QED
        BY <2>1, <3>1
    <2>3. pc # "data"
      <3>1. pc = "data" => MagicBytes + RestBytes + 1 = 1
        BY <2>1 DEF PlaceInv, At, Place
      <3> QED
        BY <2>1, <3>1
    <2>4. pc = "loop" /\ Next1 = Len(sent) + 1
      BY <2>1, <2>2, <2>3 DEF PlaceInv, At, Place
    <2> QED
      BY <2>1, <2>4 DEF Next1
  <1> QED
    BY <1>1, Invariance, PTL

=============================================================================
