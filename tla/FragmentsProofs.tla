--------------------------- MODULE FragmentsProofs ---------------------------
(***************************************************************************)
(* Proofs about Fragments, for every width of a byte, every buffer and     *)
(* every message: what a send that returns true leaves in the inbox.       *)
(*                                                                         *)
(* The argument is a position.  The bytes sent so far are those of the     *)
(* first k bytes of the body, in fragments numbered up to x, and p bytes   *)
(* of the fragment at hand: both ends follow from (k, x, p).  Either the   *)
(* inbox is at the position of the sender, or it has been left somewhere   *)
(* from which it refuses the first header to come.                         *)
(***************************************************************************)
EXTENDS Fragments, SequenceTheorems, TLAPS

Piece(m) == IF m.chunk = 0 THEN 1 ELSE m.chunk

(* The Fragmenter of m, k bytes and some fragments later. *)
FragmenterAt(m, k, x, done) ==
  [stream |-> m.stream, message |-> m.id, rest |-> SubSeq(m.body, k + 1, Len(m.body)),
   fragment |-> x, chunk |-> Piece(m), done |-> done]

(* The fragment of m that starts at its byte k + 1 and has number x. *)
TakeAt(m, k) == Least2(Piece(m), Len(m.body) - k)
HeaderAt(m, k, x) ==
  [stream |-> m.stream, message |-> m.id, fragment |-> x,
   last |-> k + TakeAt(m, k) = Len(m.body), len |-> TakeAt(m, k)]
BytesAt(m, k, x) == ToBytes(HeaderAt(m, k, x)) \o SubSeq(m.body, k + 1, k + TakeAt(m, k))
SizeAt(m, k) == HeaderLen + TakeAt(m, k)

-----------------------------------------------------------------------------
(* The state of the sender: between two fragments, or with p bytes of one  *)
(* delivered.                                                              *)
Between(k, x) ==
  frag = FragmenterAt(msg, k, x, FALSE) /\ queue = <<>> /\ link = <<>>

InFlight(k, x, p) ==
  LET b == BytesAt(msg, k, x)
      n == SizeAt(msg, k)
      k2 == k + TakeAt(msg, k)
  IN /\ frag = FragmenterAt(msg, k2, Next16(x), k2 = Len(msg.body))
     /\ \/ link = <<>> /\ queue = SubSeq(b, p + 1, n)
        \/ link = <<b[p + 1]>> /\ queue = SubSeq(b, p + 2, n)

(* The state of the inbox at the same place: waiting for a header, p bytes *)
(* of which it has, or inside a fragment.                                  *)
NameFits(d, m) == d.stream \in {-1, m.stream} /\ d.message \in {-1, m.id}

Waiting(d, m, k, x) ==
  /\ d.current = NoHeader /\ ~d.complete
  /\ d.expect_frag = x /\ NameFits(d, m)
  /\ k <= BufLen /\ d.buf = SubSeq(m.body, 1, k)

Inside(d, m, k, x, p) ==
  /\ d.hdr = <<>> /\ d.current = HeaderAt(m, k, x) /\ ~d.complete
  /\ d.chunk_got = p - HeaderLen
  /\ d.expect_frag = x /\ d.stream = m.stream /\ d.message = m.id
  /\ k + p - HeaderLen <= BufLen /\ d.buf = SubSeq(m.body, 1, k + p - HeaderLen)

InStep(d, m, k, x, p) ==
  IF p < HeaderLen THEN Waiting(d, m, k, x) /\ d.hdr = SubSeq(BytesAt(m, k, x), 1, p)
                   ELSE Inside(d, m, k, x, p)

Arrived ==
  /\ frag.done /\ queue = <<>> /\ link = <<>>
  /\ Holds(inbox, msg) /\ Len(msg.body) <= BufLen

Good ==
  \/ Arrived
  \/ \E k \in 0 .. Len(msg.body), x \in U16 :
       \/ Between(k, x) /\ Waiting(inbox, msg, k, x) /\ inbox.hdr = <<>>
       \/ \E p \in 0 .. SizeAt(msg, k) - 1 : InFlight(k, x, p) /\ InStep(inbox, msg, k, x, p)

(* An inbox that closed, or that holds the start of another message, does  *)
(* not take the first header.                                              *)
Refuses(d, m) ==
  d.complete \/ (d.current = NoHeader /\ (d.expect_frag # 0 \/ ~NameFits(d, m)))

Doomed ==
  /\ Refuses(inbox, msg)
  /\ \/ Between(0, 0) /\ inbox.hdr = <<>>
     \/ \E p \in 0 .. HeaderLen - 1 :
          InFlight(0, 0, p) /\ inbox.hdr = SubSeq(BytesAt(msg, 0, 0), 1, p)

-----------------------------------------------------------------------------
(* What holds of the inbox whatever bytes it is fed: a name is locked or   *)
(* nothing was taken yet, and header bytes are collected only between two  *)
(* fragments.                                                              *)
Header == [stream : U8, message : U16, fragment : U16, last : BOOLEAN, len : U8]

InboxType ==
  [buf : Seq(U8), hdr : Seq(U8), current : Header \cup {NoHeader}, chunk_got : Nat,
   expect_frag : U16, stream : U8 \cup {-1}, message : U16 \cup {-1}, complete : BOOLEAN]

InboxOK(d) ==
  /\ d \in InboxType
  /\ Len(d.hdr) < HeaderLen
  /\ d.complete => d.current = NoHeader
  /\ d.complete \/ d.current # NoHeader => d.hdr = <<>>
  /\ d.stream = -1 \/ d.message = -1 => d = [DefragNew EXCEPT !.hdr = d.hdr]

FragOK ==
  \E k \in 0 .. Len(msg.body), x \in U16, done \in BOOLEAN : frag = FragmenterAt(msg, k, x, done)

FragmentsType ==
  /\ FragOK
  /\ msg \in Messages /\ link \in Seq(U8) /\ queue \in Seq(U8) /\ InboxOK(inbox)
  /\ alone \in BOOLEAN /\ cut \in BOOLEAN /\ mixed \in BOOLEAN

FragmentsInv ==
  /\ FragmentsType
  /\ alone => ~mixed
  /\ ret = "sending" /\ ~mixed => Good \/ (Doomed /\ ~alone)
  /\ Rebuilt /\ NeverMixed

-----------------------------------------------------------------------------
(* Arithmetic of bytes. *)

LEMMA DivModRadix ==
  ASSUME NEW a \in Nat
  PROVE  /\ a % Radix \in U8 /\ a \div Radix \in Int
         /\ a = Radix * (a \div Radix) + (a % Radix)
BY FragmentsAssumption DEF U8

LEMMA Squared ==
  Radix * Radix \in Nat /\ Radix * Radix >= 1
BY FragmentsAssumption

LEMMA Wraps ==
  ASSUME NEW x \in U16
  PROVE  Next16(x) \in U16
<1> DEFINE r == Radix * Radix
<1>1. r \in Nat /\ r >= 1 /\ x \in Nat
  BY Squared DEF U16
<1>2. (x + 1) % r \in 0 .. r - 1
  <2> HIDE DEF r
  <2> QED BY <1>1
<1> QED BY <1>2 DEF Next16, U16

(* A u16 is two bytes, and is put together from them again. *)
LEMMA HalvesOf ==
  ASSUME NEW a \in U16
  PROVE  /\ a \div Radix \in U8 /\ a % Radix \in U8
         /\ (a \div Radix) * Radix + (a % Radix) = a
<1> DEFINE q == a \div Radix
           r == a % Radix
<1>1. a \in Nat /\ a < Radix * Radix /\ Radix \in Nat /\ Radix >= 2
  BY Squared, FragmentsAssumption DEF U16
<1>2. r \in U8 /\ q \in Int /\ a = Radix * q + r
  BY <1>1, DivModRadix
<1> HIDE DEF q, r
<1>3. r \in 0 .. Radix - 1
  BY <1>2 DEF U8
<1>4. q >= 0
  <2> SUFFICES ASSUME q <= -1 PROVE FALSE
    BY <1>2
  <2>1. Radix * q <= -Radix
    BY <1>1, <1>2
  <2> QED BY <1>1, <1>2, <1>3, <2>1
<1>5. q < Radix
  <2> SUFFICES ASSUME q >= Radix PROVE FALSE
    BY <1>1, <1>2
  <2>1. Radix * q >= Radix * Radix
    BY <1>1, <1>2
  <2> QED BY <1>1, <1>2, <1>3, <2>1
<1>6. q * Radix + r = a
  BY <1>1, <1>2, <1>3
<1> QED BY <1>1, <1>2, <1>4, <1>5, <1>6 DEF q, r, U8

LEMMA JoinsTo ==
  ASSUME NEW a \in U8, NEW b \in U8
  PROVE  a * Radix + b \in U16
<1>1. Radix \in Nat /\ Radix >= 2 /\ a \in 0 .. Radix - 1 /\ b \in 0 .. Radix - 1
  BY FragmentsAssumption DEF U8
<1>2. a * Radix \in Nat /\ a * Radix <= (Radix - 1) * Radix
  BY <1>1
<1>3. (Radix - 1) * Radix = Radix * Radix - Radix
  BY <1>1
<1> QED BY <1>1, <1>2, <1>3 DEF U16

(* MessageHeader::from_bytes undoes to_bytes, and accepts its flags. *)
LEMMA HeaderRoundTrip ==
  ASSUME NEW h \in Header
  PROVE  /\ ToBytes(h) \in Seq(U8) /\ Len(ToBytes(h)) = HeaderLen
         /\ FlagsOk(ToBytes(h)) /\ FromBytes(ToBytes(h)) = h
<1> DEFINE b == ToBytes(h)
           f == IF h.last THEN 1 ELSE 0
<1>1. /\ h.stream \in U8 /\ h.message \in U16 /\ h.fragment \in U16
      /\ h.last \in BOOLEAN /\ h.len \in U8
  BY DEF Header
<1>2. f \in U8 /\ f \in {0, 1} /\ (f = 1) = h.last
  BY <1>1, FragmentsAssumption DEF U8
<1>3. /\ h.message \div Radix \in U8 /\ h.message % Radix \in U8
      /\ (h.message \div Radix) * Radix + (h.message % Radix) = h.message
  BY <1>1, HalvesOf
<1>4. /\ h.fragment \div Radix \in U8 /\ h.fragment % Radix \in U8
      /\ (h.fragment \div Radix) * Radix + (h.fragment % Radix) = h.fragment
  BY <1>1, HalvesOf
<1>5. b = <<h.stream, h.message \div Radix, h.message % Radix,
            h.fragment \div Radix, h.fragment % Radix, f, h.len>>
  BY DEF ToBytes
<1> HIDE DEF b, f
<1>6. b \in Seq(U8) /\ Len(b) = HeaderLen
  BY <1>1, <1>2, <1>3, <1>4, <1>5 DEF HeaderLen
<1>7. /\ b[1] = h.stream /\ b[2] * Radix + b[3] = h.message
      /\ b[4] * Radix + b[5] = h.fragment /\ b[6] = f /\ b[7] = h.len
  BY <1>3, <1>4, <1>5
<1>8. FlagsOk(b)
  BY <1>2, <1>7 DEF FlagsOk
<1>9. FromBytes(b) = h
  <2>1. FromBytes(b) = [stream |-> h.stream, message |-> h.message,
                        fragment |-> h.fragment, last |-> h.last, len |-> h.len]
    BY <1>2, <1>7 DEF FromBytes
  <2> QED BY <2>1 DEF Header
<1> QED BY <1>6, <1>8, <1>9 DEF b

(* The header read from any seven bytes with good flags. *)
LEMMA HeaderType ==
  ASSUME NEW b \in Seq(U8), Len(b) = HeaderLen
  PROVE  FromBytes(b) \in Header
<1>1. \A i \in 1 .. 7 : b[i] \in U8
  BY ElementOfSeq DEF HeaderLen
<1>2. b[2] * Radix + b[3] \in U16 /\ b[4] * Radix + b[5] \in U16
  BY <1>1, JoinsTo
<1> QED BY <1>1, <1>2 DEF FromBytes, Header

LEMMA HeaderIsOne ==
  ASSUME NEW h \in Header
  PROVE  h # NoHeader
BY FragmentsAssumption DEF Header, NoHeader, U8

-----------------------------------------------------------------------------
(* The fragments of a message. *)

LEMMA MessageFields ==
  ASSUME NEW m \in Messages
  PROVE  /\ m.stream \in U8 /\ m.id \in U16 /\ m.body \in Seq(U8) /\ Len(m.body) \in Nat
         /\ Piece(m) \in U8 /\ Piece(m) >= 1
<1>1. PICK s \in Streams, i \in Ids, n \in Lengths, c \in Chunks :
        m = [stream |-> s, id |-> i, body |-> Body(n), chunk |-> c]
  BY DEF Messages
<1>2. n \in Nat /\ s \in U8 /\ i \in U16 /\ c \in U8
  BY FragmentsAssumption
<1>3. \A j \in 1 .. n : j % Radix \in U8
  BY <1>2, DivModRadix
<1>4. Body(n) \in Seq(U8)
  BY <1>2, <1>3 DEF Body
<1>5. m.stream = s /\ m.id = i /\ m.body = Body(n) /\ m.chunk = c
  BY <1>1
<1>6. Piece(m) \in U8 /\ Piece(m) >= 1
  BY <1>2, <1>5, FragmentsAssumption DEF Piece, U8
<1> QED BY <1>2, <1>4, <1>5, <1>6

LEMMA TakeFields ==
  ASSUME NEW m \in Messages, NEW k \in 0 .. Len(m.body)
  PROVE  /\ TakeAt(m, k) \in U8 /\ TakeAt(m, k) \in Nat
         /\ k + TakeAt(m, k) \in 0 .. Len(m.body)
         /\ TakeAt(m, k) = 0 => k = Len(m.body)
         /\ SizeAt(m, k) \in Nat /\ SizeAt(m, k) >= HeaderLen
BY MessageFields, FragmentsAssumption, SMTT(30) DEF TakeAt, SizeAt, HeaderLen, Least2, U8

LEMMA HeaderAtType ==
  ASSUME NEW m \in Messages, NEW k \in 0 .. Len(m.body), NEW x \in U16
  PROVE  HeaderAt(m, k, x) \in Header
BY MessageFields, TakeFields DEF HeaderAt, Header

(* The bytes of a fragment: its header, and its part of the body. *)
LEMMA BytesFields ==
  ASSUME NEW m \in Messages, NEW k \in 0 .. Len(m.body), NEW x \in U16,
         NEW b, b = BytesAt(m, k, x)
  PROVE  /\ b \in Seq(U8) /\ Len(b) = SizeAt(m, k)
         /\ SubSeq(b, 1, HeaderLen) = ToBytes(HeaderAt(m, k, x))
         /\ \A i \in HeaderLen + 1 .. SizeAt(m, k) : b[i] = m.body[k + i - HeaderLen]
<1> DEFINE h == ToBytes(HeaderAt(m, k, x))
           t == TakeAt(m, k)
           c == SubSeq(m.body, k + 1, k + t)
<1>1. h \in Seq(U8) /\ Len(h) = HeaderLen
  BY HeaderAtType, HeaderRoundTrip
<1>2. t \in Nat /\ k \in Nat /\ k + t <= Len(m.body) /\ m.body \in Seq(U8)
  BY TakeFields, MessageFields
<1>3. b = h \o c
  BY DEF BytesAt
<1> HIDE DEF h, t
<1>4. \A i \in k + 1 .. k + t : m.body[i] \in U8
  BY <1>2, ElementOfSeq
<1>5. /\ c \in Seq(U8) /\ Len(c) = t
      /\ \A i \in 1 .. t : c[i] = m.body[k + i]
  <2>1. k + 1 \in Int /\ k + t \in Int
    BY <1>2
  <2>2. /\ c \in Seq(U8)
        /\ Len(c) = IF k + 1 <= k + t THEN (k + t) - (k + 1) + 1 ELSE 0
        /\ \A i \in 1 .. (k + t) - (k + 1) + 1 : c[i] = m.body[(k + 1) + i - 1]
    BY <1>4, <2>1, SubSeqProperties
  <2>3. (k + t) - (k + 1) + 1 = t /\ \A i \in 1 .. t : (k + 1) + i - 1 = k + i
    BY <1>2
  <2> HIDE DEF c
  <2> QED BY <1>2, <2>2, <2>3
<1> HIDE DEF c
<1>6. /\ b \in Seq(U8) /\ Len(b) = HeaderLen + t
      /\ \A i \in 1 .. HeaderLen + t : b[i] = IF i <= HeaderLen THEN h[i] ELSE c[i - HeaderLen]
  <2>1. /\ h \o c \in Seq(U8) /\ Len(h \o c) = Len(h) + Len(c)
        /\ \A i \in 1 .. Len(h) + Len(c) :
             (h \o c)[i] = IF i <= Len(h) THEN h[i] ELSE c[i - Len(h)]
    BY <1>1, <1>5, ConcatProperties
  <2> QED BY <1>1, <1>3, <1>5, <2>1
<1>7. SubSeq(b, 1, HeaderLen) = h
  <2>1. 1 \in 1 .. Len(h) /\ HeaderLen \in 1 .. Len(h)
    BY <1>1 DEF HeaderLen
  <2>2. SubSeq(b, 1, HeaderLen) = SubSeq(h, 1, HeaderLen)
    BY <1>1, <1>3, <1>5, <2>1, SubSeqOfConcat1
  <2> QED BY <1>1, <2>2, SubSeqFull
<1>8. \A i \in HeaderLen + 1 .. HeaderLen + t : b[i] = m.body[k + i - HeaderLen]
  <2> SUFFICES ASSUME NEW i \in HeaderLen + 1 .. HeaderLen + t
               PROVE  b[i] = m.body[k + i - HeaderLen]
    OBVIOUS
  <2>1. i - HeaderLen \in 1 .. t /\ i \in 1 .. HeaderLen + t /\ ~(i <= HeaderLen)
    BY <1>2 DEF HeaderLen
  <2>2. b[i] = c[i - HeaderLen]
    BY <1>6, <2>1
  <2>3. c[i - HeaderLen] = m.body[k + (i - HeaderLen)]
    BY <1>5, <2>1
  <2>4. k + (i - HeaderLen) = k + i - HeaderLen
    BY <1>2, <2>1 DEF HeaderLen
  <2> QED BY <2>2, <2>3, <2>4
<1> QED BY <1>6, <1>7, <1>8 DEF SizeAt, h, t

LEMMA SubSub ==
  ASSUME NEW S, NEW s \in Seq(S), NEW i \in 1 .. Len(s), NEW j \in 1 .. Len(s),
         NEW a \in 1 .. j - i + 1, NEW b \in 1 .. j - i + 1,
         NEW c, c = i + a - 1, NEW d, d = i + b - 1
  PROVE  SubSeq(SubSeq(s, i, j), a, b) = SubSeq(s, c, d)
BY SubSeqOfSubSeq

LEMMA PairFields ==
  ASSUME NEW f, NEW b, NEW n, n = [frag |-> f, bytes |-> b]
  PROVE  n.frag = f /\ n.bytes = b
OBVIOUS

(* next_fragment moves the Fragmenter on by one fragment. *)
LEMMA NextFragmentAt ==
  ASSUME NEW m \in Messages, NEW k \in 0 .. Len(m.body), NEW x \in U16,
         NEW k2, k2 = k + TakeAt(m, k), NEW n, n = NextFragment(FragmenterAt(m, k, x, FALSE))
  PROVE  /\ n.frag = FragmenterAt(m, k2, Next16(x), k2 = Len(m.body))
         /\ n.bytes = BytesAt(m, k, x)
<1> DEFINE l == Len(m.body)
           g == FragmenterAt(m, k, x, FALSE)
           r == SubSeq(m.body, k + 1, l)
           t == TakeAt(m, k)
           r2 == SubSeq(r, t + 1, Len(r))
<1>1. /\ m.body \in Seq(U8) /\ l \in Nat /\ k \in 0 .. l /\ t \in Nat /\ k + t \in 0 .. l
      /\ t = 0 => k = l
  BY MessageFields, TakeFields
<1>2. /\ g.stream = m.stream /\ g.message = m.id /\ g.rest = r /\ g.fragment = x
      /\ g.chunk = Piece(m) /\ g.done = FALSE
  BY DEF FragmenterAt
<1>3. /\ r \in Seq(U8) /\ Len(r) = l - k
      /\ \A i \in 1 .. l - k : r[i] = m.body[k + i]
  <2> HIDE DEF l
  <2>1. \A i \in k + 1 .. l : m.body[i] \in U8
    BY <1>1, ElementOfSeq DEF l
  <2> DEFINE j == k + 1
  <2>2. j \in Int /\ l \in Int /\ j = k + 1
    BY <1>1
  <2> HIDE DEF j
  <2>3. /\ SubSeq(m.body, j, l) \in Seq(U8)
        /\ Len(SubSeq(m.body, j, l)) = IF j <= l THEN l - j + 1 ELSE 0
        /\ \A i \in 1 .. l - j + 1 : SubSeq(m.body, j, l)[i] = m.body[j + i - 1]
    BY <2>1, <2>2, SubSeqProperties
  <2>4. r = SubSeq(m.body, j, l)
    BY <2>2
  <2>5. l - j + 1 = l - k /\ (IF j <= l THEN l - j + 1 ELSE 0) = l - k
        /\ \A i \in 1 .. l - k : j + i - 1 = k + i
    BY <1>1, <2>2
  <2> HIDE DEF r
  <2> QED BY <2>3, <2>4, <2>5
<1>4. t = Least2(g.chunk, Len(g.rest))
  BY <1>2, <1>3 DEF TakeAt
<1>5. r2 = SubSeq(m.body, k2 + 1, l)
  <2>1. CASE k + t = l
    <3>1. r2 = <<>>
      <4>1. t + 1 \in Int /\ Len(r) \in Int /\ Len(r) < t + 1
        BY <1>1, <1>3, <2>1
      <4> QED BY <4>1, SubSeqEmpty
    <3>2. k2 + 1 \in Int /\ l \in Int /\ l < k2 + 1
      BY <1>1, <2>1
    <3>3. SubSeq(m.body, k2 + 1, l) = <<>>
      BY <3>2, SubSeqEmpty
    <3> QED BY <3>1, <3>3
  <2>2. CASE k + t # l
    <3> HIDE DEF t, l, r
    <3>1. /\ k + 1 \in 1 .. l /\ l \in 1 .. l
          /\ t + 1 \in 1 .. l - (k + 1) + 1 /\ l - k \in 1 .. l - (k + 1) + 1
      BY <1>1, <2>2
    <3> DEFINE i == k + 1
               a == t + 1
               b == l - k
               c == k2 + 1
    <3>2. /\ i \in 1 .. Len(m.body) /\ l \in 1 .. Len(m.body)
          /\ a \in 1 .. l - i + 1 /\ b \in 1 .. l - i + 1
          /\ c = i + a - 1 /\ l = i + b - 1
      <4>1. l = Len(m.body) /\ k2 = k + t
        BY DEF l, t
      <4>2. k \in Int /\ l \in Int /\ t \in Int /\ k2 \in Int
        BY <1>1, <4>1
      <4>3. c = i + a - 1
        BY <4>1, <4>2
      <4>6. l = i + b - 1
        BY <4>2
      <4>4. i \in 1 .. Len(m.body) /\ l \in 1 .. Len(m.body)
        BY <3>1, <4>1
      <4>5. a \in 1 .. l - i + 1 /\ b \in 1 .. l - i + 1
        BY <3>1
      <4> QED BY <4>3, <4>4, <4>5, <4>6
    <3> HIDE DEF i, a, b, c
    <3>3. SubSeq(SubSeq(m.body, i, l), a, b) = SubSeq(m.body, c, l)
      BY <1>1, <3>2, SubSub
    <3> QED BY <1>3, <3>3 DEF r, i, a, b, c
  <2> QED BY <2>1, <2>2
<1>6. (r2 = <<>>) = (k2 = l)
  <2>1. CASE k2 = l
    BY <1>1, <1>5, <2>1, SubSeqEmpty, SMTT(30)
  <2>2. CASE k2 # l
    <3>1. k2 + 1 \in Int /\ k2 + 1 <= l /\ l \in Int /\ k2 \in Nat
      BY <1>1, <2>2
    <3>2. \A i \in k2 + 1 .. l : m.body[i] \in U8
      BY <1>1, <3>1, ElementOfSeq
    <3>3. Len(SubSeq(m.body, k2 + 1, l)) = l - (k2 + 1) + 1
      BY <3>1, <3>2, SubSeqProperties
    <3> HIDE DEF r2, l
    <3>4. Len(r2) # 0
      BY <1>5, <3>1, <3>3
    <3> QED BY <2>2, <3>4
  <2> QED BY <2>1, <2>2
<1>7. SubSeq(r, 1, t) = SubSeq(m.body, k + 1, k + t)
  <2>1. CASE t = 0
    BY <1>1, <2>1, SubSeqEmpty
  <2>2. CASE t # 0
    <3> HIDE DEF t, l
    <3>1. /\ k + 1 \in 1 .. l /\ l \in 1 .. l
          /\ 1 \in 1 .. l - (k + 1) + 1 /\ t \in 1 .. l - (k + 1) + 1
      BY <1>1, <2>2
    <3> DEFINE i == k + 1
               d == k + t
    <3>2. /\ i \in 1 .. Len(m.body) /\ l \in 1 .. Len(m.body)
          /\ 1 \in 1 .. l - i + 1 /\ t \in 1 .. l - i + 1
          /\ i = i + 1 - 1 /\ d = i + t - 1
      BY <1>1, <3>1 DEF l
    <3> HIDE DEF i, d
    <3>3. SubSeq(SubSeq(m.body, i, l), 1, t) = SubSeq(m.body, i, d)
      BY <1>1, <3>2, SubSub
    <3> QED BY <3>3 DEF i, d
  <2> QED BY <2>1, <2>2
<1> DEFINE h == [stream |-> g.stream, message |-> g.message,
                 fragment |-> g.fragment, last |-> r2 = <<>>, len |-> t]
           f == [g EXCEPT !.rest = r2, !.done = (r2 = <<>>), !.fragment = Next16(g.fragment)]
           b == ToBytes(h) \o SubSeq(r, 1, t)
<1>8. n.frag = f /\ n.bytes = b
  <2>1. n = [frag |-> f, bytes |-> b]
    <3> HIDE DEF g, t, r
    <3> QED BY <1>2, <1>4, Zenon DEF NextFragment, g
  <2> HIDE DEF f, b
  <2> QED BY <2>1, PairFields, ZenonT(40)
<1>9. h = HeaderAt(m, k, x)
  <2> HIDE DEF g, r2, t
  <2> QED BY <1>2, <1>6 DEF HeaderAt, t
<1>10. n.bytes = BytesAt(m, k, x)
  <2> HIDE DEF h, g, r, r2
  <2> QED BY <1>7, <1>8, <1>9, Zenon DEF BytesAt
<1>11. n.frag = FragmenterAt(m, k2, Next16(x), k2 = l)
  <2>2. n.frag = [FragmenterAt(m, k, x, FALSE) EXCEPT !.rest = SubSeq(m.body, k2 + 1, l),
                    !.done = (k2 = l), !.fragment = Next16(x)]
    <3> HIDE DEF r2
    <3> QED BY <1>2, <1>5, <1>6, <1>8
  <2> QED BY <2>2 DEF FragmenterAt
<1> QED BY <1>10, <1>11

-----------------------------------------------------------------------------
(* Push keeps the inbox in order, whatever byte it is given. *)

HdrWith(d, byte) == Append(d.hdr, byte)
Cleared(d) == [d EXCEPT !.hdr = <<>>]
Collected(d, hdr) == [d EXCEPT !.hdr = hdr]
Stored(d, byte) == [d EXCEPT !.buf = Append(@, byte), !.chunk_got = @ + 1]

LEMMA FinishTyped ==
  ASSUME NEW d \in InboxType, d.current \in Header, d.hdr = <<>>,
         d.stream # -1, d.message # -1, NEW e, e = FinishChunk(d)
  PROVE  InboxOK(e.d) /\ e.ret \in {"more", "whole"}
<1>1. Next16(d.expect_frag) \in U16
  BY Wraps DEF InboxType
<1>2. CASE d.current.last
  <2>1. e.d = [d EXCEPT !.current = NoHeader, !.complete = TRUE] /\ e.ret = "whole"
    BY <1>2 DEF FinishChunk
  <2>2. /\ e.d \in InboxType /\ e.d.hdr = <<>> /\ e.d.current = NoHeader
        /\ e.d.stream # -1 /\ e.d.message # -1
    BY <2>1 DEF InboxType
  <2> QED BY <2>1, <2>2 DEF InboxOK, HeaderLen
<1>3. CASE ~d.current.last
  <2>1. /\ e.d = [d EXCEPT !.current = NoHeader, !.expect_frag = Next16(@)]
        /\ e.ret = "more"
    BY <1>3 DEF FinishChunk
  <2>2. /\ e.d \in InboxType /\ e.d.hdr = <<>> /\ e.d.current = NoHeader
        /\ e.d.stream # -1 /\ e.d.message # -1
    BY <1>1, <2>1 DEF InboxType
  <2> QED BY <2>1, <2>2 DEF InboxOK, HeaderLen
<1> QED BY <1>2, <1>3

LEMMA TakeTyped ==
  ASSUME NEW d, InboxOK(d), d.hdr = <<>>, d.current = NoHeader, ~d.complete, NEW h \in Header,
         NEW e, e = TakeHeader(d, h)
  PROVE  InboxOK(e.d) /\ e.ret \in {"more", "whole", "OutOfOrder"}
<1> DEFINE c == [d EXCEPT !.stream = h.stream, !.message = h.message,
                          !.current = h, !.chunk_got = 0]
<1>1. /\ c \in InboxType /\ c.current = h /\ c.current \in Header /\ c.hdr = <<>>
      /\ c.stream # -1 /\ c.message # -1 /\ ~c.complete
  <2>1. h.stream \in U8 /\ h.message \in U16 /\ h.stream # -1 /\ h.message # -1
    BY Squared, FragmentsAssumption DEF Header, U8, U16
  <2>2. d \in InboxType
    BY DEF InboxOK
  <2>3. c \in InboxType
    BY <2>1, <2>2 DEF InboxType
  <2>4. /\ c.current = h /\ c.hdr = d.hdr /\ c.stream = h.stream /\ c.message = h.message
        /\ c.complete = d.complete
    BY <2>2 DEF InboxType
  <2> HIDE DEF c
  <2> QED BY <2>1, <2>3, <2>4
<1>2. \/ e = Rejected(d, "OutOfOrder")
      \/ e = FinishChunk(c)
      \/ e = [d |-> c, ret |-> "more"]
  BY DEF TakeHeader
<1> HIDE DEF c
<1>3. CASE e = Rejected(d, "OutOfOrder")
  BY <1>3 DEF Rejected
<1>4. CASE e = FinishChunk(c)
  BY <1>1, <1>4, FinishTyped
<1>5. CASE e = [d |-> c, ret |-> "more"]
  <2>1. e.d = c /\ e.ret = "more"
    BY <1>5
  <2> QED BY <1>1, <2>1 DEF InboxOK, HeaderLen
<1> QED BY <1>2, <1>3, <1>4, <1>5

(* The byte that is pushed when a header is awaited. *)
LEMMA PushHeaderParts ==
  ASSUME NEW d, InboxOK(d), d.current = NoHeader, ~d.complete, NEW byte \in U8,
         NEW hdr, hdr = HdrWith(d, byte), NEW c, c = Cleared(d),
         NEW e, e = Push(d, byte)
  PROVE  /\ hdr \in Seq(U8) /\ Len(hdr) = Len(d.hdr) + 1 /\ Len(hdr) <= HeaderLen
         /\ InboxOK(c) /\ c.hdr = <<>> /\ c.current = NoHeader /\ ~c.complete
         /\ Len(hdr) < HeaderLen => e.d = Collected(d, hdr) /\ e.ret = "more"
         /\ Len(hdr) = HeaderLen /\ ~FlagsOk(hdr) => e.d = c /\ e.ret = "Header"
         /\ Len(hdr) = HeaderLen /\ FlagsOk(hdr) => e = TakeHeader(c, FromBytes(hdr))
<1>1. d.hdr \in Seq(U8) /\ Len(d.hdr) \in Nat /\ Len(d.hdr) < HeaderLen
  BY DEF InboxOK, InboxType
<1>2. hdr \in Seq(U8) /\ Len(hdr) = Len(d.hdr) + 1 /\ Len(hdr) <= HeaderLen
  BY <1>1, AppendProperties DEF HeaderLen, HdrWith
<1>3. InboxOK(c) /\ c.hdr = <<>> /\ c.current = NoHeader /\ ~c.complete
  <2>1. /\ c \in InboxType /\ c.hdr = <<>> /\ c.current = NoHeader /\ ~c.complete
        /\ c.stream = d.stream /\ c.message = d.message
    <3>1. d \in InboxType /\ <<>> \in Seq(U8)
      BY DEF InboxOK
    <3>2. c \in InboxType
      BY <3>1 DEF InboxType, Cleared
    <3>3. /\ c.hdr = <<>> /\ c.current = d.current /\ c.complete = d.complete
          /\ c.stream = d.stream /\ c.message = d.message
      BY <3>1 DEF InboxType, Cleared
    <3> QED BY <3>2, <3>3
  <2>2. ASSUME c.stream = -1 \/ c.message = -1
        PROVE  c = [DefragNew EXCEPT !.hdr = c.hdr]
    <3>1. d = [DefragNew EXCEPT !.hdr = d.hdr]
      BY <2>1, <2>2 DEF InboxOK
    <3> QED BY <2>1, <3>1 DEF DefragNew, Cleared
  <2> QED BY <2>1, <2>2 DEF InboxOK, HeaderLen
<1>4. e = PushHeader(d, byte)
  BY DEF Push
<1>5. CASE Len(hdr) < HeaderLen
  <2>1. e = [d |-> Collected(d, hdr), ret |-> "more"]
    BY <1>4, <1>5 DEF PushHeader, Collected, HdrWith
  <2>2. e.d = Collected(d, hdr) /\ e.ret = "more"
    BY <2>1
  <2> QED BY <1>2, <1>3, <1>5, <2>2
<1>6. CASE Len(hdr) = HeaderLen /\ ~FlagsOk(hdr)
  <2>1. e = Rejected(c, "Header")
    BY <1>4, <1>6 DEF PushHeader, Cleared, HdrWith, HeaderLen
  <2>2. e.d = c /\ e.ret = "Header"
    BY <2>1 DEF Rejected
  <2> QED BY <1>2, <1>3, <1>6, <2>2
<1>7. CASE Len(hdr) = HeaderLen /\ FlagsOk(hdr)
  <2>1. e = TakeHeader(c, FromBytes(hdr))
    BY <1>4, <1>7 DEF PushHeader, Cleared, HdrWith, HeaderLen
  <2> QED BY <1>2, <1>3, <1>7, <2>1
<1> QED BY <1>1, <1>2, <1>3, <1>5, <1>6, <1>7 DEF HeaderLen

(* The byte that is pushed inside a fragment. *)
LEMMA PushBodyParts ==
  ASSUME NEW d, InboxOK(d), d.current # NoHeader, NEW byte \in U8,
         NEW c, c = Stored(d, byte),
         NEW e, e = Push(d, byte)
  PROVE  /\ ~d.complete /\ d.current \in Header
         /\ c \in InboxType /\ c.current = d.current /\ c.hdr = <<>> /\ ~c.complete
         /\ c.stream # -1 /\ c.message # -1 /\ c.stream = d.stream /\ c.message = d.message
         /\ c.buf = Append(d.buf, byte) /\ c.chunk_got = d.chunk_got + 1
         /\ c.expect_frag = d.expect_frag
         /\ Len(d.buf) >= BufLen => e.d = d /\ e.ret = "Overflow"
         /\ Len(d.buf) < BufLen /\ d.chunk_got + 1 >= d.current.len => e = FinishChunk(c)
         /\ Len(d.buf) < BufLen /\ d.chunk_got + 1 < d.current.len => e.d = c /\ e.ret = "more"
<1>1. /\ d.buf \in Seq(U8) /\ d.chunk_got \in Nat /\ d.current \in Header /\ ~d.complete
      /\ d.current.len \in U8 /\ d \in InboxType /\ d.hdr = <<>>
  BY DEF InboxOK, InboxType, Header
<1>2. Append(d.buf, byte) \in Seq(U8)
  BY <1>1, AppendProperties
<1>3. d.stream # -1 /\ d.message # -1
  BY DEF InboxOK, DefragNew
<1>4. /\ c \in InboxType /\ c.current = d.current /\ c.hdr = <<>> /\ ~c.complete
      /\ c.stream = d.stream /\ c.message = d.message
      /\ c.buf = Append(d.buf, byte) /\ c.chunk_got = d.chunk_got + 1
      /\ c.expect_frag = d.expect_frag
  <2> DEFINE b == Append(d.buf, byte)
             g == d.chunk_got + 1
  <2>1. c \in InboxType
    <3>1. b \in Seq(U8) /\ g \in Nat /\ c = [d EXCEPT !.buf = b, !.chunk_got = g]
      BY <1>1, <1>2 DEF Stored
    <3> HIDE DEF b, g
    <3> QED BY <1>1, <3>1 DEF InboxType
  <2>2. /\ c.current = d.current /\ c.hdr = d.hdr /\ c.complete = d.complete
        /\ c.stream = d.stream /\ c.message = d.message
        /\ c.buf = Append(d.buf, byte) /\ c.chunk_got = d.chunk_got + 1
        /\ c.expect_frag = d.expect_frag
    BY <1>1 DEF InboxType, Stored
  <2> QED BY <1>1, <2>1, <2>2
<1>5. Len(d.buf) \in Nat /\ BufLen \in Nat /\ d.current.len \in Int
  BY <1>1, FragmentsAssumption DEF U8
<1>6. ASSUME Len(d.buf) >= BufLen
      PROVE  e.d = d /\ e.ret = "Overflow"
  <2>1. e = Rejected(d, "Overflow")
    BY <1>1, <1>6 DEF Push
  <2> QED BY <2>1 DEF Rejected
<1>7. ASSUME Len(d.buf) < BufLen, d.chunk_got + 1 >= d.current.len
      PROVE  e = FinishChunk(c)
  <2>1. ~(Len(d.buf) >= BufLen) /\ c.chunk_got >= d.current.len
    BY <1>4, <1>5, <1>7
  <2> QED BY <1>1, <2>1 DEF Push, Stored
<1>8. ASSUME Len(d.buf) < BufLen, d.chunk_got + 1 < d.current.len
      PROVE  e.d = c /\ e.ret = "more"
  <2>1. ~(Len(d.buf) >= BufLen) /\ ~(c.chunk_got >= d.current.len)
    BY <1>1, <1>4, <1>5, <1>8
  <2>2. e = [d |-> c, ret |-> "more"]
    BY <1>1, <2>1 DEF Push, Stored
  <2> QED BY <2>2
<1> QED BY <1>1, <1>3, <1>4, <1>6, <1>7, <1>8

LEMMA PushTyped ==
  ASSUME NEW d, InboxOK(d), NEW byte \in U8, NEW e, e = Push(d, byte)
  PROVE  InboxOK(e.d) /\ e.ret \in {"more", "whole", "Closed", "Header", "OutOfOrder", "Overflow"}
<1>1. CASE d.complete
  <2>1. e = Rejected(d, "Closed")
    BY <1>1 DEF Push
  <2> QED BY <2>1 DEF Rejected
<1>2. CASE ~d.complete /\ d.current = NoHeader
  <2> DEFINE hdr == HdrWith(d, byte)
             c == Cleared(d)
  <2>5. hdr = HdrWith(d, byte) /\ c = Cleared(d)
    OBVIOUS
  <2> HIDE DEF hdr, c
  <2>1. /\ hdr \in Seq(U8) /\ Len(hdr) = Len(d.hdr) + 1 /\ Len(hdr) <= HeaderLen
        /\ InboxOK(c) /\ c.hdr = <<>> /\ c.current = NoHeader /\ ~c.complete
        /\ Len(hdr) < HeaderLen => e.d = Collected(d, hdr) /\ e.ret = "more"
        /\ Len(hdr) = HeaderLen /\ ~FlagsOk(hdr) => e.d = c /\ e.ret = "Header"
        /\ Len(hdr) = HeaderLen /\ FlagsOk(hdr) => e = TakeHeader(c, FromBytes(hdr))
    BY <1>2, <2>5, PushHeaderParts
  <2>2. CASE Len(hdr) < HeaderLen
    <3> DEFINE d2 == Collected(d, hdr)
    <3>1. /\ d2 \in InboxType /\ d2.hdr = hdr /\ d2.current = NoHeader /\ ~d2.complete
          /\ d2.stream = d.stream /\ d2.message = d.message
      BY <1>2, <2>1 DEF InboxOK, InboxType, Collected
    <3>2. ASSUME d.stream = -1 \/ d.message = -1
          PROVE  d2 = [DefragNew EXCEPT !.hdr = d2.hdr]
      <4>1. d = [DefragNew EXCEPT !.hdr = d.hdr]
        BY <3>2 DEF InboxOK
      <4> QED BY <3>1, <4>1 DEF DefragNew, Collected
    <3>3. e.d = d2 /\ e.ret = "more"
      BY <2>1, <2>2
    <3> HIDE DEF d2
    <3> QED BY <2>2, <3>1, <3>2, <3>3 DEF InboxOK
  <2>3. CASE Len(hdr) = HeaderLen /\ ~FlagsOk(hdr)
    BY <2>1, <2>3
  <2>4. CASE Len(hdr) = HeaderLen /\ FlagsOk(hdr)
    <3>1. FromBytes(hdr) \in Header
      BY <2>1, <2>4, HeaderType
    <3> QED BY <2>1, <2>4, <3>1, TakeTyped
  <2> QED BY <2>1, <2>2, <2>3, <2>4 DEF HeaderLen
<1>3. CASE d.current # NoHeader
  <2> DEFINE c == Stored(d, byte)
  <2>6. c = Stored(d, byte)
    OBVIOUS
  <2> HIDE DEF c
  <2>1. /\ d.current \in Header
        /\ c \in InboxType /\ c.current = d.current /\ c.hdr = <<>> /\ ~c.complete
        /\ c.stream # -1 /\ c.message # -1
        /\ Len(d.buf) >= BufLen => e.d = d /\ e.ret = "Overflow"
        /\ Len(d.buf) < BufLen /\ d.chunk_got + 1 >= d.current.len => e = FinishChunk(c)
        /\ Len(d.buf) < BufLen /\ d.chunk_got + 1 < d.current.len => e.d = c /\ e.ret = "more"
    BY <1>3, <2>6, PushBodyParts
  <2>2. CASE Len(d.buf) >= BufLen
    BY <2>1, <2>2
  <2>3. CASE Len(d.buf) < BufLen /\ d.chunk_got + 1 >= d.current.len
    BY <2>1, <2>3, FinishTyped
  <2>4. CASE Len(d.buf) < BufLen /\ d.chunk_got + 1 < d.current.len
    <3>1. InboxOK(c)
      BY <1>3, <2>1 DEF InboxOK, HeaderLen
    <3> QED BY <2>1, <2>4, <3>1
  <2>5. Len(d.buf) \in Nat /\ d.chunk_got \in Nat /\ d.current.len \in Int /\ BufLen \in Nat
    BY <2>1, FragmentsAssumption DEF InboxOK, InboxType, Header, U8
  <2> QED BY <2>2, <2>3, <2>4, <2>5
<1> QED BY <1>1, <1>2, <1>3 DEF InboxOK

-----------------------------------------------------------------------------
(* What one byte of the message does to an inbox at its place. *)

(* Prefixes of a sequence of bytes. *)
LEMMA PrefixGrows ==
  ASSUME NEW s \in Seq(U8), NEW p \in 0 .. Len(s) - 1
  PROVE  /\ Append(SubSeq(s, 1, p), s[p + 1]) = SubSeq(s, 1, p + 1)
         /\ Len(SubSeq(s, 1, p)) = p /\ SubSeq(s, 1, p) \in Seq(U8) /\ s[p + 1] \in U8
<1>1. Len(s) \in Nat /\ p \in Nat /\ p + 1 \in 1 .. Len(s) /\ 1 \in 1 .. Len(s)
  OBVIOUS
<1>2. \A i \in 1 .. Len(s) : s[i] \in U8
  BY ElementOfSeq
<1>3. \A i \in 1 .. p : s[i] \in U8
  BY <1>1, <1>2
<1>4. SubSeq(s, 1, p) \in Seq(U8) /\ Len(SubSeq(s, 1, p)) = p
  BY <1>1, <1>3, SubSeqProperties
<1>5. SubSeq(s, 1, p + 1) = SubSeq(s, 1, p) \o <<s[p + 1]>>
  <2> DEFINE n == p + 1
  <2>1. n \in 1 .. Len(s) /\ 1 \in 1 .. Len(s) /\ n - 1 = p /\ n = p + 1
    BY <1>1
  <2> HIDE DEF n
  <2>2. SubSeq(s, 1, n) = SubSeq(s, 1, n - 1) \o <<s[n]>>
    BY <2>1, SubSeqRecursiveSecond
  <2> QED BY <2>1, <2>2
<1>6. Append(SubSeq(s, 1, p), s[p + 1]) = SubSeq(s, 1, p) \o <<s[p + 1]>>
  BY <1>1, <1>2, <1>4, AppendIsConcat
<1> QED BY <1>1, <1>2, <1>4, <1>5, <1>6

LEMMA PrefixEmpty ==
  ASSUME NEW s
  PROVE  SubSeq(s, 1, 0) = <<>>
BY SubSeqEmpty

LEMMA BodyPrefix ==
  ASSUME NEW m \in Messages, NEW k \in 0 .. Len(m.body)
  PROVE  Len(SubSeq(m.body, 1, k)) = k /\ (k = Len(m.body) => SubSeq(m.body, 1, k) = m.body)
<1>1. m.body \in Seq(U8) /\ Len(m.body) \in Nat /\ k \in Nat
  BY MessageFields
<1>2. \A i \in 1 .. k : m.body[i] \in U8
  BY <1>1, ElementOfSeq
<1>3. Len(SubSeq(m.body, 1, k)) = k
  BY <1>1, <1>2, SubSeqProperties
<1> QED BY <1>1, <1>3, SubSeqFull

(* Header bytes. *)
LEMMA PushHeaderByte ==
  ASSUME NEW m \in Messages, NEW k \in 0 .. Len(m.body), NEW x \in U16,
         NEW b, b = BytesAt(m, k, x), NEW p \in 0 .. HeaderLen - 1,
         NEW d, InboxOK(d), d.current = NoHeader, ~d.complete, d.hdr = SubSeq(b, 1, p),
         NEW e, e = Push(d, b[p + 1])
  PROVE  /\ p + 1 < HeaderLen => /\ e.ret = "more" /\ e.d = Collected(d, SubSeq(b, 1, p + 1))
                                 /\ SubSeq(b, 1, p + 1) \in Seq(U8)
         /\ p + 1 = HeaderLen => e = TakeHeader(Cleared(d), HeaderAt(m, k, x))
<1> DEFINE h == HeaderAt(m, k, x)
           y == b[p + 1]
           hdr == HdrWith(d, y)
           c == Cleared(d)
<1>1. /\ b \in Seq(U8) /\ Len(b) = SizeAt(m, k) /\ SubSeq(b, 1, HeaderLen) = ToBytes(h)
      /\ SizeAt(m, k) >= HeaderLen /\ SizeAt(m, k) \in Nat /\ h \in Header
  BY BytesFields, TakeFields, HeaderAtType
<1>2. p \in 0 .. Len(b) - 1 /\ p \in Nat
  BY <1>1 DEF HeaderLen
<1>3. hdr = SubSeq(b, 1, p + 1) /\ y \in U8 /\ Len(d.hdr) = p
  BY <1>1, <1>2, PrefixGrows DEF HdrWith
<1>4. hdr = HdrWith(d, y) /\ c = Cleared(d) /\ e = Push(d, y)
  OBVIOUS
<1> HIDE DEF h, y, hdr, c
<1>5. /\ hdr \in Seq(U8) /\ Len(hdr) = Len(d.hdr) + 1
      /\ Len(hdr) < HeaderLen => e.d = Collected(d, hdr) /\ e.ret = "more"
      /\ Len(hdr) = HeaderLen /\ FlagsOk(hdr) => e = TakeHeader(c, FromBytes(hdr))
  <2>1. y \in U8
    BY <1>3
  <2> QED BY <1>4, <2>1, PushHeaderParts, ZenonT(40)
<1>6. CASE p + 1 < HeaderLen
  BY <1>2, <1>3, <1>5, <1>6 DEF HeaderLen
<1>7. CASE p + 1 = HeaderLen
  <2>1. hdr = ToBytes(h) /\ Len(hdr) = HeaderLen
    BY <1>1, <1>2, <1>3, <1>5, <1>7
  <2>2. FlagsOk(hdr) /\ FromBytes(hdr) = h
    BY <1>1, <2>1, HeaderRoundTrip
  <2>3. e = TakeHeader(c, h)
    BY <1>5, <2>1, <2>2
  <2> QED BY <1>7, <2>3 DEF c, h
<1> QED BY <1>6, <1>7

(* FinishChunk, field by field. *)
LEMMA FinishParts ==
  ASSUME NEW c \in InboxType, NEW e, e = FinishChunk(c)
  PROVE  /\ c.current.last => /\ e.ret = "whole" /\ e.d.complete /\ e.d.buf = c.buf
                              /\ e.d.stream = c.stream /\ e.d.message = c.message
         /\ ~c.current.last => /\ e.ret = "more" /\ (~c.complete => ~e.d.complete) /\ e.d.buf = c.buf
                               /\ e.d.stream = c.stream /\ e.d.message = c.message
                               /\ e.d.hdr = c.hdr /\ e.d.current = NoHeader
                               /\ e.d.expect_frag = Next16(c.expect_frag)
<1>1. CASE c.current.last
  <2>1. e.d = [c EXCEPT !.current = NoHeader, !.complete = TRUE] /\ e.ret = "whole"
    BY <1>1 DEF FinishChunk
  <2> QED BY <1>1, <2>1 DEF InboxType
<1>2. CASE ~c.current.last
  <2>1. /\ e.d = [c EXCEPT !.current = NoHeader, !.expect_frag = Next16(@)]
        /\ e.ret = "more"
    BY <1>2 DEF FinishChunk
  <2> QED BY <1>2, <2>1 DEF InboxType
<1> QED BY <1>1, <1>2

(* The first place: a header byte of the fragment that is awaited. *)
LEMMA PushWaiting ==
  ASSUME NEW m \in Messages, NEW k \in 0 .. Len(m.body), NEW x \in U16,
         NEW b, b = BytesAt(m, k, x), NEW p \in 0 .. HeaderLen - 1,
         NEW d, InboxOK(d), Waiting(d, m, k, x), d.hdr = SubSeq(b, 1, p),
         NEW e, e = Push(d, b[p + 1])
  PROVE  /\ p + 1 < HeaderLen =>
              e.ret = "more" /\ Waiting(e.d, m, k, x) /\ e.d.hdr = SubSeq(b, 1, p + 1)
         /\ p + 1 = HeaderLen /\ TakeAt(m, k) # 0 =>
              e.ret = "more" /\ Inside(e.d, m, k, x, HeaderLen)
         /\ p + 1 = HeaderLen /\ TakeAt(m, k) = 0 =>
              e.ret = "whole" /\ Holds(e.d, m) /\ Len(m.body) <= BufLen
<1> DEFINE h == HeaderAt(m, k, x)
           q == Cleared(d)
           c == [q EXCEPT !.stream = h.stream, !.message = h.message,
                          !.current = h, !.chunk_got = 0]
<1>1. /\ d.current = NoHeader /\ ~d.complete /\ d.expect_frag = x /\ NameFits(d, m)
      /\ k <= BufLen /\ d.buf = SubSeq(m.body, 1, k)
  BY DEF Waiting
<1>2. /\ p + 1 < HeaderLen => /\ e.ret = "more" /\ e.d = Collected(d, SubSeq(b, 1, p + 1))
                              /\ SubSeq(b, 1, p + 1) \in Seq(U8)
      /\ p + 1 = HeaderLen => e = TakeHeader(q, h)
  BY <1>1, PushHeaderByte
<1>3. CASE p + 1 < HeaderLen
  <2> DEFINE s == SubSeq(b, 1, p + 1)
  <2>1. d \in InboxType /\ e.d = Collected(d, s) /\ e.ret = "more"
    BY <1>2, <1>3 DEF InboxOK
  <2> HIDE DEF s
  <2>2. /\ e.d.hdr = s /\ e.d.current = d.current /\ e.d.complete = d.complete
        /\ e.d.expect_frag = d.expect_frag /\ e.d.stream = d.stream /\ e.d.message = d.message
        /\ e.d.buf = d.buf
    BY <2>1 DEF Collected, InboxType
  <2>3. Waiting(e.d, m, k, x)
    BY <1>1, <2>2 DEF Waiting, NameFits
  <2> QED BY <1>3, <2>1, <2>2, <2>3 DEF s, HeaderLen
<1>4. CASE p + 1 = HeaderLen
  <2>1. /\ h.stream = m.stream /\ h.message = m.id /\ h.fragment = x /\ h.len = TakeAt(m, k)
        /\ h.last = (k + TakeAt(m, k) = Len(m.body)) /\ h \in Header
    BY HeaderAtType DEF HeaderAt
  <2>2. /\ q \in InboxType /\ q.hdr = <<>> /\ q.current = NoHeader /\ ~q.complete
        /\ q.expect_frag = x /\ q.stream = d.stream /\ q.message = d.message /\ q.buf = d.buf
    <3>1. d \in InboxType /\ <<>> \in Seq(U8)
      BY DEF InboxOK
    <3>2. q \in InboxType
      BY <3>1 DEF InboxType, Cleared
    <3>3. /\ q.hdr = <<>> /\ q.current = d.current /\ q.complete = d.complete
          /\ q.expect_frag = d.expect_frag /\ q.stream = d.stream /\ q.message = d.message
          /\ q.buf = d.buf
      BY <3>1 DEF InboxType, Cleared
    <3> QED BY <1>1, <3>2, <3>3
  <2>3. e = TakeHeader(q, h)
    BY <1>2, <1>4
  <2> HIDE DEF q, h
  <2>4. e = IF h.len = 0 THEN FinishChunk(c) ELSE [d |-> c, ret |-> "more"]
    <3>1. ~(\/ h.fragment # q.expect_frag
            \/ q.stream \notin {-1, h.stream} \/ q.message \notin {-1, h.message})
      BY <1>1, <2>1, <2>2 DEF NameFits
    <3> QED BY <2>3, <3>1, Zenon DEF TakeHeader
  <2>5. /\ c \in InboxType /\ c.hdr = <<>> /\ c.current = h /\ ~c.complete /\ c.chunk_got = 0
        /\ c.expect_frag = x /\ c.stream = m.stream /\ c.message = m.id /\ c.buf = d.buf
    <3>1. h.stream \in U8 /\ h.message \in U16
      BY <2>1 DEF Header
    <3>2. c \in InboxType
      BY <2>1, <2>2, <3>1 DEF InboxType
    <3>3. /\ c.hdr = q.hdr /\ c.current = h /\ c.complete = q.complete /\ c.chunk_got = 0
          /\ c.expect_frag = q.expect_frag /\ c.stream = h.stream /\ c.message = h.message
          /\ c.buf = q.buf
      BY <2>2 DEF InboxType
    <3> QED BY <2>1, <2>2, <3>2, <3>3
  <2> HIDE DEF c
  <2>6. ASSUME TakeAt(m, k) # 0
        PROVE  e.ret = "more" /\ Inside(e.d, m, k, x, HeaderLen)
    <3>1. e.d = c /\ e.ret = "more"
      BY <2>1, <2>4, <2>6
    <3>2. 0 = HeaderLen - HeaderLen /\ k + HeaderLen - HeaderLen = k
      BY DEF HeaderLen
    <3> QED BY <1>1, <2>5, <3>1, <3>2 DEF Inside, h
  <2>7. ASSUME TakeAt(m, k) = 0
        PROVE  e.ret = "whole" /\ Holds(e.d, m) /\ Len(m.body) <= BufLen
    <3>1. e = FinishChunk(c) /\ k = Len(m.body) /\ c.current.last
      <4>1. k = Len(m.body) /\ k + TakeAt(m, k) = Len(m.body)
        BY <2>7, TakeFields
      <4>2. h.last
        BY <2>1, <4>1
      <4>3. e = FinishChunk(c)
        BY <2>1, <2>4, <2>7
      <4> QED BY <2>5, <4>1, <4>2, <4>3
    <3>2. e.ret = "whole" /\ e.d.complete /\ e.d.buf = d.buf
          /\ e.d.stream = m.stream /\ e.d.message = m.id
      <4>1. /\ e.ret = "whole" /\ e.d.complete /\ e.d.buf = c.buf
            /\ e.d.stream = c.stream /\ e.d.message = c.message
        BY <2>5, <3>1, FinishParts
      <4> QED BY <2>5, <4>1
    <3>3. d.buf = m.body
      BY <1>1, <3>1, BodyPrefix
    <3> QED BY <1>1, <3>1, <3>2, <3>3 DEF Holds
  <2> QED BY <1>4, <2>6, <2>7 DEF HeaderLen
<1> QED BY <1>3, <1>4 DEF HeaderLen

(* The second place: a byte of the body. *)
LEMMA PushInside ==
  ASSUME NEW m \in Messages, NEW k \in 0 .. Len(m.body), NEW x \in U16,
         NEW b, b = BytesAt(m, k, x), NEW p \in HeaderLen .. SizeAt(m, k) - 1,
         NEW d, InboxOK(d), Inside(d, m, k, x, p), NEW e, e = Push(d, b[p + 1]),
         NEW k2, k2 = k + TakeAt(m, k)
  PROVE  /\ Len(d.buf) >= BufLen => e.ret = "Overflow" /\ Len(m.body) > BufLen
         /\ Len(d.buf) < BufLen /\ p + 1 < SizeAt(m, k) =>
              e.ret = "more" /\ Inside(e.d, m, k, x, p + 1)
         /\ Len(d.buf) < BufLen /\ p + 1 = SizeAt(m, k) /\ k2 = Len(m.body) =>
              e.ret = "whole" /\ Holds(e.d, m) /\ Len(m.body) <= BufLen
         /\ Len(d.buf) < BufLen /\ p + 1 = SizeAt(m, k) /\ k2 # Len(m.body) =>
              e.ret = "more" /\ Waiting(e.d, m, k2, Next16(x)) /\ e.d.hdr = <<>>
<1> DEFINE h == HeaderAt(m, k, x)
           t == TakeAt(m, k)
           y == b[p + 1]
           c == Stored(d, y)
           j == k + p - HeaderLen
<1>1. /\ m.body \in Seq(U8) /\ Len(m.body) \in Nat /\ t \in Nat /\ k2 \in 0 .. Len(m.body)
      /\ k \in Nat /\ BufLen \in Nat
  BY MessageFields, TakeFields, FragmentsAssumption
<1>2. SizeAt(m, k) = 7 + t /\ p \in 7 .. 6 + t /\ HeaderLen = 7
  BY <1>1 DEF SizeAt, HeaderLen
<1>3. j \in Nat /\ j < k + t /\ j + 1 <= Len(m.body) /\ k2 = k + t /\ j = k + p - 7
  BY <1>1, <1>2
<1>4. y = m.body[j + 1]
  <2>1. p + 1 \in HeaderLen + 1 .. SizeAt(m, k)
    BY <1>1, <1>2
  <2>2. y = m.body[k + (p + 1) - HeaderLen]
    BY <2>1, BytesFields
  <2>3. k + (p + 1) - HeaderLen = j + 1
    BY <1>1, <1>2
  <2> QED BY <2>2, <2>3
<1>5. /\ Len(d.buf) = j /\ y \in U8 /\ d.buf = SubSeq(m.body, 1, j)
      /\ Append(d.buf, y) = SubSeq(m.body, 1, j + 1)
  <2>1. d.buf = SubSeq(m.body, 1, j)
    BY DEF Inside
  <2>2. j \in 0 .. Len(m.body) - 1
    BY <1>1, <1>3
  <2> HIDE DEF j, y
  <2> QED BY <1>1, <1>4, <2>1, <2>2, PrefixGrows
<1>6. /\ d.hdr = <<>> /\ d.current = h /\ ~d.complete /\ d.chunk_got = p - 7
      /\ d.expect_frag = x /\ d.stream = m.stream /\ d.message = m.id
  BY <1>2 DEF Inside
<1>7. /\ h.len = t /\ h.last = (k2 = Len(m.body)) /\ h \in Header /\ h # NoHeader
  BY HeaderAtType, HeaderIsOne DEF HeaderAt
<1>8. c = Stored(d, y) /\ e = Push(d, y)
  OBVIOUS
<1> HIDE DEF h, t, y, c, j
<1>9. /\ c \in InboxType /\ c.current = d.current /\ c.hdr = <<>> /\ ~c.complete
      /\ c.stream = d.stream /\ c.message = d.message
      /\ c.buf = Append(d.buf, y) /\ c.chunk_got = d.chunk_got + 1
      /\ c.expect_frag = d.expect_frag
      /\ Len(d.buf) >= BufLen => e.d = d /\ e.ret = "Overflow"
      /\ Len(d.buf) < BufLen /\ d.chunk_got + 1 >= d.current.len => e = FinishChunk(c)
      /\ Len(d.buf) < BufLen /\ d.chunk_got + 1 < d.current.len => e.d = c /\ e.ret = "more"
  <2>1. d.current # NoHeader /\ y \in U8
    BY <1>5, <1>6, <1>7
  <2> QED BY <1>8, <2>1, PushBodyParts
<1>10. ASSUME Len(d.buf) >= BufLen
       PROVE  e.ret = "Overflow" /\ Len(m.body) > BufLen
  BY <1>1, <1>3, <1>5, <1>9, <1>10
<1>11. ASSUME Len(d.buf) < BufLen, p + 1 < SizeAt(m, k)
       PROVE  e.ret = "more" /\ Inside(e.d, m, k, x, p + 1)
  <2>1. d.chunk_got + 1 < d.current.len /\ c.chunk_got = (p + 1) - HeaderLen
    BY <1>1, <1>2, <1>6, <1>7, <1>9, <1>11
  <2>2. e.d = c /\ e.ret = "more"
    BY <1>9, <1>11, <2>1
  <2>3. k + (p + 1) - HeaderLen = j + 1 /\ j + 1 <= BufLen
    BY <1>1, <1>2, <1>3, <1>5, <1>11
  <2> QED BY <1>5, <1>6, <1>9, <2>1, <2>2, <2>3 DEF Inside, h
<1>12. ASSUME Len(d.buf) < BufLen, p + 1 = SizeAt(m, k)
       PROVE  e = FinishChunk(c) /\ j + 1 = k2 /\ c.buf = SubSeq(m.body, 1, k2) /\ k2 <= BufLen
  <2>1. d.chunk_got + 1 >= d.current.len /\ j + 1 = k2
    BY <1>1, <1>2, <1>3, <1>6, <1>7, <1>12, SMTT(30)
  <2> QED BY <1>1, <1>3, <1>5, <1>9, <1>12, <2>1
<1>13. ASSUME Len(d.buf) < BufLen, p + 1 = SizeAt(m, k), k2 = Len(m.body)
       PROVE  e.ret = "whole" /\ Holds(e.d, m) /\ Len(m.body) <= BufLen
  <2>1. /\ e.ret = "whole" /\ e.d.complete /\ e.d.buf = c.buf
        /\ e.d.stream = c.stream /\ e.d.message = c.message
    BY <1>6, <1>7, <1>9, <1>12, <1>13, FinishParts
  <2>2. c.buf = m.body
    BY <1>1, <1>12, <1>13, SubSeqFull
  <2> QED BY <1>6, <1>9, <1>12, <1>13, <2>1, <2>2 DEF Holds
<1>14. ASSUME Len(d.buf) < BufLen, p + 1 = SizeAt(m, k), k2 # Len(m.body)
       PROVE  e.ret = "more" /\ Waiting(e.d, m, k2, Next16(x)) /\ e.d.hdr = <<>>
  <2>1. /\ e.ret = "more" /\ (~c.complete => ~e.d.complete) /\ e.d.buf = c.buf
        /\ e.d.stream = c.stream /\ e.d.message = c.message /\ e.d.hdr = c.hdr
        /\ e.d.current = NoHeader /\ e.d.expect_frag = Next16(c.expect_frag)
    <3>1. ~c.current.last
      BY <1>6, <1>7, <1>9, <1>14
    <3> QED BY <1>9, <1>12, <1>14, <3>1, FinishParts
  <2> QED BY <1>6, <1>9, <1>12, <1>14, <2>1 DEF Waiting, NameFits
<1> QED BY <1>10, <1>11, <1>13, <1>14

(* An inbox that refuses keeps on refusing, and no later than at the end   *)
(* of the header it says so.                                               *)
LEMMA PushRefused ==
  ASSUME NEW m \in Messages, NEW b, b = BytesAt(m, 0, 0), NEW p \in 0 .. HeaderLen - 1,
         NEW d, InboxOK(d), Refuses(d, m), d.hdr = SubSeq(b, 1, p),
         NEW e, e = Push(d, b[p + 1])
  PROVE  \/ e.ret \in {"Closed", "OutOfOrder"}
         \/ /\ p + 1 < HeaderLen /\ e.ret = "more" /\ Refuses(e.d, m)
            /\ e.d.hdr = SubSeq(b, 1, p + 1)
<1>1. CASE d.complete
  <2>1. e = Rejected(d, "Closed")
    BY <1>1 DEF Push
  <2> QED BY <2>1 DEF Rejected
<1>2. CASE ~d.complete
  <2> DEFINE h == HeaderAt(m, 0, 0)
             q == Cleared(d)
             s == SubSeq(b, 1, p + 1)
  <2>1. d.current = NoHeader /\ (d.expect_frag # 0 \/ ~NameFits(d, m)) /\ d \in InboxType
    BY <1>2 DEF Refuses, InboxOK
  <2>2. 0 \in 0 .. Len(m.body) /\ 0 \in U16
    BY MessageFields, Squared DEF U16
  <2>3. /\ p + 1 < HeaderLen => /\ e.ret = "more" /\ e.d = Collected(d, s)
                                /\ s \in Seq(U8)
        /\ p + 1 = HeaderLen => e = TakeHeader(q, h)
    BY <1>2, <2>1, <2>2, PushHeaderByte
  <2>4. CASE p + 1 < HeaderLen
    <3> HIDE DEF s
    <3>1. e.d = Collected(d, s) /\ e.ret = "more"
      BY <2>3, <2>4
    <3>2. /\ e.d.hdr = s /\ e.d.current = d.current /\ e.d.complete = d.complete
          /\ e.d.expect_frag = d.expect_frag /\ e.d.stream = d.stream
          /\ e.d.message = d.message
      BY <2>1, <3>1 DEF Collected, InboxType
    <3>3. Refuses(e.d, m)
      BY <2>1, <3>2 DEF Refuses, NameFits
    <3> QED BY <2>4, <3>1, <3>2, <3>3 DEF s
  <2>5. CASE p + 1 = HeaderLen
    <3>1. h.stream = m.stream /\ h.message = m.id /\ h.fragment = 0
      BY DEF HeaderAt
    <3>2. q.expect_frag = d.expect_frag /\ q.stream = d.stream /\ q.message = d.message
      BY <2>1 DEF Cleared, InboxType
    <3> HIDE DEF h, q
    <3>3. \/ h.fragment # q.expect_frag
          \/ q.stream \notin {-1, h.stream} \/ q.message \notin {-1, h.message}
      BY <2>1, <3>1, <3>2 DEF NameFits
    <3>4. e = Rejected(q, "OutOfOrder")
      BY <2>3, <2>5, <3>3, Zenon DEF TakeHeader
    <3> QED BY <3>4 DEF Rejected
  <2> QED BY <2>4, <2>5 DEF HeaderLen
<1> QED BY <1>1, <1>2

-----------------------------------------------------------------------------
(* The bytes on their way. *)

(* Bytes are on their way as long as a fragment is not delivered. *)
LEMMA FlightFields ==
  ASSUME NEW m \in Messages, NEW k \in 0 .. Len(m.body), NEW x \in U16,
         NEW b, b = BytesAt(m, k, x), NEW p \in 0 .. SizeAt(m, k) - 1,
         NEW n, n = SizeAt(m, k)
  PROVE  /\ b[p + 1] \in U8
         /\ SubSeq(b, p + 1, n) # <<>> /\ SubSeq(b, p + 1, n) \in Seq(U8)
         /\ Head(SubSeq(b, p + 1, n)) = b[p + 1]
         /\ Tail(SubSeq(b, p + 1, n)) = SubSeq(b, p + 2, n)
         /\ SubSeq(b, 1, n) = b
         /\ p + 1 = n => SubSeq(b, p + 2, n) = <<>>
<1>1. b \in Seq(U8) /\ Len(b) = n /\ n \in Nat /\ p + 1 \in 1 .. n /\ n \in p + 1 .. n
  <2>1. b \in Seq(U8) /\ Len(b) = SizeAt(m, k)
    BY BytesFields
  <2>2. SizeAt(m, k) \in Nat
    BY TakeFields
  <2> QED BY <2>1, <2>2
<1>2. \A i \in 1 .. n : b[i] \in U8
  BY <1>1, ElementOfSeq
<1> DEFINE i == p + 1
           s == SubSeq(b, i, n)
<1>3. i \in 1 .. Len(b) /\ n \in i .. Len(b) /\ i + 1 = p + 2 /\ i \in Int /\ n \in Int /\ i <= n
  BY <1>1
<1> HIDE DEF i
<1>4. Head(s) = b[i] /\ Tail(s) = SubSeq(b, i + 1, n)
  BY <1>1, <1>3, HeadTailOfSubSeq
<1>5. \A j \in i .. n : b[j] \in U8
  BY <1>1, <1>2, <1>3
<1>6. s \in Seq(U8) /\ Len(s) = n - i + 1
  BY <1>3, <1>5, SubSeqProperties
<1>7. s # <<>>
  <2> HIDE DEF s
  <2> QED BY <1>3, <1>6
<1>8. SubSeq(b, 1, n) = b
  BY <1>1, SubSeqFull
<1>9. p + 1 = n => SubSeq(b, p + 2, n) = <<>>
  BY <1>1, SubSeqEmpty
<1>10. b[i] \in U8
  BY <1>2, <1>3, <1>1
<1> HIDE DEF s
<1>11. Tail(s) = SubSeq(b, p + 2, n)
  BY <1>3, <1>4
<1> QED BY <1>4, <1>6, <1>7, <1>8, <1>9, <1>10, <1>11 DEF i, s

LEMMA FlightBusy ==
  ASSUME FragmentsType, NEW k \in 0 .. Len(msg.body), NEW x \in U16,
         NEW p \in 0 .. SizeAt(msg, k) - 1, InFlight(k, x, p)
  PROVE  ~(queue = <<>> /\ link = <<>>)
<1> DEFINE b == BytesAt(msg, k, x)
           n == SizeAt(msg, k)
<1>1. msg \in Messages
  BY DEF FragmentsType
<1>2. SubSeq(b, p + 1, n) # <<>>
  BY <1>1, FlightFields
<1>3. \/ link = <<>> /\ queue = SubSeq(b, p + 1, n)
      \/ link = <<b[p + 1]>> /\ queue = SubSeq(b, p + 2, n)
  BY DEF InFlight
<1>4. <<b[p + 1]>> # <<>>
  OBVIOUS
<1> HIDE DEF b, n
<1> QED BY <1>2, <1>3, <1>4

(* A place in the flight is one of the message's. *)
LEMMA DoomedPlace ==
  ASSUME FragmentsType
  PROVE  /\ msg \in Messages /\ 0 \in 0 .. Len(msg.body) /\ 0 \in U16
         /\ SizeAt(msg, 0) \in Nat /\ SizeAt(msg, 0) >= HeaderLen
         /\ \A p \in 0 .. HeaderLen - 1 : p \in 0 .. SizeAt(msg, 0) - 1
<1>1. msg \in Messages /\ 0 \in 0 .. Len(msg.body) /\ 0 \in U16
  BY MessageFields, Squared DEF U16, FragmentsType
<1>2. SizeAt(msg, 0) \in Nat /\ SizeAt(msg, 0) >= HeaderLen
  BY <1>1, TakeFields
<1> QED BY <1>1, <1>2 DEF HeaderLen

LEMMA StartAt ==
  ASSUME NEW m \in Messages
  PROVE  /\ FragmenterNew(m) = FragmenterAt(m, 0, 0, FALSE)
         /\ InboxOK(DefragNew) /\ Waiting(DefragNew, m, 0, 0) /\ DefragNew.hdr = <<>>
         /\ 0 \in 0 .. Len(m.body) /\ 0 \in U16
<1>1. m.body \in Seq(U8) /\ Len(m.body) \in Nat
  BY MessageFields
<1>2. SubSeq(m.body, 0 + 1, Len(m.body)) = m.body
  BY <1>1, SubSeqFull
<1>3. FragmenterNew(m) = FragmenterAt(m, 0, 0, FALSE)
  BY <1>2 DEF FragmenterNew, FragmenterAt, Piece
<1>4. 0 \in U16
  BY Squared DEF U16
<1>5. DefragNew \in InboxType
  BY <1>4 DEF DefragNew, InboxType
<1>6. /\ DefragNew.hdr = <<>> /\ DefragNew.current = NoHeader /\ ~DefragNew.complete
      /\ DefragNew.expect_frag = 0 /\ DefragNew.stream = -1 /\ DefragNew.message = -1
      /\ DefragNew.buf = <<>>
  BY DEF DefragNew
<1>7. DefragNew = [DefragNew EXCEPT !.hdr = DefragNew.hdr]
  BY DEF DefragNew
<1>8. InboxOK(DefragNew)
  BY <1>5, <1>6, <1>7 DEF InboxOK, HeaderLen
<1>9. Waiting(DefragNew, m, 0, 0)
  BY <1>6, PrefixEmpty, FragmentsAssumption DEF Waiting, NameFits
<1> QED BY <1>1, <1>3, <1>4, <1>6, <1>8, <1>9

-----------------------------------------------------------------------------
(* One lemma per action. *)

LEMMA FragmentsStart ==
  ASSUME Init
  PROVE  FragmentsInv
<1>1. msg \in Messages /\ inbox = DefragNew /\ link = <<>> /\ queue = <<>>
  BY DEF Init
<1>2. FragmentsType /\ (alone => ~mixed)
  <2>1. InboxOK(inbox)
    BY <1>1, StartAt
  <2>2. <<>> \in Seq(U8)
    BY EmptySeq
  <2>3. FragOK
    BY <1>1, StartAt DEF Init, FragOK
  <2> QED BY <1>1, <2>1, <2>2, <2>3 DEF Init, FragmentsType
<1>3. Between(0, 0) /\ Waiting(inbox, msg, 0, 0) /\ inbox.hdr = <<>>
  BY <1>1, StartAt DEF Init, Between
<1>4. Good
  BY <1>1, <1>3, StartAt DEF Good
<1>5. Rebuilt /\ NeverMixed
  BY DEF Init, Rebuilt, NeverMixed
<1> QED BY <1>2, <1>4, <1>5 DEF FragmentsInv

LEMMA BeginKeeps ==
  ASSUME FragmentsInv, NEW m \in Messages, NEW reset \in BOOLEAN, Begin(m, reset)
  PROVE  FragmentsInv'
<1>1. /\ msg' = m /\ frag' = FragmenterNew(m) /\ queue' = <<>> /\ link' = link
      /\ inbox' = (IF reset THEN DefragNew ELSE inbox) /\ ret' = "sending" /\ cut' = FALSE
      /\ alone' = (reset /\ link = <<>>)
  BY DEF Begin
<1>2. FragmentsType /\ InboxOK(inbox)
  BY DEF FragmentsInv, FragmentsType
<1>3. mixed' = \/ link # <<>>
               \/ ~reset /\ mixed
               \/ /\ ~reset /\ inbox # DefragNew /\ ~inbox.complete
                  /\ \/ inbox.hdr # <<>> \/ inbox.current # NoHeader
                     \/ /\ inbox.expect_frag = 0
                        /\ m.stream = inbox.stream /\ m.id = inbox.message
  BY DEF Begin
<1>4. FragmentsType'
  <2>1. InboxOK(inbox')
    BY <1>1, <1>2, StartAt
  <2>2. mixed' \in BOOLEAN
    BY <1>3
  <2>3. alone' \in BOOLEAN /\ cut' \in BOOLEAN
    BY <1>1
  <2>4. <<>> \in Seq(U8)
    BY EmptySeq
  <2>5. FragOK'
    BY <1>1, StartAt DEF FragOK
  <2> QED BY <1>1, <1>2, <2>1, <2>2, <2>3, <2>4, <2>5 DEF FragmentsType
<1>5. (alone => ~mixed)'
  BY <1>1, <1>3
<1>6. (Rebuilt /\ NeverMixed)'
  BY <1>1 DEF Rebuilt, NeverMixed
<1>7. ASSUME ~mixed'
      PROVE  Good' \/ (Doomed' /\ ~alone')
  <2>1. link' = <<>> /\ Between(0, 0)'
    BY <1>1, <1>3, <1>7, StartAt DEF Between
  <2>2. CASE inbox' = DefragNew
    <3>1. (Waiting(inbox, msg, 0, 0) /\ inbox.hdr = <<>>)'
      BY <1>1, <2>2, StartAt
    <3>2. Good'
      BY <1>1, <2>1, <3>1, StartAt DEF Good
    <3> QED BY <3>2
  <2>3. CASE inbox' # DefragNew
    <3>1. ~reset /\ inbox' = inbox /\ ~alone' /\ inbox # DefragNew
      BY <1>1, <2>3
    <3>2. CASE inbox.complete
      <4>1. inbox.hdr = <<>>
        BY <1>2, <3>2 DEF InboxOK
      <4>2. Doomed'
        BY <2>1, <3>1, <3>2, <4>1 DEF Doomed, Refuses
      <4> QED BY <3>1, <4>2
    <3>3. CASE ~inbox.complete
      <4>1. /\ inbox.hdr = <<>> /\ inbox.current = NoHeader
            /\ ~(/\ inbox.expect_frag = 0
                 /\ m.stream = inbox.stream /\ m.id = inbox.message)
        BY <1>3, <1>7, <3>1, <3>3
      <4>2. inbox.stream # -1 /\ inbox.message # -1
        <5>1. DefragNew = [DefragNew EXCEPT !.hdr = DefragNew.hdr] /\ DefragNew.hdr = <<>>
          BY DEF DefragNew
        <5> QED BY <1>2, <3>1, <4>1, <5>1 DEF InboxOK
      <4>3. Refuses(inbox, m)
        BY <4>1, <4>2 DEF Refuses, NameFits
      <4>4. Doomed'
        BY <1>1, <2>1, <3>1, <4>1, <4>3 DEF Doomed
      <4> QED BY <3>1, <4>4
    <3> QED BY <3>2, <3>3
  <2> QED BY <2>2, <2>3
<1> QED BY <1>4, <1>5, <1>6, <1>7 DEF FragmentsInv

(* The sender's side of a step that leaves the inbox alone: the place is   *)
(* kept.                                                                   *)
LEMMA CutPlace ==
  ASSUME FragmentsType, NEW k \in 0 .. Len(msg.body), NEW x \in U16,
         Between(k, x), CutFragment
  PROVE  InFlight(k, x, 0)' /\ 0 \in 0 .. SizeAt(msg, k) - 1
<1> DEFINE b == BytesAt(msg, k, x)
           n == SizeAt(msg, k)
           k2 == k + TakeAt(msg, k)
           g == NextFragment(FragmenterAt(msg, k, x, FALSE))
<1>1. msg \in Messages
  BY DEF FragmentsType
<1>2. n \in Nat /\ n >= 7
  BY <1>1, TakeFields DEF HeaderLen
<1>3. 0 \in 0 .. n - 1
  BY <1>2
<1>4. g.frag = FragmenterAt(msg, k2, Next16(x), k2 = Len(msg.body)) /\ g.bytes = b
  BY <1>1, NextFragmentAt
<1>5. frag' = g.frag /\ queue' = g.bytes /\ link' = <<>> /\ msg' = msg
  BY DEF CutFragment, Between
<1>6. SubSeq(b, 0 + 1, n) = b
  BY <1>1, <1>3, FlightFields
<1> HIDE DEF g
<1>7. InFlight(k, x, 0)'
  BY <1>4, <1>5, <1>6 DEF InFlight
<1> QED BY <1>3, <1>7

LEMMA AppendToEmpty ==
  ASSUME NEW y
  PROVE  Append(<<>>, y) = <<y>>
OBVIOUS

LEMMA OfferPlace ==
  ASSUME FragmentsType, NEW k \in 0 .. Len(msg.body), NEW x \in U16,
         NEW p \in 0 .. SizeAt(msg, k) - 1, InFlight(k, x, p), OfferByte
  PROVE  InFlight(k, x, p)'
<1> DEFINE b == BytesAt(msg, k, x)
           n == SizeAt(msg, k)
           k2 == k + TakeAt(msg, k)
<1>1. msg \in Messages
  BY DEF FragmentsType
<1>2. link = <<>> /\ link' = Append(link, Head(queue)) /\ queue' = Tail(queue)
  BY DEF OfferByte
<1>3. frag' = frag /\ msg' = msg
  BY DEF OfferByte
<1>4. queue = SubSeq(b, p + 1, n)
  BY <1>2 DEF InFlight
<1>5. Head(SubSeq(b, p + 1, n)) = b[p + 1] /\ Tail(SubSeq(b, p + 1, n)) = SubSeq(b, p + 2, n)
  BY <1>1, FlightFields
<1>6. link' = <<b[p + 1]>> /\ queue' = SubSeq(b, p + 2, n)
  <2> HIDE DEF b, n
  <2>1. Head(queue) = b[p + 1] /\ queue' = SubSeq(b, p + 2, n)
    BY <1>2, <1>4, <1>5
  <2> QED BY <1>2, <2>1, AppendToEmpty, Zenon
<1> QED BY <1>3, <1>6 DEF InFlight

(* The byte delivered is the next one of the fragment. *)
LEMMA DeliverPlace ==
  ASSUME FragmentsType, NEW k \in 0 .. Len(msg.body), NEW x \in U16,
         NEW p \in 0 .. SizeAt(msg, k) - 1, InFlight(k, x, p), Deliver,
         NEW b, b = BytesAt(msg, k, x), NEW k2, k2 = k + TakeAt(msg, k)
  PROVE  /\ Head(link) = b[p + 1] /\ b[p + 1] \in U8 /\ link' = <<>>
         /\ frag' = FragmenterAt(msg, k2, Next16(x), k2 = Len(msg.body))
         /\ p + 1 < SizeAt(msg, k) => InFlight(k, x, p + 1)'
         /\ p + 1 = SizeAt(msg, k) => queue' = <<>>
<1> DEFINE n == SizeAt(msg, k)
<1>1. msg \in Messages
  BY DEF FragmentsType
<1>2. link # <<>> /\ link' = Tail(link) /\ queue' = queue /\ frag' = frag /\ msg' = msg
  BY DEF Deliver
<1>3. link = <<b[p + 1]>> /\ queue = SubSeq(b, p + 2, n)
  BY <1>2 DEF InFlight
<1>4. b[p + 1] \in U8 /\ (p + 1 = n => SubSeq(b, p + 2, n) = <<>>)
  BY <1>1, FlightFields
<1>5. Head(link) = b[p + 1] /\ link' = <<>>
  BY <1>2, <1>3
<1>6. frag' = FragmenterAt(msg, k2, Next16(x), k2 = Len(msg.body))
  BY <1>2 DEF InFlight
<1>7. queue' = SubSeq(b, (p + 1) + 1, n)
  <2>1. (p + 1) + 1 = p + 2
    OBVIOUS
  <2> QED BY <1>2, <1>3, <2>1
<1>8. InFlight(k, x, p + 1)'
  BY <1>2, <1>5, <1>6, <1>7 DEF InFlight
<1> QED BY <1>2, <1>3, <1>4, <1>5, <1>6, <1>8

LEMMA CutTyped ==
  ASSUME FragmentsType, CutFragment
  PROVE  FragmentsType'
<1>1. /\ msg \in Messages /\ ~frag.done /\ msg' = msg /\ link' = link /\ inbox' = inbox
      /\ alone' = alone /\ cut' = cut /\ mixed' = mixed
      /\ frag' = NextFragment(frag).frag /\ queue' = NextFragment(frag).bytes
  BY DEF CutFragment, FragmentsType
<1>2. PICK k \in 0 .. Len(msg.body), x \in U16, done \in BOOLEAN : frag = FragmenterAt(msg, k, x, done)
  BY DEF FragmentsType, FragOK
<1>3. done = FALSE
  BY <1>1, <1>2 DEF FragmenterAt
<1> DEFINE k2 == k + TakeAt(msg, k)
           g == NextFragment(FragmenterAt(msg, k, x, FALSE))
<1>4. /\ g.frag = FragmenterAt(msg, k2, Next16(x), k2 = Len(msg.body))
      /\ g.bytes = BytesAt(msg, k, x)
  BY <1>1, NextFragmentAt
<1>5. k2 \in 0 .. Len(msg.body) /\ Next16(x) \in U16 /\ BytesAt(msg, k, x) \in Seq(U8)
  BY <1>1, TakeFields, Wraps, BytesFields
<1>6. frag' = g.frag /\ queue' = g.bytes
  BY <1>1, <1>2, <1>3
<1> HIDE DEF g, k2
<1>7. FragOK'
  BY <1>1, <1>4, <1>5, <1>6, ZenonT(40) DEF FragOK
<1>8. queue' \in Seq(U8)
  BY <1>4, <1>5, <1>6
<1> QED BY <1>1, <1>7, <1>8 DEF FragmentsType

LEMMA CutKeeps ==
  ASSUME FragmentsInv, CutFragment
  PROVE  FragmentsInv'
<1>1. FragmentsType /\ msg \in Messages
  BY DEF FragmentsInv, FragmentsType
<1>2. /\ ret = "sending" /\ queue = <<>> /\ link = <<>> /\ ~frag.done
      /\ msg' = msg /\ link' = link /\ inbox' = inbox /\ ret' = ret
      /\ alone' = alone /\ cut' = cut /\ mixed' = mixed
  BY DEF CutFragment
<1>3. ASSUME ~mixed
      PROVE  Good' \/ (Doomed' /\ ~alone')
  <2>1. CASE Good
    <3>1. ~Arrived
      BY <1>2 DEF Arrived
    <3>2. PICK k \in 0 .. Len(msg.body), x \in U16 :
            \/ Between(k, x) /\ Waiting(inbox, msg, k, x) /\ inbox.hdr = <<>>
            \/ \E p \in 0 .. SizeAt(msg, k) - 1 : InFlight(k, x, p) /\ InStep(inbox, msg, k, x, p)
      BY <2>1, <3>1 DEF Good
    <3>3. Between(k, x) /\ Waiting(inbox, msg, k, x) /\ inbox.hdr = <<>>
      BY <1>1, <1>2, <3>2, FlightBusy
    <3>4. InFlight(k, x, 0)' /\ 0 \in 0 .. SizeAt(msg, k) - 1
      BY <1>1, <3>3, CutPlace
    <3>5. InStep(inbox, msg, k, x, 0)'
      <4>1. InStep(inbox, msg, k, x, 0)
        BY <3>3, PrefixEmpty DEF InStep, HeaderLen
      <4> QED BY <1>2, <4>1
    <3>6. Good'
      BY <1>2, <3>4, <3>5 DEF Good
    <3> QED BY <3>6
  <2>2. CASE Doomed /\ ~alone
    <3>1. Between(0, 0) /\ inbox.hdr = <<>> /\ Refuses(inbox, msg)
      BY <1>1, <1>2, <2>2, DoomedPlace, FlightBusy DEF Doomed
    <3>2. InFlight(0, 0, 0)'
      BY <1>1, <3>1, DoomedPlace, CutPlace
    <3>3. 0 \in 0 .. HeaderLen - 1
      BY DEF HeaderLen
    <3>4. (inbox.hdr = SubSeq(BytesAt(msg, 0, 0), 1, 0))' /\ Refuses(inbox, msg)'
      BY <1>2, <3>1, PrefixEmpty
    <3>5. Doomed'
      BY <3>2, <3>3, <3>4 DEF Doomed
    <3> QED BY <1>2, <2>2, <3>5
  <2> QED BY <1>2, <1>3, <2>1, <2>2 DEF FragmentsInv
<1>4. FragmentsType'
  BY <1>1, CutTyped
<1>5. (alone => ~mixed)' /\ (Rebuilt /\ NeverMixed)'
  BY <1>2 DEF FragmentsInv, Rebuilt, NeverMixed
<1> QED BY <1>2, <1>3, <1>4, <1>5 DEF FragmentsInv

LEMMA OfferKeeps ==
  ASSUME FragmentsInv, OfferByte
  PROVE  FragmentsInv'
<1>1. FragmentsType /\ msg \in Messages
  BY DEF FragmentsInv, FragmentsType
<1>2. /\ ret = "sending" /\ queue # <<>> /\ link = <<>>
      /\ link' = Append(link, Head(queue)) /\ queue' = Tail(queue)
      /\ msg' = msg /\ frag' = frag /\ inbox' = inbox /\ ret' = ret
      /\ alone' = alone /\ cut' = cut /\ mixed' = mixed
  BY DEF OfferByte
<1>3. ASSUME ~mixed
      PROVE  Good' \/ (Doomed' /\ ~alone')
  <2>1. CASE Good
    <3>1. PICK k \in 0 .. Len(msg.body), x \in U16 :
            \/ Between(k, x) /\ Waiting(inbox, msg, k, x) /\ inbox.hdr = <<>>
            \/ \E p \in 0 .. SizeAt(msg, k) - 1 : InFlight(k, x, p) /\ InStep(inbox, msg, k, x, p)
      BY <1>2, <2>1 DEF Good, Arrived
    <3>2. PICK p \in 0 .. SizeAt(msg, k) - 1 : InFlight(k, x, p) /\ InStep(inbox, msg, k, x, p)
      BY <1>2, <3>1 DEF Between
    <3>3. InFlight(k, x, p)' /\ InStep(inbox, msg, k, x, p)'
      BY <1>1, <1>2, <3>2, OfferPlace
    <3>4. Good'
      BY <1>2, <3>3 DEF Good
    <3> QED BY <3>4
  <2>2. CASE Doomed /\ ~alone
    <3>1. PICK p \in 0 .. HeaderLen - 1 :
            InFlight(0, 0, p) /\ inbox.hdr = SubSeq(BytesAt(msg, 0, 0), 1, p)
      BY <1>2, <2>2 DEF Doomed, Between
    <3>2. InFlight(0, 0, p)'
      BY <1>1, <3>1, DoomedPlace, OfferPlace
    <3>3. Refuses(inbox, msg)' /\ (inbox.hdr = SubSeq(BytesAt(msg, 0, 0), 1, p))'
      BY <1>2, <2>2, <3>1 DEF Doomed
    <3>4. Doomed'
      BY <3>2, <3>3 DEF Doomed
    <3> QED BY <1>2, <2>2, <3>4
  <2> QED BY <1>2, <1>3, <2>1, <2>2 DEF FragmentsInv
<1>4. FragmentsType'
  <2>1. queue \in Seq(U8) /\ <<>> \in Seq(U8)
    BY <1>1 DEF FragmentsType
  <2>2. Head(queue) \in U8 /\ Tail(queue) \in Seq(U8)
    BY <1>2, <2>1, HeadTailProperties
  <2>3. Append(link, Head(queue)) \in Seq(U8)
    BY <1>2, <2>1, <2>2, AppendProperties
  <2>4. FragOK'
    BY <1>1, <1>2 DEF FragmentsType, FragOK
  <2> QED BY <1>1, <1>2, <2>2, <2>3, <2>4 DEF FragmentsType
<1>5. (alone => ~mixed)' /\ (Rebuilt /\ NeverMixed)'
  BY <1>2 DEF FragmentsInv, Rebuilt, NeverMixed
<1> QED BY <1>2, <1>3, <1>4, <1>5 DEF FragmentsInv

(* A byte that reaches an inbox at its place brings it to the next one, or *)
(* overflows the buffer, which the message does not fit.                   *)
LEMMA DeliverGood ==
  ASSUME FragmentsType, Good, Deliver
  PROVE  \/ Good' /\ ret' = "sending"
         \/ ret' = "Overflow" /\ Len(msg.body) > BufLen
<1> DEFINE e == Push(inbox, Head(link))
<1>1. /\ link # <<>> /\ inbox' = e.d /\ msg' = msg /\ queue' = queue /\ frag' = frag
      /\ ret' = IF e.ret \in {"more", "whole"} THEN "sending" ELSE e.ret
  BY DEF Deliver
<1>2. msg \in Messages /\ InboxOK(inbox)
  BY DEF FragmentsType
<1>3. PICK k \in 0 .. Len(msg.body), x \in U16 :
        \E p \in 0 .. SizeAt(msg, k) - 1 : InFlight(k, x, p) /\ InStep(inbox, msg, k, x, p)
  BY <1>1 DEF Good, Arrived, Between
<1>4. PICK p \in 0 .. SizeAt(msg, k) - 1 : InFlight(k, x, p) /\ InStep(inbox, msg, k, x, p)
  BY <1>3
<1> DEFINE b == BytesAt(msg, k, x)
           n == SizeAt(msg, k)
<1>13. PICK k2 : k2 = k + TakeAt(msg, k)
  OBVIOUS
<1>5. /\ Head(link) = b[p + 1] /\ link' = <<>>
      /\ frag' = FragmenterAt(msg, k2, Next16(x), k2 = Len(msg.body))
      /\ p + 1 < n => InFlight(k, x, p + 1)'
      /\ p + 1 = n => queue' = <<>>
  BY <1>4, <1>13, DeliverPlace
<1>6. /\ n \in Nat /\ n >= HeaderLen /\ p \in Nat /\ p < n /\ n = HeaderLen + TakeAt(msg, k)
      /\ TakeAt(msg, k) \in Nat /\ k2 \in 0 .. Len(msg.body) /\ Next16(x) \in U16
  <2>1. TakeAt(msg, k) \in Nat /\ k2 \in 0 .. Len(msg.body) /\ n \in Nat /\ n >= HeaderLen
    BY <1>2, <1>13, TakeFields
  <2>2. n = HeaderLen + TakeAt(msg, k) /\ p \in Nat /\ p < n
    BY <2>1 DEF SizeAt
  <2>3. Next16(x) \in U16
    BY Wraps
  <2> QED BY <2>1, <2>2, <2>3
<1>7. e = Push(inbox, b[p + 1]) /\ b = BytesAt(msg, k, x) /\ k2 = k + TakeAt(msg, k)
  BY <1>5, <1>13
<1>8. ASSUME p + 1 < n, InStep(e.d, msg, k, x, p + 1), e.ret = "more"
      PROVE  Good' /\ ret' = "sending"
  <2>1. p + 1 \in 0 .. SizeAt(msg, k) - 1
    BY <1>6, <1>8
  <2>2. InFlight(k, x, p + 1)' /\ InStep(inbox, msg, k, x, p + 1)'
    BY <1>1, <1>5, <1>8
  <2>3. Good'
    BY <1>1, <2>1, <2>2 DEF Good
  <2> QED BY <1>1, <1>8, <2>3
<1>9. ASSUME p + 1 = n, k2 = Len(msg.body), Holds(e.d, msg), Len(msg.body) <= BufLen,
             e.ret = "whole"
      PROVE  Good' /\ ret' = "sending"
  <2>1. frag'.done
    <3>1. frag' = FragmenterAt(msg, k2, Next16(x), TRUE)
      BY <1>5, <1>9
    <3> QED BY <3>1 DEF FragmenterAt
  <2>2. Arrived'
    BY <1>1, <1>5, <1>9, <2>1 DEF Arrived
  <2> QED BY <1>1, <1>9, <2>2 DEF Good
<1>10. ASSUME p + 1 = n, k2 # Len(msg.body), Waiting(e.d, msg, k2, Next16(x)),
              e.d.hdr = <<>>, e.ret = "more"
       PROVE  Good' /\ ret' = "sending"
  <2>1. frag' = FragmenterAt(msg, k2, Next16(x), FALSE)
    BY <1>5, <1>10
  <2>2. Between(k2, Next16(x))'
    BY <1>1, <1>5, <1>10, <2>1 DEF Between
  <2>3. (Waiting(inbox, msg, k2, Next16(x)) /\ inbox.hdr = <<>>)'
    BY <1>1, <1>10
  <2>5. k2 \in 0 .. Len(msg'.body) /\ Next16(x) \in U16
    BY <1>1, <1>6
  <2>4. Good'
    BY <2>2, <2>3, <2>5 DEF Good
  <2> QED BY <1>1, <1>10, <2>4
<1>11. CASE p < HeaderLen
  <2>1. p \in 0 .. HeaderLen - 1 /\ Waiting(inbox, msg, k, x) /\ inbox.hdr = SubSeq(b, 1, p)
    BY <1>4, <1>6, <1>11 DEF InStep, HeaderLen
  <2> HIDE DEF e, b
  <2>2. /\ p + 1 < HeaderLen =>
             e.ret = "more" /\ Waiting(e.d, msg, k, x) /\ e.d.hdr = SubSeq(b, 1, p + 1)
        /\ p + 1 = HeaderLen /\ TakeAt(msg, k) # 0 =>
             e.ret = "more" /\ Inside(e.d, msg, k, x, HeaderLen)
        /\ p + 1 = HeaderLen /\ TakeAt(msg, k) = 0 =>
             e.ret = "whole" /\ Holds(e.d, msg) /\ Len(msg.body) <= BufLen
    BY <1>2, <1>7, <2>1, PushWaiting
  <2>3. CASE p + 1 < HeaderLen
    <3>1. InStep(e.d, msg, k, x, p + 1) /\ e.ret = "more"
      BY <2>2, <2>3 DEF InStep, b
    <3>2. p + 1 < n
      BY <1>6, <2>3 DEF HeaderLen
    <3> QED BY <1>8, <3>1, <3>2
  <2>4. CASE p + 1 = HeaderLen /\ TakeAt(msg, k) # 0
    <3>1. InStep(e.d, msg, k, x, p + 1) /\ e.ret = "more"
      BY <2>2, <2>4 DEF InStep, HeaderLen
    <3>2. p + 1 < n
      BY <1>6, <2>4 DEF HeaderLen
    <3> QED BY <1>8, <3>1, <3>2
  <2>5. CASE p + 1 = HeaderLen /\ TakeAt(msg, k) = 0
    <3>1. p + 1 = n /\ k2 = Len(msg.body)
      BY <1>2, <1>6, <1>13, <2>5, TakeFields DEF HeaderLen
    <3> QED BY <1>9, <2>2, <2>5, <3>1
  <2> QED BY <1>6, <1>11, <2>3, <2>4, <2>5 DEF HeaderLen
<1>12. CASE ~(p < HeaderLen)
  <2>1. p \in HeaderLen .. SizeAt(msg, k) - 1 /\ Inside(inbox, msg, k, x, p)
    BY <1>4, <1>6, <1>12 DEF InStep, HeaderLen
  <2>2. Len(inbox.buf) \in Nat /\ BufLen \in Nat
    BY <1>2, FragmentsAssumption DEF InboxOK, InboxType
  <2> HIDE DEF e, b
  <2>3. /\ Len(inbox.buf) >= BufLen => e.ret = "Overflow" /\ Len(msg.body) > BufLen
        /\ Len(inbox.buf) < BufLen /\ p + 1 < SizeAt(msg, k) =>
             e.ret = "more" /\ Inside(e.d, msg, k, x, p + 1)
        /\ Len(inbox.buf) < BufLen /\ p + 1 = SizeAt(msg, k) /\ k2 = Len(msg.body) =>
             e.ret = "whole" /\ Holds(e.d, msg) /\ Len(msg.body) <= BufLen
        /\ Len(inbox.buf) < BufLen /\ p + 1 = SizeAt(msg, k) /\ k2 # Len(msg.body) =>
             e.ret = "more" /\ Waiting(e.d, msg, k2, Next16(x)) /\ e.d.hdr = <<>>
    BY <1>2, <1>7, <2>1, PushInside
  <2>4. CASE Len(inbox.buf) >= BufLen
    BY <1>1, <2>3, <2>4
  <2>5. CASE Len(inbox.buf) < BufLen /\ p + 1 < n
    <3>1. InStep(e.d, msg, k, x, p + 1) /\ e.ret = "more"
      BY <1>6, <1>12, <2>3, <2>5 DEF InStep, HeaderLen
    <3> QED BY <1>8, <2>5, <3>1
  <2>6. CASE Len(inbox.buf) < BufLen /\ p + 1 = n /\ k2 = Len(msg.body)
    BY <1>9, <2>3, <2>6
  <2>7. CASE Len(inbox.buf) < BufLen /\ p + 1 = n /\ k2 # Len(msg.body)
    BY <1>10, <2>3, <2>7
  <2> QED BY <1>6, <2>2, <2>4, <2>5, <2>6, <2>7
<1> QED BY <1>11, <1>12

LEMMA DeliverDoomed ==
  ASSUME FragmentsType, Doomed, Deliver
  PROVE  \/ Doomed' /\ ret' = "sending"
         \/ ret' \in {"Closed", "OutOfOrder"}
<1> DEFINE e == Push(inbox, Head(link))
           b == BytesAt(msg, 0, 0)
<1>1. /\ link # <<>> /\ inbox' = e.d /\ msg' = msg
      /\ ret' = IF e.ret \in {"more", "whole"} THEN "sending" ELSE e.ret
  BY DEF Deliver
<1>2. /\ msg \in Messages /\ InboxOK(inbox) /\ Refuses(inbox, msg)
      /\ 0 \in 0 .. Len(msg.body) /\ 0 \in U16
  BY DoomedPlace DEF FragmentsType, Doomed
<1>3. PICK p \in 0 .. HeaderLen - 1 : InFlight(0, 0, p) /\ inbox.hdr = SubSeq(b, 1, p)
  BY <1>1 DEF Doomed, Between
<1>4. p \in 0 .. SizeAt(msg, 0) - 1 /\ SizeAt(msg, 0) \in Nat /\ SizeAt(msg, 0) >= HeaderLen
  BY DoomedPlace
<1>5. Head(link) = b[p + 1] /\ (p + 1 < SizeAt(msg, 0) => InFlight(0, 0, p + 1)')
  BY <1>2, <1>3, <1>4, DeliverPlace
<1>6. e = Push(inbox, b[p + 1]) /\ b = BytesAt(msg, 0, 0)
  BY <1>5
<1> HIDE DEF e, b
<1>7. \/ e.ret \in {"Closed", "OutOfOrder"}
      \/ /\ p + 1 < HeaderLen /\ e.ret = "more" /\ Refuses(e.d, msg)
         /\ e.d.hdr = SubSeq(b, 1, p + 1)
  BY <1>2, <1>3, <1>6, PushRefused
<1>8. CASE e.ret \in {"Closed", "OutOfOrder"}
  BY <1>1, <1>8
<1>9. CASE /\ p + 1 < HeaderLen /\ e.ret = "more" /\ Refuses(e.d, msg)
           /\ e.d.hdr = SubSeq(b, 1, p + 1)
  <2>1. p + 1 \in 0 .. HeaderLen - 1 /\ InFlight(0, 0, p + 1)'
    BY <1>4, <1>5, <1>9 DEF HeaderLen
  <2>2. Refuses(inbox, msg)' /\ (inbox.hdr = SubSeq(BytesAt(msg, 0, 0), 1, p + 1))'
    BY <1>1, <1>9 DEF b
  <2>3. Doomed'
    BY <2>1, <2>2 DEF Doomed
  <2> QED BY <1>1, <1>9, <2>3
<1> QED BY <1>7, <1>8, <1>9

LEMMA DeliverKeeps ==
  ASSUME FragmentsInv, Deliver
  PROVE  FragmentsInv'
<1> DEFINE e == Push(inbox, Head(link))
<1>1. FragmentsType /\ InboxOK(inbox)
  BY DEF FragmentsInv, FragmentsType
<1>2. /\ ret = "sending" /\ link # <<>> /\ inbox' = e.d /\ link' = Tail(link)
      /\ ret' = IF e.ret \in {"more", "whole"} THEN "sending" ELSE e.ret
      /\ msg' = msg /\ queue' = queue /\ frag' = frag
      /\ alone' = alone /\ cut' = cut /\ mixed' = mixed
  BY DEF Deliver
<1>3. Head(link) \in U8 /\ Tail(link) \in Seq(U8)
  BY <1>1, <1>2, HeadTailProperties DEF FragmentsType
<1>4. /\ InboxOK(e.d)
      /\ e.ret \in {"more", "whole", "Closed", "Header", "OutOfOrder", "Overflow"}
  BY <1>1, <1>3, PushTyped
<1> HIDE DEF e
<1>5. ret' # "true"
  BY <1>2, <1>4
<1>6. FragmentsType'
  <2>1. FragOK'
    BY <1>1, <1>2 DEF FragmentsType, FragOK
  <2> QED BY <1>1, <1>2, <1>3, <1>4, <2>1 DEF FragmentsType
<1>7. (alone => ~mixed)' /\ NeverMixed'
  BY <1>2, <1>5 DEF FragmentsInv, NeverMixed
<1>8. CASE mixed
  <2>1. Rebuilt'
    BY <1>2, <1>8 DEF FragmentsInv, Rebuilt
  <2> QED BY <1>2, <1>6, <1>7, <1>8, <2>1 DEF FragmentsInv
<1>9. CASE ~mixed /\ Good
  <2>1. \/ Good' /\ ret' = "sending"
        \/ ret' = "Overflow" /\ Len(msg.body) > BufLen
    BY <1>1, <1>9, DeliverGood
  <2>2. Len(msg.body) \in Nat /\ BufLen \in Nat
    BY <1>1, MessageFields, FragmentsAssumption DEF FragmentsType
  <2>3. Rebuilt' /\ (ret' = "sending" => Good')
    BY <1>2, <2>1, <2>2 DEF Rebuilt
  <2> QED BY <1>6, <1>7, <2>3 DEF FragmentsInv
<1>10. CASE ~mixed /\ Doomed /\ ~alone
  <2>1. \/ Doomed' /\ ret' = "sending"
        \/ ret' \in {"Closed", "OutOfOrder"}
    BY <1>1, <1>10, DeliverDoomed
  <2>2. Rebuilt' /\ (ret' = "sending" => Doomed' /\ ~alone')
    BY <1>2, <1>10, <2>1 DEF Rebuilt
  <2> QED BY <1>6, <1>7, <2>2 DEF FragmentsInv
<1> QED BY <1>2, <1>8, <1>9, <1>10 DEF FragmentsInv

LEMMA GiveUpKeeps ==
  ASSUME FragmentsInv, GiveUp
  PROVE  FragmentsInv'
<1>1. /\ ret' = "false" /\ cut' = TRUE /\ link' \in {link, <<>>}
      /\ msg' = msg /\ frag' = frag /\ queue' = queue /\ inbox' = inbox
      /\ alone' = alone /\ mixed' = mixed
  BY DEF GiveUp
<1>2. FragmentsType'
  <2>1. FragmentsType
    BY DEF FragmentsInv
  <2>2. FragOK'
    BY <1>1, <2>1 DEF FragmentsType, FragOK
  <2>3. link' \in Seq(U8)
    BY <1>1, <2>1, EmptySeq DEF FragmentsType
  <2> QED BY <1>1, <2>1, <2>2, <2>3 DEF FragmentsType
<1>3. (alone => ~mixed)' /\ Rebuilt' /\ NeverMixed' /\ ret' # "sending"
  BY <1>1 DEF FragmentsInv, Rebuilt, NeverMixed
<1> QED BY <1>2, <1>3 DEF FragmentsInv

(* At the end of the loop the inbox has arrived: an inbox that refuses     *)
(* has ended the call before.                                              *)
LEMMA ReturnKeeps ==
  ASSUME FragmentsInv, Return
  PROVE  FragmentsInv'
<1>1. /\ ret = "sending" /\ queue = <<>> /\ link = <<>> /\ frag.done
      /\ ret' = IF inbox.complete THEN "true" ELSE "false"
      /\ msg' = msg /\ frag' = frag /\ queue' = queue /\ link' = link /\ inbox' = inbox
      /\ alone' = alone /\ cut' = cut /\ mixed' = mixed
  BY DEF Return
<1>2. FragmentsType
  BY DEF FragmentsInv
<1>3. FragmentsType'
  <2>1. FragOK'
    BY <1>1, <1>2 DEF FragmentsType, FragOK
  <2> QED BY <1>1, <1>2, <2>1 DEF FragmentsType
<1>4. ~Between(0, 0) /\ \A k \in 0 .. Len(msg.body), x \in U16 : ~Between(k, x)
  BY <1>1 DEF Between, FragmenterAt
<1>5. ~Doomed
  BY <1>1, <1>2, <1>4, DoomedPlace, FlightBusy DEF Doomed
<1>6. Good => Arrived
  BY <1>1, <1>2, <1>4, FlightBusy DEF Good
<1>7. ~mixed => Holds(inbox, msg) /\ Len(msg.body) <= BufLen
  BY <1>1, <1>5, <1>6 DEF FragmentsInv, Arrived
<1>8. ~mixed => ret' = "true" /\ Holds(inbox', msg') /\ Len(msg'.body) <= BufLen
  BY <1>1, <1>7 DEF Holds
<1>9. (alone => ~mixed)' /\ Rebuilt' /\ NeverMixed' /\ ret' # "sending"
  BY <1>1, <1>8 DEF FragmentsInv, Rebuilt, NeverMixed
<1> QED BY <1>3, <1>9 DEF FragmentsInv

-----------------------------------------------------------------------------
(***************************************************************************)
(* The invariant holds for every width of a byte, buffer length, set of    *)
(* ids, set of body lengths and values of max_fragment, and for any number *)
(* of calls: as long as bytes of two messages were not run together, the   *)
(* Defragmenter is at the place of the Fragmenter or refuses the message.  *)
(***************************************************************************)
THEOREM FragmentsInvariance == Spec => []FragmentsInv
<1>1. Init => FragmentsInv
  BY FragmentsStart
<1>2. FragmentsInv /\ [Next]_vars => FragmentsInv'
  <2> SUFFICES ASSUME FragmentsInv, [Next]_vars
               PROVE  FragmentsInv'
    OBVIOUS
  <2>1. ASSUME NEW m \in Messages, NEW reset \in BOOLEAN, Begin(m, reset)
        PROVE  FragmentsInv'
    BY <2>1, BeginKeeps
  <2>2. CASE CutFragment
    BY <2>2, CutKeeps
  <2>3. CASE OfferByte
    BY <2>3, OfferKeeps
  <2>4. CASE Deliver
    BY <2>4, DeliverKeeps
  <2>5. CASE GiveUp
    BY <2>5, GiveUpKeeps
  <2>6. CASE Return
    BY <2>6, ReturnKeeps
  <2>7. CASE UNCHANGED vars
    <3>1. /\ msg' = msg /\ frag' = frag /\ queue' = queue /\ link' = link /\ inbox' = inbox
          /\ ret' = ret /\ alone' = alone /\ cut' = cut /\ mixed' = mixed
      BY <2>7 DEF vars
    <3>2. FragmentsType' /\ Rebuilt' /\ NeverMixed'
      BY <3>1 DEF FragmentsInv, FragmentsType, FragOK, Rebuilt, NeverMixed
    <3>3. Good => Good'
      BY <3>1 DEF Good, Arrived, Between, InFlight
    <3>4. Doomed => Doomed'
      BY <3>1 DEF Doomed, Between, InFlight
    <3> QED BY <3>1, <3>2, <3>3, <3>4 DEF FragmentsInv
  <2> QED BY <2>1, <2>2, <2>3, <2>4, <2>5, <2>6, <2>7 DEF Next
<1> QED BY <1>1, <1>2, PTL DEF Spec

(***************************************************************************)
(* A send_message that is not cut off, into an inbox that was reset with   *)
(* nothing under way, returns true exactly when the body fits the buffer,  *)
(* and the inbox then holds the message byte for byte: for a body of any   *)
(* length, in fragments of any size, also when the u16 fragment counter    *)
(* wraps.                                                                  *)
(***************************************************************************)
THEOREM SentIsRebuilt == Spec => []Rebuilt
<1>1. FragmentsInv => Rebuilt
  BY DEF FragmentsInv
<1> QED BY <1>1, FragmentsInvariance, PTL

(***************************************************************************)
(* send_message never returns true for another message than the one sent,  *)
(* outside the three cases of Begin.                                       *)
(***************************************************************************)
THEOREM TrueIsOurs == Spec => []NeverMixed
<1>1. FragmentsInv => NeverMixed
  BY DEF FragmentsInv
<1> QED BY <1>1, FragmentsInvariance, PTL
=============================================================================
