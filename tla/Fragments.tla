------------------------------ MODULE Fragments ------------------------------
(***************************************************************************)
(* Messages over an established link: Fragmenter and Defragmenter          *)
(* (src/p2p/stream.rs), and the loop of send_message that drives them      *)
(* (src/p2p/drive.rs).                                                     *)
(*                                                                         *)
(* A byte is a number below Radix, so that the bytes of a header can be    *)
(* taken for payload and payload for a header, as they are when the two    *)
(* ends lose their place.  The link underneath delivers bytes in order;    *)
(* it loses only what is under way when a send gives up.                   *)
(***************************************************************************)
EXTENDS Integers, Sequences

CONSTANTS Radix,         \* Values of a u8; a u16 has Radix^2
          BufLen,        \* Length of the caller's buffer
          Streams, Ids,  \* Stream and message ids in use
          Lengths,       \* Lengths of the bodies that are sent
          Chunks,        \* Values of max_fragment
          MaxSends       \* Bound: messages that are begun

HeaderLen == 7
U8 == 0 .. Radix - 1
U16 == 0 .. Radix * Radix - 1

ASSUME FragmentsAssumption ==
  /\ Radix \in Nat /\ Radix >= 2 /\ BufLen \in Nat /\ MaxSends \in Nat
  /\ Streams \subseteq U8 /\ Ids \subseteq U16
  /\ Lengths \subseteq Nat /\ Chunks \subseteq U8

(* wrapping_add(1) on a u16 *)
Next16(n) == (n + 1) % (Radix * Radix)

-----------------------------------------------------------------------------
(* MessageHeader: seven bytes, the ids big-endian; flags other than LAST   *)
(* are refused.                                                            *)
ToBytes(h) ==
  <<h.stream, h.message \div Radix, h.message % Radix,
    h.fragment \div Radix, h.fragment % Radix, IF h.last THEN 1 ELSE 0, h.len>>

FlagsOk(bytes) == bytes[6] \in {0, 1}

FromBytes(bytes) ==
  [stream |-> bytes[1], message |-> bytes[2] * Radix + bytes[3],
   fragment |-> bytes[4] * Radix + bytes[5], last |-> bytes[6] = 1, len |-> bytes[7]]

-----------------------------------------------------------------------------
(* Fragmenter *)

FragmenterNew(m) ==
  [stream |-> m.stream, message |-> m.id, rest |-> m.body, fragment |-> 0,
   chunk |-> IF m.chunk = 0 THEN 1 ELSE m.chunk, done |-> FALSE]

Least2(a, b) == IF a < b THEN a ELSE b

(* next_fragment: the fragmenter after it, and the bytes of the fragment.  *)
(* An empty body has one fragment, empty and last.                         *)
NextFragment(g) ==
  LET take == Least2(g.chunk, Len(g.rest))
      rest == SubSeq(g.rest, take + 1, Len(g.rest))
      last == rest = <<>>
      header == [stream |-> g.stream, message |-> g.message,
                 fragment |-> g.fragment, last |-> last, len |-> take]
  IN [frag |-> [g EXCEPT !.rest = rest, !.done = last, !.fragment = Next16(@)],
      bytes |-> ToBytes(header) \o SubSeq(g.rest, 1, take)]

-----------------------------------------------------------------------------
(* Defragmenter.  hdr holds the header bytes so far, buf the bytes of the  *)
(* message so far; -1 and NoHeader stand for None.                         *)

NoHeader == [stream |-> -1, message |-> -1, fragment |-> -1, last |-> FALSE, len |-> -1]

(* new, and reset *)
DefragNew == [buf |-> <<>>, hdr |-> <<>>, current |-> NoHeader, chunk_got |-> 0,
              expect_frag |-> 0, stream |-> -1, message |-> -1, complete |-> FALSE]

Rejected(d, why) == [d |-> d, ret |-> why]

(* Mutant of FinishChunk: the fragment counter of the receiving side does  *)
(* not wrap.                                                               *)
FinishChunkNoWrap(d) ==
  IF d.current.last
    THEN [d |-> [d EXCEPT !.current = NoHeader, !.complete = TRUE], ret |-> "whole"]
    ELSE [d |-> [d EXCEPT !.current = NoHeader, !.expect_frag = @ + 1], ret |-> "more"]

FinishChunk(d) ==
  IF d.current.last
    THEN [d |-> [d EXCEPT !.current = NoHeader, !.complete = TRUE], ret |-> "whole"]
    ELSE [d |-> [d EXCEPT !.current = NoHeader, !.expect_frag = Next16(@)], ret |-> "more"]

(* Mutant of TakeHeader: the fragment index alone is compared. *)
TakeHeaderAny(d, header) ==
  IF header.fragment # d.expect_frag THEN Rejected(d, "OutOfOrder")
  ELSE LET locked == [d EXCEPT !.stream = header.stream, !.message = header.message,
                               !.current = header, !.chunk_got = 0]
       IN IF header.len = 0 THEN FinishChunk(locked) ELSE [d |-> locked, ret |-> "more"]

(* A whole header: the first one locks stream and message. *)
TakeHeader(d, header) ==
  IF \/ header.fragment # d.expect_frag
     \/ d.stream \notin {-1, header.stream}
     \/ d.message \notin {-1, header.message}
    THEN Rejected(d, "OutOfOrder")
  ELSE LET locked == [d EXCEPT !.stream = header.stream, !.message = header.message,
                               !.current = header, !.chunk_got = 0]
       IN IF header.len = 0 THEN FinishChunk(locked) ELSE [d |-> locked, ret |-> "more"]

PushHeader(d, byte) ==
  LET hdr == Append(d.hdr, byte)
      empty == [d EXCEPT !.hdr = <<>>]
  IN IF Len(hdr) < HeaderLen THEN [d |-> [d EXCEPT !.hdr = hdr], ret |-> "more"]
     ELSE IF ~FlagsOk(hdr) THEN Rejected(empty, "Header")
     ELSE TakeHeader(empty, FromBytes(hdr))

Push(d, byte) ==
  IF d.complete THEN Rejected(d, "Closed")
  ELSE IF d.current = NoHeader THEN PushHeader(d, byte)
  ELSE IF Len(d.buf) >= BufLen THEN Rejected(d, "Overflow")
  ELSE LET got == [d EXCEPT !.buf = Append(@, byte), !.chunk_got = @ + 1]
       IN IF got.chunk_got >= d.current.len THEN FinishChunk(got)
          ELSE [d |-> got, ret |-> "more"]

-----------------------------------------------------------------------------
VARIABLES
  msg,      \* the message of the last call of send_message
  frag,     \* its Fragmenter
  queue,    \* bytes of the fragment at hand that are not offered yet
  link,     \* bytes offered and not delivered, those of a send that gave up first
  inbox,    \* the Defragmenter
  ret,      \* what the call returned, or "sending"
  sends,
  alone,    \* history: since the last reset the inbox was fed msg only
  cut,      \* history: the call gave up
  mixed     \* history: a message was begun inside another one, see Begin

vars == <<msg, frag, queue, link, inbox, ret, sends, alone, cut, mixed>>

Body(n) == [i \in 1 .. n |-> i % Radix]

Messages == {[stream |-> s, id |-> i, body |-> Body(n), chunk |-> c] :
               s \in Streams, i \in Ids, n \in Lengths, c \in Chunks}

Init ==
  /\ msg \in Messages
  /\ frag = FragmenterNew(msg)
  /\ queue = <<>> /\ link = <<>> /\ inbox = DefragNew
  /\ ret = "sending" /\ sends = 1
  /\ alone = TRUE /\ cut = FALSE /\ mixed = FALSE

(***************************************************************************)
(* send_message resets the inbox.  An application with a loop of its own   *)
(* may leave that out.  mixed records that the inbox was then in the       *)
(* middle of a fragment, or that bytes of a send that gave up were still   *)
(* under way, or that the fragment counter of a message of the same name   *)
(* had come round to zero.                                                 *)
(***************************************************************************)
Begin(m, reset) ==
  /\ ret # "sending" /\ sends < MaxSends
  /\ sends' = sends + 1 /\ ret' = "sending" /\ cut' = FALSE
  /\ msg' = m /\ frag' = FragmenterNew(m) /\ queue' = <<>>
  /\ inbox' = IF reset THEN DefragNew ELSE inbox
  /\ alone' = (reset /\ link = <<>>)
  /\ mixed' = \/ link # <<>>
              \/ ~reset /\ mixed
              \/ /\ ~reset /\ inbox # DefragNew /\ ~inbox.complete
                 /\ \/ inbox.hdr # <<>> \/ inbox.current # NoHeader
                    \/ /\ inbox.expect_frag = 0
                       /\ m.stream = inbox.stream /\ m.id = inbox.message
  /\ UNCHANGED link

(* next_fragment, when the last byte of a fragment is ACKed. *)
CutFragment ==
  /\ ret = "sending" /\ queue = <<>> /\ link = <<>> /\ ~frag.done
  /\ frag' = NextFragment(frag).frag
  /\ queue' = NextFragment(frag).bytes
  /\ UNCHANGED <<msg, link, inbox, ret, sends, alone, cut, mixed>>

(* offer_byte returns when the byte is ACKed, hence delivered. *)
OfferByte ==
  /\ ret = "sending" /\ queue # <<>> /\ link = <<>>
  /\ link' = Append(link, Head(queue))
  /\ queue' = Tail(queue)
  /\ UNCHANGED <<msg, frag, inbox, ret, sends, alone, cut, mixed>>

(* Received: the byte is pushed, and an error ends the call. *)
Deliver ==
  LET p == Push(inbox, Head(link))
  IN /\ ret = "sending" /\ link # <<>>
     /\ inbox' = p.d
     /\ link' = Tail(link)
     /\ ret' = IF p.ret \in {"more", "whole"} THEN "sending" ELSE p.ret
     /\ UNCHANGED <<msg, frag, queue, sends, alone, cut, mixed>>

(* The steps ran out, or the link failed or was aborted: what is under way *)
(* is lost, or arrives in the middle of the next call.                     *)
GiveUp ==
  /\ ret = "sending"
  /\ ret' = "false" /\ cut' = TRUE
  /\ link' \in {link, <<>>}
  /\ UNCHANGED <<msg, frag, queue, inbox, sends, alone, mixed>>

Return ==
  /\ ret = "sending" /\ queue = <<>> /\ link = <<>> /\ frag.done
  /\ ret' = IF inbox.complete THEN "true" ELSE "false"
  /\ UNCHANGED <<msg, frag, queue, link, inbox, sends, alone, cut, mixed>>

Next ==
  \/ \E m \in Messages, reset \in BOOLEAN : Begin(m, reset)
  \/ CutFragment \/ OfferByte \/ Deliver \/ GiveUp \/ Return

Spec == Init /\ [][Next]_vars

-----------------------------------------------------------------------------
Holds(d, m) == d.complete /\ d.buf = m.body /\ d.stream = m.stream /\ d.message = m.id

(***************************************************************************)
(* A send that is not given up, into an inbox that was reset with nothing  *)
(* under way, returns true exactly when the body fits the buffer, and the  *)
(* inbox then holds the message: for an empty body, one that ends with a   *)
(* full fragment, one that fills the buffer to its last byte, and one of   *)
(* more fragments than a u16 counts.                                       *)
(***************************************************************************)
Rebuilt ==
  alone /\ ~cut /\ ret # "sending" =>
    IF Len(msg.body) <= BufLen THEN ret = "true" /\ Holds(inbox, msg)
                               ELSE ret = "Overflow"

(***************************************************************************)
(* true is never returned for another message than the one sent, whatever  *)
(* was cut before and however often reset was left out: a message that     *)
(* begins at the end of a fragment of another one is refused.  The         *)
(* exceptions are the three of Begin, in which bytes of two messages are   *)
(* taken for one and nothing in the header tells.                          *)
(***************************************************************************)
NeverMixed == ret = "true" /\ ~mixed => Holds(inbox, msg)
=============================================================================
