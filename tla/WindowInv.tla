----------------------------- MODULE WindowInv -----------------------------
(***************************************************************************)
(* The inductive invariant behind InOrder, CloseIsComplete, AckedIsHeld    *)
(* and the refinement of ByteStream, for windowed links whose sessions     *)
(* open on a drained line.                                                 *)
(*                                                                         *)
(* Positions replace SEQ: START is at position 0, the i-th byte of the     *)
(* session at i, FINISH and ABORT after the last byte offered.  What the   *)
(* two ends can still meet is never further from where they stand than the *)
(* three windows that WindowAssumption lets SEQ tell apart.                *)
(***************************************************************************)
EXTENDS Window

(* Bytes that have left the reorder buffer. *)
n == Len(delivered) + Len(rx.emit)

SlotOf(kind) == {i \in Used(tx) : tx.slots[i].kind = kind}

(* The session is neither closed nor being aborted; its START is under way *)
(* or acknowledged.                                                        *)
Active == ~WClosed(tx) /\ SlotOf("Abort") = {}

Opening == Active /\ SlotOf("Start") # {}

Streaming == Active /\ SlotOf("Start") = {}

-----------------------------------------------------------------------------
(***************************************************************************)
(* TypeOK, with what keeps acked within the positions offered: a DATA slot *)
(* is about a byte of this session.                                        *)
(***************************************************************************)
TypeInv ==
  /\ TypeOK
  /\ sess \in Nat /\ sent \in Nat
  /\ \A i \in Used(tx) : tx.slots[i].kind = "Data" => tx.slots[i].pos \in 1 .. sent

(* The sender. *)

(* A closed sender has nothing in the air; START, FINISH and ABORT are     *)
(* alone there.                                                            *)
TxCoherent ==
  /\ WClosed(tx) => Used(tx) = {} /\ tx.writing = 0
  /\ \A i, j \in Used(tx) : tx.slots[i].kind # "Data" => i = j

DataSlot(i) ==
  /\ tx.slots[i].sess = sess
  /\ tx.slots[i].pos \in 1 .. sent
  /\ tx.slots[i].seq = SeqOf(tx.slots[i].pos)
  /\ sent - tx.slots[i].pos < tx.limit

(* Every byte offered is acknowledged or in a slot. *)
Covered == \A p \in 1 .. sent : \/ p \in acked
                                \/ \E i \in SlotOf("Data") : tx.slots[i].pos = p

SlotInv ==
  /\ \A i \in SlotOf("Data") : DataSlot(i)
  /\ \A i, j \in SlotOf("Data") : tx.slots[i].pos = tx.slots[j].pos => i = j
  /\ \A i \in SlotOf("Start") :
       sent = 0 /\ acked = {} /\ tx.slots[i].seq = 0 /\ tx.slots[i].pos = 0
  /\ \A i \in SlotOf("Finish") :
       /\ tx.slots[i].seq = sent % SeqMod /\ tx.slots[i].pos = sent + 1
       /\ 1 .. sent \subseteq acked
  /\ Streaming => tx.next_seq = sent % SeqMod /\ Covered

-----------------------------------------------------------------------------
(* The receiver. *)

(* The receiver is in this session: it expects the next byte, and what it  *)
(* keeps are bytes of the session, each at its offset.                     *)
RxJoined ==
  /\ rx.expected = n % SeqMod
  /\ \A o \in Offsets : rx.buf[o] # NoByte =>
       rx.buf[o] = [sess |-> sess, pos |-> n + 1 + o] /\ n + 1 + o <= sent

EmitInOrder ==
  \A i \in 1 .. Len(rx.emit) : rx.emit[i] = [sess |-> sess, pos |-> Len(delivered) + i]

Counts == InOrder /\ EmitInOrder /\ n <= sent /\ sent <= n + 2 * WindowLen

(* All acknowledged bytes but the first are with the receiver. *)
AcksHeld == ~rx.abort_latched => \A i \in acked : Held(i) \/ i = 1

RxInv ==
  /\ Counts
  /\ Streaming => ~rx.abort_latched /\ RxJoined
  /\ sent > 0 => rx.abort_latched \/ RxJoined
  /\ IsFinished(rx) => n = sent /\ rx.emit = <<>> /\ rx.action # "Drain"
  /\ Streaming /\ IsFinished(rx) => SlotOf("Finish") # {}
  /\ rx.action = "Drain" => sent > 0 /\ ~IsClosed(rx)
  /\ tx.state = "Finished" => Len(delivered) = sent
  /\ AcksHeld

-----------------------------------------------------------------------------
(* The wire to the receiver. *)

(* Nothing beyond position x has reached the receiver. *)
TakenUpTo(x) == n <= x /\ \A o \in Offsets : rx.buf[o] # NoByte => n + 1 + o <= x

IsAck(f) == f.type = "Ack"

(* No ACK but that of START is under way. *)
OnlyStartAcks ==
  /\ \A k \in 1 .. Len(back) : IsAck(back[k]) => back[k].pos = 0
  /\ Replying(rx) /\ IsAck(rx.reply) => rx.reply.pos = 0

FwdData(f) ==
  /\ f.sess = sess /\ f.pos \in 1 .. sent /\ f.seq = SeqOf(f.pos)
  /\ rx.abort_latched \/ TakenUpTo(f.pos + WindowLen - 1)

FwdStart(f) ==
  /\ f.pos = 0 /\ n = 0 /\ rx.action # "Drain" /\ acked \subseteq {1}
  /\ Active => OnlyStartAcks

FwdFinish(f) ==
  /\ f.pos = sent + 1 /\ f.seq = sent % SeqMod /\ 1 .. sent \subseteq acked
  /\ Active => SlotOf("Finish") # {}

FwdFrame(f) ==
  /\ f.type \in {"Data", "Start", "Finish", "Abort", "Bad", "Torn"}
  /\ f.type = "Data" => FwdData(f)
  /\ f.type = "Start" => FwdStart(f)
  /\ f.type = "Finish" => FwdFinish(f)
  /\ f.type = "Abort" => ~Active

(* g follows f on the wire: no frame of the session comes before START,    *)
(* and DATA is at most a window out of order.                              *)
Follows(f, g) ==
  /\ g.type = "Start" => f.type \notin {"Data", "Finish", "Abort"}
  /\ f.type = "Data" /\ g.type = "Data" => f.pos <= g.pos + WindowLen - 1

FwdInv ==
  /\ \A k \in 1 .. Len(fwd) : FwdFrame(fwd[k])
  /\ \A j, k \in 1 .. Len(fwd) : j < k => Follows(fwd[j], fwd[k])

-----------------------------------------------------------------------------
(* The wire to an active sender. *)

AckFrame(a) ==
  /\ a.pos = 0 => a.seq = 0 /\ acked \subseteq {1}
  /\ a.pos \in 1 .. sent => a.seq = SeqOf(a.pos) /\ Held(a.pos)
  /\ a.pos > sent => /\ a.pos = sent + 1 /\ a.seq = sent % SeqMod
                     /\ IsFinished(rx) /\ SlotOf("Finish") # {}
  /\ Opening => a.pos = 0 /\ ~IsClosed(rx) /\ RxJoined

(* Of the positions up to two windows after p one is acknowledged neither  *)
(* to the sender nor by the first m frames under way to it.                *)
Unacked(p, m) ==
  \E u \in 2 .. p + 2 * WindowLen :
    /\ u \notin acked
    /\ \A i \in 1 .. m : IsAck(back[i]) => back[i].pos # u

(* The ACK a with m frames before it. *)
AckAfter(a, m) == AckFrame(a) /\ (a.pos \in 1 .. sent => Unacked(a.pos, m))

AcksSound == \A k \in 1 .. Len(back) : IsAck(back[k]) => AckAfter(back[k], k - 1)

StartAcksFirst ==
  \A j, k \in 1 .. Len(back) :
    j < k /\ IsAck(back[j]) /\ IsAck(back[k]) /\ back[k].pos = 0 => back[j].pos = 0

ReplySound ==
  Replying(rx) /\ IsAck(rx.reply) =>
    /\ AckAfter(rx.reply, Len(back))
    /\ rx.reply.pos = 0 => OnlyStartAcks

BackInv == Active => AcksSound /\ StartAcksFirst /\ ReplySound

WInv == TypeInv /\ TxCoherent /\ SlotInv /\ RxInv /\ FwdInv /\ BackInv
=============================================================================
