------------------------------ MODULE StopWait ------------------------------
(***************************************************************************)
(* One direction of a PSICOSE-1B link: a stop-and-wait Sender, a Receiver  *)
(* and the two byte wires between them, under an application that opens    *)
(* sessions, offers bytes, finishes and aborts.                            *)
(*                                                                         *)
(* Both sides move one byte per poll.  A frame is on the wire once its     *)
(* fourth byte is written, and a reader acts on it once it has read that   *)
(* byte, so a poll is modelled where it completes something: the first and *)
(* the last byte of a write and the last byte of a read.  Sender and       *)
(* receiver are polled independently; a frame may stay on a wire for any   *)
(* time (FaultyTransport's delay).  The wires are FIFO: a byte line does   *)
(* not reorder or duplicate.  A frame is dropped or corrupted when it is   *)
(* written, as FaultyTransport does it.  A transport error makes a poll    *)
(* return without a change, which is a stuttering step.                    *)
(***************************************************************************)
EXTENDS Sender, Receiver

CONSTANTS MaxBytes,         \* Bound: bytes offered in a session
          MaxSessions,      \* Bound: calls of offer_start
          MaxAborts,        \* Bound: calls of offer_abort, here and at the peer
          FaultBudget,      \* Bound: frames dropped or corrupted
          DrainedRestart,   \* offer_start only when both wires are empty
          PatientTimeout    \* timeout_ticks exceeds every round trip

ASSUME BoundsAssumption ==
  /\ MaxBytes \in Nat /\ MaxSessions \in Nat /\ MaxAborts \in Nat
  /\ FaultBudget \in Nat
  /\ DrainedRestart \in BOOLEAN /\ PatientTimeout \in BOOLEAN

VARIABLES
  tx,          \* the Sender
  rx,          \* the Receiver
  fwd,         \* wire from sender to receiver
  back,        \* wire from receiver to sender
  sess,        \* history: number of sessions opened with offer_start
  sent,        \* history: bytes offered in this session
  acked,       \* history: TxPoll::Acked outcomes in this session
  delivered,   \* history: PollOutcome::Delivered bytes in this session
  faults,      \* frames the line has hit
  aborts       \* aborts asked for

history == <<sess, sent, acked, delivered>>
vars == <<tx, rx, fwd, back, history, faults, aborts>>

Init ==
  /\ tx = TxInit /\ rx = RxInit
  /\ fwd = <<>> /\ back = <<>>
  /\ sess = 0 /\ sent = 0 /\ acked = 0 /\ delivered = <<>>
  /\ faults = 0 /\ aborts = 0

(* The line takes frame f on wire w: it arrives, it is lost, or it arrives *)
(* so that it does not decode.                                             *)
Transmit(w, f) ==
  \/ w' = Append(w, f) /\ UNCHANGED faults
  \/ /\ faults < FaultBudget
     /\ faults' = faults + 1
     /\ w' \in {w, Append(w, BadFrame)}

(* Nothing of an earlier session is still under way. *)
Drained == fwd = <<>> /\ back = <<>> /\ ~Replying(rx)

-----------------------------------------------------------------------------
(* The application. *)

AppStart ==
  /\ sess < MaxSessions
  /\ CanOfferStart(tx)
  /\ DrainedRestart => Drained
  /\ tx' = OfferStart(tx, sess + 1)
  /\ sess' = sess + 1 /\ sent' = 0 /\ acked' = 0 /\ delivered' = <<>>
  /\ UNCHANGED <<rx, fwd, back, faults, aborts>>

AppOffer ==
  /\ sent < MaxBytes
  /\ CanOfferData(tx)
  /\ tx' = Offer(tx, sess, sent + 1)
  /\ sent' = sent + 1
  /\ UNCHANGED <<rx, fwd, back, sess, acked, delivered, faults, aborts>>

AppFinish ==
  /\ CanOfferData(tx)
  /\ tx' = OfferFinish(tx, sess, sent + 1)
  /\ UNCHANGED <<rx, fwd, back, history, faults, aborts>>

(* An abort in the middle of a write leaves one to three bytes of the      *)
(* abandoned frame on the wire.                                            *)
AppAbort ==
  /\ aborts < MaxAborts
  /\ ~AbortIsNoop(tx)
  /\ tx' = OfferAbort(tx, sess, sent + 1)
  /\ IF tx.writing
       THEN \E k \in 1 .. FrameLen - 1 : fwd' = Append(fwd, TornFrame(k))
       ELSE UNCHANGED fwd
  /\ aborts' = aborts + 1
  /\ UNCHANGED <<rx, back, history, faults>>

(* The peer's own sender shares the wire and writes an ABORT on it. *)
PeerAbort ==
  /\ aborts < MaxAborts
  /\ back' = Append(back, MkFrame("Abort", 0, sess, 0))
  /\ aborts' = aborts + 1
  /\ UNCHANGED <<tx, rx, fwd, history, faults>>

-----------------------------------------------------------------------------
(* Sender::poll. *)

TxBeginWrite ==
  /\ WantsWrite(tx)
  /\ tx' = BeginWrite(tx)
  /\ UNCHANGED <<rx, fwd, back, history, faults, aborts>>

TxEndWrite ==
  /\ tx.writing
  /\ Transmit(fwd, FlightFrame(tx))
  /\ tx' = EndWrite(tx)
  /\ UNCHANGED <<rx, back, history, aborts>>

TxRead ==
  /\ Waits(tx)
  /\ back # <<>>
  /\ back' = Tail(back)
  /\ LET f == Head(back) IN
       /\ tx' = OnControl(tx, f)
       /\ acked' = IF f.type = "Ack" /\ Answers(tx, f) /\ tx.flight.kind = "Data"
                     THEN acked + 1 ELSE acked
  /\ UNCHANGED <<rx, fwd, sess, sent, delivered, faults, aborts>>

TxEmptyRead ==
  /\ Waits(tx)
  /\ back = <<>>
  /\ PatientTimeout => Drained
  /\ tx' = OnEmptyRead(tx)
  /\ UNCHANGED <<rx, fwd, back, history, faults, aborts>>

TxPoll == TxBeginWrite \/ TxEndWrite \/ TxRead \/ TxEmptyRead

-----------------------------------------------------------------------------
(* Receiver::poll. *)

RxRead ==
  /\ ~Replying(rx)
  /\ fwd # <<>>
  /\ fwd' = Tail(fwd)
  /\ rx' = TakeFrame(rx, Head(fwd))
  /\ UNCHANGED <<tx, back, history, faults, aborts>>

(* The last byte of the reply, and with it the pending action. *)
RxReply ==
  /\ Replying(rx)
  /\ Transmit(back, rx.reply)
  /\ rx' = TakePending(rx)
  /\ delivered' = IF rx.action = "Deliver"
                    THEN Append(delivered, [sess |-> rx.reply.sess,
                                            pos |-> rx.reply.pos])
                    ELSE delivered
  /\ UNCHANGED <<tx, fwd, sess, sent, acked, aborts>>

RxPoll == RxRead \/ RxReply

-----------------------------------------------------------------------------
Next == \/ AppStart \/ AppOffer \/ AppFinish \/ AppAbort \/ PeerAbort
        \/ TxPoll \/ RxPoll

(* Both sides keep being polled: the loops of stream.rs and the scheduler  *)
(* of actors/ call poll forever.  The application owes nothing.            *)
Fairness == WF_vars(TxPoll) /\ WF_vars(RxPoll)

Spec == Init /\ [][Next]_vars /\ Fairness

-----------------------------------------------------------------------------
TypeOK ==
  /\ tx \in TxType /\ rx \in RxType
  /\ tx.writing => InFlight(tx)
  /\ fwd \in Seq(Frame) /\ back \in Seq(Frame)
  /\ sess \in Nat /\ sent \in Nat /\ acked \in Nat
  /\ delivered \in Seq([sess : Nat, pos : Nat])
  /\ faults \in Nat /\ aborts \in Nat

(***************************************************************************)
(* PROTOCOL.md section 1: "Deliver payload bytes in order, at most once".  *)
(* What the receiver has delivered in this session is a prefix of what the *)
(* application offered in it: handle_data and take_pending lose, repeat,   *)
(* swap or invent no byte whatever frames the line hits, however often the *)
(* sender retransmits, and across the wrap of SEQ.                         *)
(***************************************************************************)
InOrder ==
  /\ Len(delivered) <= sent
  /\ \A i \in 1 .. Len(delivered) : delivered[i] = [sess |-> sess, pos |-> i]

(***************************************************************************)
(* FINISH never closes over a hole ("better to fail than to drop the tail  *)
(* of a file"): when the sender reports TransferDone, and from the moment  *)
(* the receiver latches finish_seq, every byte offered in the session has  *)
(* been delivered.                                                         *)
(***************************************************************************)
CloseIsComplete ==
  tx.state = "Finished" \/ IsFinished(rx) => Len(delivered) = sent

(***************************************************************************)
(* The loss part of CloseIsComplete, from the sink's side: when the sender *)
(* reports TransferDone, every byte of this session has reached the sink   *)
(* ("The sink must see each payload byte exactly once, in order",          *)
(* tests/hostile.rs:2), whatever else the sink has seen.                   *)
(***************************************************************************)
DoneMeansDelivered ==
  tx.state = "Finished" =>
    \A i \in 1 .. sent :
      \E j \in 1 .. Len(delivered) : delivered[j] = [sess |-> sess, pos |-> i]

(***************************************************************************)
(* How far TxPoll::Acked may be ahead of Delivered.  START and DATA 0 share*)
(* ACK(0), so the second ACK of a retransmitted START can stand in for the *)
(* ACK of the first byte; no later byte is ever acknowledged undelivered.  *)
(***************************************************************************)
AckedLead ==
  \/ acked <= Len(delivered)
  \/ acked = 1 /\ delivered = <<>>

(***************************************************************************)
(* The closing latches (finish_seq, abort_latched) hold until the START of *)
(* a later session is handled, and until then nothing is delivered: a      *)
(* transfer that was closed is not reopened by a retransmission.           *)
(***************************************************************************)
ClosedIsQuiet ==
  [][IsClosed(rx) =>
       /\ sess' = sess => delivered' = delivered
       /\ IsClosed(rx') \/ rx'.action = "Started"]_vars

(***************************************************************************)
(* The sender is never stuck: polled for ever, a flight ends in an ACK, an *)
(* abort or RetriesExhausted, whatever the line and the receiver do.  The  *)
(* reset of empty_ticks on a foreign ACK cannot postpone that for ever.    *)
(***************************************************************************)
FlightResolves == InFlight(tx) ~> ~InFlight(tx)

-----------------------------------------------------------------------------
(* The service this link implements: see ByteStream. *)
Status == CASE tx.state = "Finished" -> "done"
            [] tx.state = "Failed" -> "failed"
            [] tx.state = "Aborted" \/ tx.flight.kind = "Abort" -> "cancelled"
            [] OTHER -> "open"

Service == INSTANCE ByteStream WITH status <- Status

(***************************************************************************)
(* With sessions opened on a drained line, sender, wires and receiver      *)
(* together are a byte stream: bytes come out in the order they went in,   *)
(* each at most once, and "done" means all of them.                        *)
(***************************************************************************)
ImplementsByteStream == Service!Spec
=============================================================================
