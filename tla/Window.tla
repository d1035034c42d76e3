------------------------------- MODULE Window -------------------------------
(***************************************************************************)
(* One direction of a windowed link: a WindowedSender, a WindowedReceiver  *)
(* and the wires of StopWait between them.  Several DATA frames are under  *)
(* way at once, each may be hit, timed out and repeated on its own, and    *)
(* ACKs free slots in any order.                                           *)
(***************************************************************************)
EXTENDS WindowSender, WindowReceiver

CONSTANTS MaxBytes,         \* Bound: bytes offered before the first START
          RestartBytes,     \* Bound: bytes offered in a session after START
          MaxSessions,      \* Bound: calls of offer_start
          FaultBudget,      \* Bound: frames dropped or corrupted; a call of
                            \* offer_abort, here or at the peer, takes it all
          TornLens,         \* Bound: bytes an abandoned write leaves on the wire
          Limits,           \* Values given to set_window_limit
          DrainedRestart,   \* offer_start only when both wires are empty
          PatientTimeout    \* timeout_ticks exceeds every round trip

ASSUME WindowBounds ==
  /\ MaxBytes \in Nat /\ RestartBytes \in Nat /\ MaxSessions \in Nat
  /\ FaultBudget \in Nat /\ Limits \subseteq 1 .. WindowLen
  /\ TornLens \subseteq 1 .. FrameLen - 1
  /\ DrainedRestart \in BOOLEAN /\ PatientTimeout \in BOOLEAN

VARIABLES
  tx,          \* the WindowedSender
  rx,          \* the WindowedReceiver
  fwd, back,   \* the wires
  sess,        \* history: number of sessions opened with offer_start
  sent,        \* history: bytes offered in this session
  acked,       \* history: positions reported as ACKed in this session
  delivered,   \* history: bytes delivered in this session
  faults, aborts

history == <<sess, sent, acked, delivered>>
vars == <<tx, rx, fwd, back, history, faults, aborts>>

Init ==
  /\ tx = WTxInit /\ rx = WRxInit
  /\ fwd = <<>> /\ back = <<>>
  /\ sess = 0 /\ sent = 0 /\ acked = {} /\ delivered = <<>>
  /\ faults = 0 /\ aborts = 0

(* The line: as in StopWait. *)
Transmit(w, f) ==
  \/ w' = Append(w, f) /\ UNCHANGED faults
  \/ /\ faults < FaultBudget /\ aborts = 0
     /\ faults' = faults + 1
     /\ w' \in {w, Append(w, BadFrame)}

Drained == fwd = <<>> /\ back = <<>> /\ ~Replying(rx) /\ rx.emit = <<>>

-----------------------------------------------------------------------------
(* The application. *)

AppStart ==
  /\ sess < MaxSessions
  /\ WCanOfferStart(tx)
  /\ DrainedRestart => Drained
  /\ tx' = WOfferStart(tx, sess + 1)
  /\ sess' = sess + 1 /\ sent' = 0 /\ acked' = {} /\ delivered' = <<>>
  /\ UNCHANGED <<rx, fwd, back, faults, aborts>>

AppOffer ==
  /\ sent < IF sess = 0 THEN MaxBytes ELSE RestartBytes
  /\ WCanOffer(tx)
  /\ tx' = WOffer(tx, sess, sent + 1)
  /\ sent' = sent + 1
  /\ UNCHANGED <<rx, fwd, back, sess, acked, delivered, faults, aborts>>

AppFinish ==
  /\ WCanOfferFinish(tx)
  /\ tx' = WOfferFinish(tx, sess, sent + 1)
  /\ UNCHANGED <<rx, fwd, back, history, faults, aborts>>

AppAbort ==
  /\ faults = 0 /\ aborts = 0
  /\ ~WAbortIsNoop(tx)
  /\ tx' = WOfferAbort(tx, sess, sent + 1)
  /\ IF tx.writing # 0
       THEN \E k \in TornLens : fwd' = Append(fwd, TornFrame(k))
       ELSE UNCHANGED fwd
  /\ aborts' = aborts + 1
  /\ UNCHANGED <<rx, back, history, faults>>

PeerAbort ==
  /\ faults = 0 /\ aborts = 0
  /\ back' = Append(back, MkFrame("Abort", 0, sess, 0))
  /\ aborts' = aborts + 1
  /\ UNCHANGED <<tx, rx, fwd, history, faults>>

(* set_window_limit, called at either end. *)
TxLimit(n) ==
  /\ WCanSetLimit(tx) /\ n # tx.limit
  /\ tx' = WSetLimit(tx, n)
  /\ UNCHANGED <<rx, fwd, back, history, faults, aborts>>

RxLimit(n) ==
  /\ WRxCanSetLimit(rx) /\ n # rx.limit
  /\ rx' = WRxSetLimit(rx, n)
  /\ UNCHANGED <<tx, fwd, back, history, faults, aborts>>

-----------------------------------------------------------------------------
(* WindowedSender::poll. *)

TxBeginWrite ==
  /\ WWantsWrite(tx)
  /\ tx' = WBeginWrite(tx)
  /\ UNCHANGED <<rx, fwd, back, history, faults, aborts>>

TxEndWrite ==
  /\ tx.writing # 0
  /\ Transmit(fwd, WFlightFrame(tx))
  /\ tx' = WEndWrite(tx)
  /\ UNCHANGED <<rx, back, history, aborts>>

TxRead ==
  /\ WReads(tx)
  /\ back # <<>>
  /\ back' = Tail(back)
  /\ \E f \in {Head(back)} :
       /\ tx' = WOnControl(tx, f)
       /\ acked' = acked \cup {tx.slots[i].pos : i \in
            {j \in Matching(tx, f) : f.type = "Ack" /\ tx.slots[j].kind = "Data"}}
  /\ UNCHANGED <<rx, fwd, sess, sent, delivered, faults, aborts>>

TxEmptyRead ==
  /\ WReads(tx) /\ Used(tx) # {}
  /\ back = <<>>
  /\ PatientTimeout => Drained
  /\ tx' = WOnEmptyRead(tx)
  /\ UNCHANGED <<rx, fwd, back, history, faults, aborts>>

TxPoll == TxBeginWrite \/ TxEndWrite \/ TxRead \/ TxEmptyRead

-----------------------------------------------------------------------------
(* WindowedReceiver::poll. *)

RxEmit ==
  /\ rx.emit # <<>>
  /\ rx' = PopEmit(rx)
  /\ delivered' = Append(delivered, Head(rx.emit))
  /\ UNCHANGED <<tx, fwd, back, sess, sent, acked, faults, aborts>>

RxRead ==
  /\ rx.emit = <<>> /\ ~Replying(rx)
  /\ fwd # <<>>
  /\ fwd' = Tail(fwd)
  /\ rx' = WTakeFrame(rx, Head(fwd))
  /\ UNCHANGED <<tx, back, history, faults, aborts>>

(* The last byte of the reply, and what it makes deliverable. *)
RxReply ==
  /\ rx.emit = <<>> /\ Replying(rx)
  /\ Transmit(back, rx.reply)
  /\ \E r \in {WTakePending(rx)} :
       IF r.emit = <<>>
         THEN rx' = r /\ UNCHANGED delivered
         ELSE rx' = PopEmit(r) /\ delivered' = Append(delivered, Head(r.emit))
  /\ UNCHANGED <<tx, fwd, sess, sent, acked, aborts>>

RxPoll == RxEmit \/ RxRead \/ RxReply

-----------------------------------------------------------------------------
Next == \/ AppStart \/ AppOffer \/ AppFinish \/ AppAbort \/ PeerAbort
        \/ \E n \in Limits : TxLimit(n) \/ RxLimit(n)
        \/ TxPoll \/ RxPoll

Fairness == WF_vars(TxPoll) /\ WF_vars(RxPoll)

Spec == Init /\ [][Next]_vars /\ Fairness

-----------------------------------------------------------------------------
(* How the session stands for its application: see ByteStream. *)
Status == CASE tx.state = "Finished" -> "done"
            [] tx.state = "Failed" -> "failed"
            [] tx.state = "Aborted" \/ (\E i \in Slots : tx.slots[i].kind = "Abort")
                 -> "cancelled"
            [] OTHER -> "open"

TypeOK ==
  /\ tx \in WTxType /\ rx \in WRxType
  /\ tx.writing # 0 => tx.slots[tx.writing].kind # "None"
  /\ fwd \in Seq(Frame) /\ back \in Seq(Frame)
  /\ acked \subseteq 1 .. sent
  /\ delivered \in Seq([sess : Nat, pos : Nat])

(***************************************************************************)
(* "Delivers only in order" (window/rx.rs): whatever is hit, repeated and  *)
(* ACKed out of order, and across the wrap of SEQ, the bytes delivered in  *)
(* a session are a prefix of those offered in it.  A frame that is late by *)
(* a whole window must not be taken for one of the next.                   *)
(***************************************************************************)
InOrder ==
  /\ Len(delivered) <= sent
  /\ \A i \in 1 .. Len(delivered) : delivered[i] = [sess |-> sess, pos |-> i]

(***************************************************************************)
(* FINISH never closes over a hole, though handle_finish clears a reorder  *)
(* buffer that may hold acknowledged bytes.                                *)
(***************************************************************************)
CloseIsComplete ==
  tx.state = "Finished" \/ IsFinished(rx) => Len(delivered \o rx.emit) = sent

(* Position i is in the receiver's hands. *)
Held(i) ==
  \/ i <= Len(delivered) + Len(rx.emit)
  \/ \E o \in Offsets : rx.buf[o] = [sess |-> sess, pos |-> i]

(***************************************************************************)
(* An ACK frees the sender's only copy of a byte, and in selective repeat  *)
(* it may come long before the byte can be delivered.  While the session   *)
(* is open every ACKed byte is delivered or in the reorder buffer, save    *)
(* the first one, whose ACK may be a second ACK of START.                  *)
(***************************************************************************)
AckedIsHeld ==
  Status # "cancelled" /\ ~rx.abort_latched =>
    \A i \in acked : Held(i) \/ i = 1

(***************************************************************************)
(* No slot starves: retransmissions go first and new frames in the order   *)
(* of the array, not of their age, but polled for ever the sender resolves *)
(* the frame in every slot, one way or the other, however many frames pass *)
(* through the other slots meanwhile.                                      *)
(***************************************************************************)
SlotResolves == \A i \in Slots : i \in Used(tx) ~> i \notin Used(tx)

-----------------------------------------------------------------------------
Service == INSTANCE ByteStream WITH status <- Status

(***************************************************************************)
(* The windowed link offers the service of the stop-and-wait link.         *)
(***************************************************************************)
ImplementsByteStream == Service!Spec
=============================================================================
