-------------------------------- MODULE Pump --------------------------------
(***************************************************************************)
(* The pump (src/pump.rs): a Sender and a Receiver driven by one poll, and *)
(* the single event that poll reports for the two of them.                 *)
(*                                                                         *)
(* State record:                                                           *)
(*   tx, rx             the two halves                                     *)
(*   tx_done_seen       TransferDone was already reported                  *)
(*   pending_completed  a Completed still owed to the caller               *)
(*                                                                         *)
(* The counters of SessionStats are left out; no branch reads them.        *)
(*                                                                         *)
(* One poll moves at most one byte in each half.  What the halves do in a  *)
(* poll is named by a pair: rs is what the receiver completes (the last    *)
(* byte of a frame read, the last byte of a reply), ts what the sender     *)
(* begins or completes.  "none" is a byte in the middle of a frame, or     *)
(* nothing to do.                                                          *)
(***************************************************************************)
EXTENDS Sender, Receiver

RxSteps == {"none", "read", "reply"}
TxSteps == {"none", "begin", "end", "read", "tick"}

PumpInit == [tx |-> TxInit, rx |-> RxInit,
             tx_done_seen |-> FALSE, pending_completed |-> FALSE]

(* The receiver's half of a poll, f being the frame it reads. *)
RxCan(r, rs, in) ==
  CASE rs = "none" -> TRUE
    [] rs = "read" -> ~Replying(r) /\ in # <<>>
    [] rs = "reply" -> Replying(r)

AfterRx(r, rs, in) ==
  CASE rs = "none" -> r
    [] rs = "read" -> TakeFrame(r, Head(in))
    [] rs = "reply" -> TakePending(r)

RxOutcome(r, rs) == IF rs = "reply" THEN r.action ELSE "Pending"

(* A peer's ABORT cancels the sender, unless it holds an ABORT or a START  *)
(* of its own.                                                             *)
CancelTx(t, ro) ==
  IF ro = "Aborted" /\ ~HoldsSessionControl(t) THEN ForceAbort(t) ELSE t

(* The sender's half.  A frame to write is begun in the first poll that    *)
(* finds it; calm says that the timeout may run.                           *)
TxCan(t, ts, in, calm) ==
  CASE ts = "none" -> ~WantsWrite(t)
    [] ts = "begin" -> WantsWrite(t)
    [] ts = "end" -> t.writing
    [] ts = "read" -> Waits(t) /\ in # <<>>
    [] ts = "tick" -> Waits(t) /\ in = <<>> /\ calm

AfterTx(t, ts, in) ==
  CASE ts = "none" -> t
    [] ts = "begin" -> BeginWrite(t)
    [] ts = "end" -> EndWrite(t)
    [] ts = "read" -> OnControl(t, Head(in))
    [] ts = "tick" -> OnEmptyRead(t)

(* What Sender::poll returns, from its state before and after. *)
TxOutcome(t, t2) ==
  CASE t2.state = "Failed" -> "RetriesExhausted"
    [] t2.state = "Aborted" -> "Aborted"
    [] t2.state = "Finished" -> "TransferDone"
    [] t2.state = "Idle" /\ t.flight.kind = "Data" -> "Acked"
    [] OTHER -> "Pending"

DoneEdge(pu, to) == to = "TransferDone" /\ ~pu.tx_done_seen

(* Mutants of PumpEvent: Completed outranks Received, as PROTOCOL.md has   *)
(* it; the end of the peer's session is not reported.                      *)
PumpEventCompletedFirst(pu, ro, to) ==
  IF to = "RetriesExhausted" THEN "Err"
  ELSE IF "Aborted" \in {ro, to} THEN "Aborted"
  ELSE IF ro = "Finished" \/ DoneEdge(pu, to) THEN "Completed"
  ELSE IF ro = "Deliver" THEN "Received"
  ELSE IF to = "Acked" THEN "Sent"
  ELSE "Idle"

PumpEventTxOnly(pu, ro, to) ==
  IF to = "RetriesExhausted" THEN "Err"
  ELSE IF "Aborted" \in {ro, to} THEN "Aborted"
  ELSE IF ro = "Deliver" THEN "Received"
  ELSE IF DoneEdge(pu, to) THEN "Completed"
  ELSE IF to = "Acked" THEN "Sent"
  ELSE "Idle"

(* The event of a poll, highest priority first.  An error of the sender    *)
(* leaves poll before the receiver's outcome is looked at.  "Idle" stands  *)
(* for Progress too: no caller tells them apart.                           *)
PumpEvent(pu, ro, to) ==
  IF to = "RetriesExhausted" THEN "Err"
  ELSE IF "Aborted" \in {ro, to} THEN "Aborted"
  ELSE IF ro = "Deliver" THEN "Received"
  ELSE IF ro = "Finished" \/ DoneEdge(pu, to) THEN "Completed"
  ELSE IF to = "Acked" THEN "Sent"
  ELSE "Idle"

(***************************************************************************)
(* A poll of pump pu that completes rs and ts, with cin and pin waiting for*)
(* its sender and its receiver: the pump after it, the event, whether the  *)
(* sender saw a DATA byte ACKed (last_acked), and whether the sender was   *)
(* cancelled in the middle of a write.                                     *)
(***************************************************************************)
CanPoll(pu, rs, ts, cin, pin, calm) ==
  IF pu.pending_completed
    THEN rs = "none" /\ ts = "none"
    ELSE /\ RxCan(pu.rx, rs, pin)
         /\ TxCan(CancelTx(pu.tx, RxOutcome(pu.rx, rs)), ts, cin, calm)

(* Mutant of BothPolled: the edge detector is not armed again.             *)
BothPolledSticky(pu, rs, ts, cin, pin) ==
  LET ro == RxOutcome(pu.rx, rs)
      t1 == CancelTx(pu.tx, ro)
      t2 == AfterTx(t1, ts, cin)
      to == TxOutcome(t1, t2)
      ev == PumpEvent(pu, ro, to)
  IN [pump |-> [tx |-> t2, rx |-> AfterRx(pu.rx, rs, pin),
                tx_done_seen |-> pu.tx_done_seen \/ to = "TransferDone",
                pending_completed |-> ev = "Received" /\ DoneEdge(pu, to)],
      event |-> ev,
      last_acked |-> to = "Acked",
      torn |-> pu.tx.writing /\ ~t1.writing]

(* rx.poll, then tx.poll. *)
BothPolled(pu, rs, ts, cin, pin) ==
  LET ro == RxOutcome(pu.rx, rs)
      t1 == CancelTx(pu.tx, ro)
      t2 == AfterTx(t1, ts, cin)
      to == TxOutcome(t1, t2)
      ev == PumpEvent(pu, ro, to)
  IN [pump |-> [tx |-> t2, rx |-> AfterRx(pu.rx, rs, pin),
                tx_done_seen |-> IF ev = "Err" THEN pu.tx_done_seen
                                 ELSE to = "TransferDone",
                pending_completed |-> ev = "Received" /\ DoneEdge(pu, to)],
      event |-> ev,
      last_acked |-> to = "Acked",
      torn |-> pu.tx.writing /\ ~t1.writing]

(* A poll pays an owed Completed and does nothing else, or polls both.     *)
Polled(pu, rs, ts, cin, pin) ==
  IF pu.pending_completed
    THEN [pump |-> [pu EXCEPT !.pending_completed = FALSE], event |-> "Completed",
          last_acked |-> FALSE, torn |-> FALSE]
    ELSE BothPolled(pu, rs, ts, cin, pin)

PumpType == [tx : TxType, rx : RxType,
             tx_done_seen : BOOLEAN, pending_completed : BOOLEAN]
=============================================================================
