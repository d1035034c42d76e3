----------------------------- MODULE WindowPump -----------------------------
(***************************************************************************)
(* WindowedPump (src/pump.rs): the poll of Pump over a WindowedSender and  *)
(* a WindowedReceiver.  The state record has the fields of Pump's; a poll  *)
(* is named by a pair as there, and rs = "emit" hands out a byte that is   *)
(* already in order.                                                       *)
(***************************************************************************)
EXTENDS WindowSender, WindowReceiver, FiniteSets

WRxSteps == {"none", "read", "reply", "emit"}
WTxSteps == {"none", "begin", "end", "read", "tick"}

WPumpInit == [tx |-> WTxInit, rx |-> WRxInit,
              tx_done_seen |-> FALSE, pending_completed |-> FALSE]

(* set_window_limit on both halves; each refuses on its own while busy. *)
WPumpLimit(pu, n) ==
  [pu EXCEPT !.tx = IF WCanSetLimit(@) THEN WSetLimit(@, n) ELSE @,
             !.rx = IF WRxCanSetLimit(@) THEN WRxSetLimit(@, n) ELSE @]

(* WindowedReceiver::poll.  A byte in order goes before everything else. *)
WRxCan(r, rs, in) ==
  IF r.emit # <<>> THEN rs = "emit"
  ELSE CASE rs = "none" -> TRUE
         [] rs = "read" -> ~Replying(r) /\ in # <<>>
         [] rs = "reply" -> Replying(r)
         [] rs = "emit" -> FALSE

WAfterRx(r, rs, in) ==
  CASE rs = "none" -> r
    [] rs = "read" -> WTakeFrame(r, Head(in))
    [] rs = "reply" -> IF r.action = "Drain" THEN PopEmit(WTakePending(r)) ELSE WTakePending(r)
    [] rs = "emit" -> PopEmit(r)

WRxOutcome(r, rs) ==
  CASE rs = "emit" \/ (rs = "reply" /\ r.action = "Drain") -> "Deliver"
    [] rs = "reply" /\ r.action # "Quiet" -> r.action
    [] OTHER -> "Pending"

(* The byte of a Deliver. *)
WRxByte(r, rs) == IF rs = "emit" THEN Head(r.emit) ELSE r.buf[0]

WHoldsSessionControl(w) == \E i \in Used(w) : w.slots[i].kind \in {"Abort", "Start"}

WCancelTx(w, ro) ==
  IF ro = "Aborted" /\ ~WHoldsSessionControl(w) THEN WForceAbort(w) ELSE w

(* WindowedSender::poll. *)
WTxCan(w, ts, in, calm) ==
  CASE ts = "none" -> ~WWantsWrite(w)
    [] ts = "begin" -> WWantsWrite(w)
    [] ts = "end" -> w.writing # 0
    [] ts = "read" -> WReads(w) /\ in # <<>>
    [] ts = "tick" -> WReads(w) /\ Used(w) # {} /\ in = <<>> /\ calm

WAfterTx(w, ts, in) ==
  CASE ts = "none" -> w
    [] ts = "begin" -> WBeginWrite(w)
    [] ts = "end" -> WEndWrite(w)
    [] ts = "read" -> WOnControl(w, Head(in))
    [] ts = "tick" -> WOnEmptyRead(w)

(* What it returns, from the state before and after: the last ACK of the   *)
(* slot that was freed says which.                                         *)
WTxOutcome(w, w2, ts) ==
  LET freed == {w.slots[i].kind : i \in Used(w) \ Used(w2)}
  IN CASE w2.state = "Failed" -> "RetriesExhausted"
       [] w2.state = "Aborted" -> "Aborted"
       [] w2.state = "Finished" -> "TransferDone"
       [] ts = "read" /\ freed = {"Data"} -> "Acked"
       [] ts = "read" /\ freed = {"Start"} -> "SessionReady"
       [] OTHER -> "Pending"

(* IoMark: a frame went out, or a slot is to be sent again. *)
Marked(w, w2, ts) ==
  ts = "end" \/ (ts \in {"read", "tick"} /\ Cardinality(Again(w2)) > Cardinality(Again(w)))

WDoneEdge(pu, to) == to = "TransferDone" /\ ~pu.tx_done_seen

WPumpEvent(pu, ro, to, marked) ==
  IF to = "RetriesExhausted" THEN "Err"
  ELSE IF "Aborted" \in {ro, to} THEN "Aborted"
  ELSE IF ro = "Deliver" THEN "Received"
  ELSE IF ro = "Finished" \/ WDoneEdge(pu, to) THEN "Completed"
  ELSE IF to = "Acked" THEN "Sent"
  ELSE IF ro # "Pending" \/ to # "Pending" \/ marked THEN "Progress"
  ELSE "Idle"

WCanPoll(pu, rs, ts, cin, pin, calm) ==
  IF pu.pending_completed
    THEN rs = "none" /\ ts = "none"
    ELSE /\ WRxCan(pu.rx, rs, pin)
         /\ WTxCan(WCancelTx(pu.tx, WRxOutcome(pu.rx, rs)), ts, cin, calm)

(* The end of poll: t1 and t2 are the sender before and after its poll. *)
WMerged(pu, rs, ts, pin, t1, t2) ==
  LET ro == WRxOutcome(pu.rx, rs)
      to == WTxOutcome(t1, t2, ts)
      ev == WPumpEvent(pu, ro, to, Marked(t1, t2, ts))
  IN [pump |-> [tx |-> t2, rx |-> WAfterRx(pu.rx, rs, pin),
                tx_done_seen |-> IF ev = "Err" THEN pu.tx_done_seen
                                 ELSE to = "TransferDone",
                pending_completed |-> ev = "Received" /\ WDoneEdge(pu, to)],
      event |-> ev,
      byte |-> IF ev = "Received" THEN WRxByte(pu.rx, rs) ELSE NoByte,
      acked |-> to = "Acked",
      torn |-> pu.tx.writing # 0 /\ t1.writing = 0]

(* The outcome of a poll, as a set of one: an owed Completed is paid and   *)
(* nothing else done, or both halves are polled, the receiver first.       *)
WPolled(pu, rs, ts, cin, pin) ==
  IF pu.pending_completed
    THEN {[pump |-> [pu EXCEPT !.pending_completed = FALSE], event |-> "Completed",
           byte |-> NoByte, acked |-> FALSE, torn |-> FALSE]}
    ELSE UNION {{WMerged(pu, rs, ts, pin, t1, t2) : t2 \in {WAfterTx(t1, ts, cin)}} :
                  t1 \in {WCancelTx(pu.tx, WRxOutcome(pu.rx, rs))}}
=============================================================================
