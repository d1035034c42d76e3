---------------------------- MODULE WindowSender ----------------------------
(***************************************************************************)
(* The selective-repeat sender (src/window/tx.rs): up to WindowLen frames  *)
(* of DATA in the air, each with a retry budget and a timeout of its own.  *)
(* START, FINISH and ABORT stay stop-and-wait: they occupy one slot while  *)
(* the others are empty.                                                   *)
(*                                                                         *)
(* State record:                                                           *)
(*   next_seq   SEQ of the next DATA byte                                  *)
(*   slots      the array of slots; NoSlot stands for Option::None         *)
(*   limit      the runtime window, 1 .. WindowLen                         *)
(*   state      TxState                                                    *)
(*   writing    index of the slot whose frame is partly written, or 0      *)
(***************************************************************************)
EXTENDS Sender, WindowFrames

Slots == 1 .. WindowLen

NoSlot == [kind |-> "None", seq |-> 0, sess |-> 0, pos |-> 0, retries_left |-> 0,
           written |-> FALSE, needs_retransmit |-> FALSE, empty_ticks |-> 0]

Used(w) == {i \in Slots : w.slots[i].kind # "None"}

Cleared == [i \in Slots |-> NoSlot]

WTxInit == [next_seq |-> 0, slots |-> Cleared, limit |-> WindowLen,
            state |-> "Idle", writing |-> 0]

Least(S) == CHOOSE i \in S : \A j \in S : i <= j

(* insert: the frame goes to the first free slot. *)
Insert(w, kind, q, s, p) ==
  [w EXCEPT !.slots[Least(Slots \ Used(w))] =
              [kind |-> kind, seq |-> q, sess |-> s, pos |-> p,
               retries_left |-> MaxRetries, written |-> FALSE,
               needs_retransmit |-> FALSE, empty_ticks |-> 0],
            !.state = "Sending"]

(* oldest_unacked: a scan in the order of the array, not of the frames.    *)
(* A slot is older than the candidate if it is not within limit after it.  *)
OldestUnacked(w) ==
  LET oldest[i \in 0 .. WindowLen] ==
        IF i = 0 THEN -1
        ELSE LET base == oldest[i - 1]
                 slot == w.slots[i]
             IN IF slot.kind = "None" THEN base
                ELSE IF base # -1 /\ Sub(slot.seq, base) <= w.limit THEN base
                ELSE slot.seq
  IN oldest[WindowLen]

SeqInSendWindow(w, q) ==
  OldestUnacked(w) # -1 => Sub(q, OldestUnacked(w)) < w.limit

HasSessionFlight(w) ==
  \E i \in Used(w) : w.slots[i].kind \in {"Start", "Finish", "Abort"}

WClosed(w) == w.state \in {"Finished", "Aborted", "Failed"}

-----------------------------------------------------------------------------
(* The application's calls. *)

(* set_window_limit, its argument already clamped; refused while busy. *)
WCanSetLimit(w) == Used(w) = {} /\ w.writing = 0

WSetLimit(w, n) == [w EXCEPT !.limit = n]

WCanOfferStart(w) == Used(w) = {} /\ w.writing = 0

WOfferStart(w, s) ==
  Insert([w EXCEPT !.next_seq = 0, !.slots = Cleared], "Start", 0, s, 0)

WCanOffer(w) ==
  /\ ~WClosed(w) /\ ~HasSessionFlight(w)
  /\ SeqInSendWindow(w, w.next_seq) /\ Used(w) # Slots

WOffer(w, s, p) ==
  [Insert(w, "Data", w.next_seq, s, p) EXCEPT !.next_seq = Advance(@)]

WCanOfferFinish(w) == ~WClosed(w) /\ Used(w) = {}

WOfferFinish(w, s, p) == Insert(w, "Finish", w.next_seq, s, p)

WAbortIsNoop(w) ==
  \/ w.state = "Aborted" /\ Used(w) = {}
  \/ \E i \in Used(w) : w.slots[i].kind = "Abort"

(* Every slot is dropped, also one in the middle of its write. *)
WOfferAbort(w, s, p) ==
  Insert([w EXCEPT !.slots = Cleared, !.writing = 0, !.next_seq = 0],
         "Abort", 0, s, p)

WForceAbort(w) ==
  [w EXCEPT !.slots = Cleared, !.writing = 0, !.state = "Aborted"]

-----------------------------------------------------------------------------
(* The branches of WindowedSender::poll. *)

Again(w) == {i \in Used(w) : w.slots[i].needs_retransmit}
New(w) == {i \in Used(w) : ~w.slots[i].written}

WWantsWrite(w) == ~WClosed(w) /\ w.writing = 0 /\ Again(w) \cup New(w) # {}

(* next_to_write: retransmissions first; load_slot. *)
WBeginWrite(w) ==
  [w EXCEPT !.writing = Least(IF Again(w) # {} THEN Again(w) ELSE New(w)),
            !.state = "Sending"]

WFlightFrame(w) ==
  LET slot == w.slots[w.writing]
  IN MkFrame(slot.kind, slot.seq, slot.sess, slot.pos)

(* finish_write *)
WEndWrite(w) ==
  [w EXCEPT !.slots[w.writing] = [w.slots[w.writing] EXCEPT
                !.written = TRUE, !.needs_retransmit = FALSE, !.empty_ticks = 0],
            !.writing = 0, !.state = "WaitingAck"]

(* With nothing to write the sender reads, also when no slot is in use. *)
WReads(w) == ~WClosed(w) /\ w.writing = 0 /\ Again(w) \cup New(w) = {}

(* Mutant of Matching: FINISH is taken to have used up its number. *)
MatchingLate(w, f) ==
  {i \in Used(w) : /\ w.slots[i].written
                   /\ f.seq = IF w.slots[i].kind = "Finish" THEN Advance(w.slots[i].seq)
                                                           ELSE w.slots[i].seq}

(* The slot a reply is about. *)
Matching(w, f) == {i \in Used(w) : w.slots[i].seq = f.seq /\ w.slots[i].written}

WOnAck(w, i) ==
  LET kind == w.slots[i].kind
      rest == [w EXCEPT !.slots[i] = NoSlot]
  IN CASE kind = "Data" ->
            [rest EXCEPT !.state = IF Used(rest) = {} THEN "Idle" ELSE "WaitingAck"]
       [] kind = "Start" -> [rest EXCEPT !.next_seq = 0, !.state = "Idle"]
       [] kind = "Finish" -> [rest EXCEPT !.state = "Finished"]
       [] OTHER -> [rest EXCEPT !.state = "Aborted"]

WFail(w) == [w EXCEPT !.slots = Cleared, !.state = "Failed"]

(* Mutant of Charged: a retry costs nothing. *)
ChargedNothing(slot) == [slot EXCEPT !.needs_retransmit = TRUE, !.empty_ticks = 0]

(* A slot that is sent again, at the cost of a retry. *)
Charged(slot) ==
  [slot EXCEPT !.retries_left = @ - 1, !.needs_retransmit = TRUE, !.empty_ticks = 0]

(* Mutant of WOnNack: the last retry is tested too late. *)
WOnNackLate(w, i) ==
  IF w.slots[i].retries_left < 0 THEN WFail(w)
  ELSE [w EXCEPT !.slots[i] = Charged(w.slots[i]), !.state = "Retrying"]

WOnNack(w, i) ==
  IF w.slots[i].retries_left = 0 THEN WFail(w)
  ELSE [w EXCEPT !.slots[i] = Charged(w.slots[i]), !.state = "Retrying"]

(* on_control *)
WOnControl(w, f) ==
  CASE f.type = "Abort" -> WForceAbort(w)
    [] f.type = "Ack" /\ Matching(w, f) # {} -> WOnAck(w, Least(Matching(w, f)))
    [] f.type = "Nack" /\ Matching(w, f) # {} -> WOnNack(w, Least(Matching(w, f)))
    [] OTHER -> w

(* tick_timeouts: every slot counts; the ones that expire are sent again,  *)
(* and one that expires without a retry left fails them all.               *)
WOnEmptyRead(w) ==
  LET expired == {i \in Used(w) : w.slots[i].empty_ticks + 1 >= TimeoutTicks}
  IN IF \E i \in expired : w.slots[i].retries_left = 0 THEN WFail(w)
     ELSE [w EXCEPT
             !.slots = [i \in Slots |->
                CASE i \in expired -> Charged(w.slots[i])
                  [] i \in Used(w) \ expired ->
                       [w.slots[i] EXCEPT !.empty_ticks = w.slots[i].empty_ticks + 1]
                  [] OTHER -> NoSlot],
             !.state = IF expired # {} THEN "Retrying" ELSE w.state]

Slot == [kind : FlightKinds \cup {"None"}, seq : Seqs, sess : Nat, pos : Nat,
         retries_left : 0 .. MaxRetries, written : BOOLEAN,
         needs_retransmit : BOOLEAN, empty_ticks : 0 .. TimeoutTicks]

WTxType == [next_seq : Seqs, slots : [Slots -> Slot], limit : Slots,
            state : TxStates, writing : {0} \cup Slots]
=============================================================================
