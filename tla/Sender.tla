------------------------------- MODULE Sender -------------------------------
(***************************************************************************)
(* The stop-and-wait sender (src/tx.rs): its state as one record and every *)
(* operation on it as an operator from state to state.  The specifications *)
(* that hold senders (StopWait, Turn) apply these operators in their       *)
(* actions and add the wire.                                               *)
(*                                                                         *)
(* State record:                                                           *)
(*   seq      Sender.seq, the SEQ of the next DATA byte                    *)
(*   state    Sender.state (TxState)                                       *)
(*   flight   Sender.inflight; kind "None" stands for Option::None         *)
(*   writing  Sender.out holds a frame of which some bytes, but not all,   *)
(*            have been written                                            *)
(***************************************************************************)
EXTENDS Frames

CONSTANTS TimeoutTicks,    \* RetryPolicy.timeout_ticks
          MaxRetries       \* RetryPolicy.max_retries

ASSUME PolicyAssumption == TimeoutTicks \in Nat /\ MaxRetries \in Nat

TxStates == {"Idle", "Sending", "WaitingAck", "Retrying",
             "Finished", "Aborted", "Failed"}

FlightKinds == {"Data", "Start", "Finish", "Abort"}

NoFlight == [kind |-> "None", seq |-> 0, sess |-> 0, pos |-> 0,
             retries_left |-> 0, waiting |-> FALSE, empty_ticks |-> 0]

InFlight(t) == t.flight.kind # "None"

TxInit == [seq |-> 0, state |-> "Idle", flight |-> NoFlight, writing |-> FALSE]

(* Sender::begin: a flight of the given kind, its retry budget full. *)
Begin(t, kind, q, s, p) ==
  [t EXCEPT !.flight = [kind |-> kind, seq |-> q, sess |-> s, pos |-> p,
                        retries_left |-> MaxRetries, waiting |-> FALSE,
                        empty_ticks |-> 0],
            !.state = "Sending"]

-----------------------------------------------------------------------------
(* The application's calls. *)

CanOfferStart(t) ==
  t.state \in {"Idle", "Finished", "Aborted", "Failed"} /\ ~t.writing

OfferStart(t, s) == Begin([t EXCEPT !.seq = 0], "Start", 0, s, 0)

CanOfferData(t) == t.state = "Idle" /\ ~InFlight(t) /\ ~t.writing

Offer(t, s, p) == Begin(t, "Data", t.seq, s, p)

OfferFinish(t, s, p) == Begin(t, "Finish", t.seq, s, p)

(* The two early returns of offer_abort. *)
AbortIsNoop(t) == \/ t.state = "Aborted" /\ ~InFlight(t)
                  \/ t.flight.kind = "Abort"

(* The flight is dropped even in the middle of its write. *)
OfferAbort(t, s, p) ==
  Begin([t EXCEPT !.writing = FALSE, !.seq = 0], "Abort", 0, s, p)

ForceAbort(t) ==
  [t EXCEPT !.flight = NoFlight, !.writing = FALSE, !.state = "Aborted"]

HoldsSessionControl(t) == t.flight.kind \in {"Abort", "Start"}

-----------------------------------------------------------------------------
(* The branches of Sender::poll.  Without a flight poll changes nothing,   *)
(* and in particular reads nothing: what arrives meanwhile stays on the    *)
(* wire until the next flight waits.                                       *)

(* load_flight_frame and the first byte of the frame. *)
WantsWrite(t) == InFlight(t) /\ ~t.flight.waiting /\ ~t.writing

BeginWrite(t) == [t EXCEPT !.writing = TRUE, !.state = "Sending"]

FlightFrame(t) ==
  MkFrame(t.flight.kind, t.flight.seq, t.flight.sess, t.flight.pos)

(* The fourth byte: the frame is on the wire and the wait starts. *)
EndWrite(t) ==
  [t EXCEPT !.writing = FALSE, !.state = "WaitingAck",
            !.flight = [t.flight EXCEPT !.waiting = TRUE, !.empty_ticks = 0]]

Waits(t) == InFlight(t) /\ t.flight.waiting /\ ~t.writing

OnAck(t) ==
  CASE t.flight.kind = "Data" ->
         [t EXCEPT !.flight = NoFlight, !.state = "Idle", !.seq = Advance(@)]
    [] t.flight.kind = "Start" ->
         [t EXCEPT !.flight = NoFlight, !.state = "Idle", !.seq = 0]
    [] t.flight.kind = "Finish" ->
         [t EXCEPT !.flight = NoFlight, !.state = "Finished"]
    [] OTHER ->
         [t EXCEPT !.flight = NoFlight, !.state = "Aborted"]

(* Mutants of OnAttemptFailed: the last retry is tested too late; a retry  *)
(* costs nothing.                                                          *)
OnAttemptFailedLate(t) ==
  IF t.flight.retries_left < 0
    THEN [t EXCEPT !.flight = NoFlight, !.state = "Failed"]
    ELSE [t EXCEPT !.flight = [t.flight EXCEPT
                       !.retries_left = t.flight.retries_left - 1,
                       !.waiting = FALSE, !.empty_ticks = 0],
                   !.state = "Retrying"]

OnAttemptFailedFree(t) ==
  [t EXCEPT !.flight = [t.flight EXCEPT !.waiting = FALSE, !.empty_ticks = 0],
            !.state = "Retrying"]

OnAttemptFailed(t) ==
  IF t.flight.retries_left = 0
    THEN [t EXCEPT !.flight = NoFlight, !.state = "Failed"]
    ELSE [t EXCEPT !.flight = [t.flight EXCEPT
                       !.retries_left = t.flight.retries_left - 1,
                       !.waiting = FALSE, !.empty_ticks = 0],
                   !.state = "Retrying"]

(* Mutant of Answers: SEQ of the reply is not compared. *)
AnswersAny(t, f) == TRUE

(* Which of the replies answers the flight. *)
Answers(t, f) == f.seq = t.flight.seq

(* on_control: what a complete frame does to a waiting sender.  Invalid    *)
(* frames, and frames that are no control frame, are ignored.              *)
OnControl(t, f) ==
  CASE f.type = "Abort" -> ForceAbort(t)
    [] f.type = "Ack" /\ Answers(t, f) -> OnAck(t)
    [] f.type = "Nack" /\ Answers(t, f) -> OnAttemptFailed(t)
    [] f.type \in {"Ack", "Nack"} /\ ~Answers(t, f) ->
         [t EXCEPT !.flight = [t.flight EXCEPT !.empty_ticks = 0]]
    [] OTHER -> t

(* A poll of a waiting sender that finds the wire empty. *)
OnEmptyRead(t) ==
  IF t.flight.empty_ticks + 1 >= TimeoutTicks
    THEN OnAttemptFailed(t)
    ELSE [t EXCEPT !.flight = [t.flight EXCEPT
                               !.empty_ticks = t.flight.empty_ticks + 1]]

Flight == [kind : FlightKinds \cup {"None"}, seq : Seqs, sess : Nat, pos : Nat,
           retries_left : 0 .. MaxRetries, waiting : BOOLEAN,
           empty_ticks : 0 .. TimeoutTicks]

TxType == [seq : Seqs, state : TxStates, flight : Flight, writing : BOOLEAN]
=============================================================================
