------------------------------ MODULE Receiver ------------------------------
(***************************************************************************)
(* The stop-and-wait receiver (src/rx.rs): its state as one record and the *)
(* frame handlers as operators from state to state.                        *)
(*                                                                         *)
(* State record:                                                           *)
(*   expected       Receiver.expected_seq                                  *)
(*   action, reply  Receiver.pending and the control frame in Receiver.out;*)
(*                  action "None" when no reply is being written           *)
(*   finish_seq     Receiver.finish_seq; NoSeq stands for Option::None     *)
(*   abort_latched  Receiver.abort_latched                                 *)
(*   filled         bytes of an unfinished frame held by the assembler     *)
(*                                                                         *)
(* Receiver.state is left out: it is a display of the fields above, and no *)
(* branch of the code reads it.                                            *)
(***************************************************************************)
EXTENDS Frames

NoSeq == -1

NoReply == MkFrame("Nack", 0, 0, 0)

RxInit == [expected |-> 0, action |-> "None", reply |-> NoReply,
           finish_seq |-> NoSeq, abort_latched |-> FALSE, filled |-> 0]

IsFinished(r) == r.finish_seq # NoSeq

IsClosed(r) == r.abort_latched \/ IsFinished(r)

Replying(r) == r.action # "None"

(* begin_reply: the reply to f, and what happens once it is written. *)
BeginReply(r, type, q, f, action) ==
  [r EXCEPT !.reply = MkFrame(type, q, f.sess, f.pos), !.action = action]

(* Mutant of HandleData: a repeated byte is taken for a new one. *)
HandleDataTwice(r, f) ==
  IF IsClosed(r) THEN r
  ELSE IF f.seq \in {r.expected, Previous(r.expected)}
    THEN BeginReply(r, "Ack", f.seq, f, "Deliver")
  ELSE BeginReply(r, "Nack", f.seq, f, "Rejected")

HandleData(r, f) ==
  IF IsClosed(r) THEN r
  ELSE IF f.seq = r.expected
    THEN BeginReply(r, "Ack", f.seq, f, "Deliver")
  ELSE IF f.seq = Previous(r.expected)
    THEN BeginReply(r, "Ack", f.seq, f, "Duplicate")
  ELSE BeginReply(r, "Nack", f.seq, f, "Rejected")

(* Mutant of HandleStart: the expected SEQ survives the restart. *)
HandleStartKeepsSeq(r, f) ==
  BeginReply([r EXCEPT !.finish_seq = NoSeq, !.abort_latched = FALSE],
             "Ack", 0, f, "Started")

(* START resets the receiver at once, before its ACK is written. *)
HandleStart(r, f) ==
  BeginReply([r EXCEPT !.expected = 0, !.finish_seq = NoSeq,
                       !.abort_latched = FALSE],
             "Ack", 0, f, "Started")

(* A finished receiver ignores ABORT and does not ACK it. *)
HandleAbort(r, f) ==
  IF IsFinished(r) THEN r
  ELSE BeginReply([r EXCEPT !.abort_latched = TRUE, !.expected = 0],
                  "Ack", 0, f, "Aborted")

(* Mutants of HandleFinish: a FINISH ahead of a missing byte is accepted; a *)
(* repeated FINISH is not ACKed again.                                     *)
HandleFinishEarly(r, f) ==
  IF r.abort_latched THEN r
  ELSE BeginReply([r EXCEPT !.finish_seq = f.seq], "Ack", f.seq, f, "Finished")

HandleFinishOnce(r, f) ==
  IF IsClosed(r) THEN r
  ELSE IF f.seq # r.expected
    THEN BeginReply(r, "Nack", f.seq, f, "Rejected")
  ELSE BeginReply([r EXCEPT !.finish_seq = f.seq], "Ack", f.seq, f, "Finished")

HandleFinish(r, f) ==
  IF r.abort_latched THEN r
  ELSE IF IsFinished(r)
    THEN IF f.seq = r.finish_seq
           THEN BeginReply(r, "Ack", f.seq, f, "Finished")
           ELSE r
  ELSE IF f.seq # r.expected
    THEN BeginReply(r, "Nack", f.seq, f, "Rejected")
  ELSE BeginReply([r EXCEPT !.finish_seq = f.seq], "Ack", f.seq, f, "Finished")

(* Four bytes that do not decode: NACK the expected SEQ while open. *)
HandleError(r) ==
  IF IsClosed(r) THEN r
  ELSE BeginReply(r, "Nack", r.expected, BadFrame, "CrcRejected")

(* The dispatch of Receiver::poll on a decoded frame. *)
HandleFrame(r, f) ==
  CASE f.type = "Data" -> HandleData(r, f)
    [] f.type = "Start" -> HandleStart(r, f)
    [] f.type = "Finish" -> HandleFinish(r, f)
    [] f.type = "Abort" -> HandleAbort(r, f)
    [] f.type = "Bad" -> HandleError(r)
    [] OTHER -> r

(***************************************************************************)
(* The receiver's assembler cuts the byte stream every four bytes and never*)
(* resynchronises.  Behind the k bytes of a torn frame every later frame   *)
(* straddles a cut: each completes one window that does not decode and     *)
(* leaves k bytes behind.                                                  *)
(***************************************************************************)
TakeFrame(r, f) ==
  IF f.type = "Torn"
    THEN IF r.filled + f.seq < FrameLen
           THEN [r EXCEPT !.filled = @ + f.seq]
           ELSE HandleError([r EXCEPT !.filled = @ + f.seq - FrameLen])
  ELSE IF r.filled # 0 THEN HandleError(r)
  ELSE HandleFrame(r, f)

(* Mutants of TakePending: FINISH is forgotten once ACKed; the expected SEQ *)
(* stays behind the delivered byte.                                        *)
TakePendingReopens(r) ==
  [r EXCEPT !.action = "None", !.reply = NoReply,
            !.expected = IF r.action = "Deliver" THEN Advance(@) ELSE @,
            !.finish_seq = IF r.action \in {"Started", "Finished"} THEN NoSeq ELSE @]

TakePendingStays(r) ==
  [r EXCEPT !.action = "None", !.reply = NoReply,
            !.finish_seq = IF r.action = "Started" THEN NoSeq ELSE @]

(* take_pending, when the last byte of the reply has been written. *)
TakePending(r) ==
  [r EXCEPT !.action = "None", !.reply = NoReply,
            !.expected = IF r.action = "Deliver" THEN Advance(@) ELSE @,
            !.finish_seq = IF r.action = "Started" THEN NoSeq ELSE @]

Actions == {"Deliver", "Duplicate", "Started", "Finished", "Aborted",
            "Rejected", "CrcRejected"}

RxType == [expected : Seqs, action : Actions \cup {"None"}, reply : Frame,
           finish_seq : Seqs \cup {NoSeq}, abort_latched : BOOLEAN,
           filled : 0 .. FrameLen - 1]
=============================================================================
