--------------------------- MODULE WindowReceiver ---------------------------
(***************************************************************************)
(* The selective-repeat receiver (src/window/rx.rs): it ACKs every frame   *)
(* of its window, keeps the early ones and delivers in order.  START,      *)
(* FINISH, ABORT and undecodable input are handled as by the stop-and-wait *)
(* receiver, with the window cleared: the operators of Receiver are used   *)
(* for them.                                                               *)
(*                                                                         *)
(* State record: that of Receiver and                                      *)
(*   buf     the reorder buffer, buf[i] for SEQ expected + i               *)
(*   emit    bytes in order, to be delivered one per poll                  *)
(*   limit   the runtime window                                            *)
(***************************************************************************)
EXTENDS Receiver, WindowFrames

NoByte == [sess |-> 0, pos |-> 0]

Offsets == 0 .. WindowLen - 1

WRxInit == [expected |-> 0, action |-> "None", reply |-> NoReply,
            finish_seq |-> NoSeq, abort_latched |-> FALSE, filled |-> 0,
            buf |-> [i \in Offsets |-> NoByte], emit |-> <<>>,
            limit |-> WindowLen]

ClearWindow(r) == [r EXCEPT !.buf = [i \in Offsets |-> NoByte], !.emit = <<>>]

(* set_window_limit, refused while the window is busy. *)
WRxCanSetLimit(r) ==
  /\ \A i \in Offsets : r.buf[i] = NoByte
  /\ r.emit = <<>> /\ ~Replying(r)

WRxSetLimit(r, n) == [r EXCEPT !.limit = n]

(* How far a SEQ is ahead of the expected one, and behind it. *)
Ahead(r, q) == Sub(q, r.expected)
Behind(r, q) == Sub(r.expected, q)

IsDuplicate(r, q) == Behind(r, q) >= 1 /\ Behind(r, q) <= r.limit

(* Mutants of WHandleData: a repeated frame is taken for the expected one; *)
(* an early frame is ACKed but not kept.                                   *)
WHandleDataTwice(r, f) ==
  LET off == IF IsDuplicate(r, f.seq) THEN 0 ELSE Ahead(r, f.seq)
  IN IF IsClosed(r) THEN r
     ELSE IF off < r.limit
       THEN BeginReply([r EXCEPT !.buf[off] = [sess |-> f.sess, pos |-> f.pos]],
                       "Ack", f.seq, f, IF off = 0 THEN "Drain" ELSE "Quiet")
     ELSE BeginReply(r, "Nack", f.seq, f, "Rejected")

WHandleDataForgets(r, f) ==
  LET off == Ahead(r, f.seq)
  IN IF IsClosed(r) THEN r
     ELSE IF off = 0
       THEN BeginReply([r EXCEPT !.buf[0] = [sess |-> f.sess, pos |-> f.pos]],
                       "Ack", f.seq, f, "Drain")
     ELSE BeginReply(r, "Ack", f.seq, f, "Quiet")

WHandleData(r, f) ==
  LET off == Ahead(r, f.seq)
  IN IF IsClosed(r) THEN r
     ELSE IF off < r.limit
       THEN BeginReply(IF r.buf[off] = NoByte
                         THEN [r EXCEPT !.buf[off] = [sess |-> f.sess, pos |-> f.pos]]
                         ELSE r,
                       "Ack", f.seq, f, IF off = 0 THEN "Drain" ELSE "Quiet")
     ELSE IF IsDuplicate(r, f.seq)
       THEN BeginReply(r, "Ack", f.seq, f, "Duplicate")
     ELSE BeginReply(r, "Nack", f.seq, f, "Rejected")

(* Mutant of WHandleStart: the reorder buffer survives the restart. *)
WHandleStartKeepsBuf(r, f) == HandleStart(r, f)

WHandleStart(r, f) == ClearWindow(HandleStart(r, f))

WHandleAbort(r, f) ==
  IF IsFinished(r) THEN r ELSE ClearWindow(HandleAbort(r, f))

WHandleFinish(r, f) ==
  LET after == HandleFinish(r, f)
  IN IF IsFinished(after) THEN ClearWindow(after) ELSE after

(* The dispatch of WindowedReceiver::poll on what the assembler yields. *)
WHandleFrame(r, f) ==
  CASE f.type = "Data" -> WHandleData(r, f)
    [] f.type = "Start" -> WHandleStart(r, f)
    [] f.type = "Finish" -> WHandleFinish(r, f)
    [] f.type = "Abort" -> WHandleAbort(r, f)
    [] f.type = "Bad" -> HandleError(r)
    [] OTHER -> r

(* The assembler: see TakeFrame in Receiver. *)
WTakeFrame(r, f) ==
  IF f.type = "Torn" \/ r.filled # 0 THEN TakeFrame(r, f) ELSE WHandleFrame(r, f)

(* drain_in_order: the bytes up to the first gap, and the shifted buffer. *)
DrainInOrder(r) ==
  LET run == CHOOSE n \in 0 .. WindowLen :
               /\ \A i \in 0 .. n - 1 : r.buf[i] # NoByte
               /\ n \in Offsets => r.buf[n] = NoByte
  IN [r EXCEPT !.buf = [i \in Offsets |->
                          IF i + run \in Offsets THEN r.buf[i + run] ELSE NoByte],
               !.emit = @ \o [i \in 1 .. run |-> r.buf[i - 1]],
               !.expected = (@ + run) % SeqMod]

(* take_pending, when the last byte of the reply has been written.  For    *)
(* Drain the first byte is then delivered in the same poll.                *)
WTakePending(r) ==
  LET done == IF r.action = "Drain" THEN DrainInOrder(r) ELSE r
  IN [done EXCEPT !.action = "None", !.reply = NoReply]

(* pop_emit *)
PopEmit(r) == [r EXCEPT !.emit = Tail(@)]

WRxType ==
  [expected : Seqs,
   action : {"None", "Drain", "Quiet", "Duplicate", "Started", "Finished",
             "Aborted", "Rejected", "CrcRejected"},
   reply : Frame, finish_seq : Seqs \cup {NoSeq}, abort_latched : BOOLEAN,
   filled : 0 .. FrameLen - 1, buf : [Offsets -> [sess : Nat, pos : Nat]],
   emit : Seq([sess : Nat, pos : Nat]), limit : 1 .. WindowLen]
=============================================================================
