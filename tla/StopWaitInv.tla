---------------------------- MODULE StopWaitInv ----------------------------
(***************************************************************************)
(* The inductive invariant behind InOrder, CloseIsComplete and AckedLead   *)
(* for links whose sessions open on a drained line.                        *)
(*                                                                         *)
(* Positions order everything: START has position 0, the i-th byte of the  *)
(* session position i, FINISH and ABORT come after the last byte offered.  *)
(* A wire never holds a frame behind one of a later position, so the       *)
(* receiver, once it has gone past a position, never meets it again except *)
(* as the immediate predecessor of what it expects; and the sender, once   *)
(* past an ACK, meets only ACKs of the same or a later position.           *)
(***************************************************************************)
EXTENDS StopWait

n == Len(delivered)

(* The sender may still send DATA in this session. *)
Active == /\ tx.state \notin {"Finished", "Aborted", "Failed"}
          /\ tx.flight.kind # "Abort"

Opening == Active /\ tx.flight.kind = "Start"

Streaming == Active /\ tx.flight.kind # "Start"

(* Bytes delivered or about to be: the reply under way counts. *)
Taken == IF rx.action = "Deliver" THEN n + 1 ELSE n

Ordered == {"Start", "Data", "Finish", "Abort"}

(* The sender's own bookkeeping. *)
TxCoherent ==
  /\ (tx.flight.kind = "None") <=> tx.state \in {"Idle", "Finished", "Aborted", "Failed"}
  /\ tx.writing => tx.flight.kind # "None" /\ ~tx.flight.waiting
  /\ tx.flight.kind # "None" => tx.flight.sess = sess
  /\ tx.flight.kind = "Abort" => tx.flight.seq = 0 /\ tx.flight.pos = sent + 1

(* What has been offered, acknowledged and delivered. *)
Counts ==
  /\ sent <= acked + 1
  /\ acked <= sent
  /\ InOrder
  /\ AckedLead
  /\ Opening => sent = 0 /\ acked = 0 /\ tx.flight.pos = 0 /\ tx.flight.seq = 0
  /\ Streaming => tx.seq = acked % SeqMod
  /\ Active /\ tx.flight.kind = "Data" =>
       sent = acked + 1 /\ tx.flight.pos = sent /\ tx.flight.seq = acked % SeqMod
  /\ Active /\ tx.flight.kind # "Data" => sent = acked
  /\ Active /\ tx.flight.kind = "Finish" =>
       tx.flight.pos = sent + 1 /\ tx.flight.seq = sent % SeqMod

(* One frame on the way to the receiver. *)
FwdFrame(f) ==
  /\ f.type \in Ordered \cup {"Bad", "Torn"}
  /\ f.type = "Torn" => f.seq \in 1 .. FrameLen - 1
  /\ f.type = "Data" => /\ f.sess = sess
                        /\ f.pos >= 1 /\ f.pos <= sent /\ f.pos >= Taken
                        /\ f.seq = SeqOf(f.pos)
  /\ f.type = "Start" => f.pos = 0 /\ Taken = 0 /\ (Streaming => ~IsFinished(rx))
  /\ f.type = "Finish" => /\ f.pos = sent + 1 /\ f.seq = sent % SeqMod
                          /\ acked = sent
                          /\ Active => tx.flight.kind = "Finish"
  /\ f.type = "Abort" => f.pos = sent + 1 /\ ~Active

FwdInv ==
  /\ \A k \in 1 .. Len(fwd) : FwdFrame(fwd[k])
  /\ \A j, k \in 1 .. Len(fwd) :
       j < k /\ fwd[j].type \in Ordered /\ fwd[k].type \in Ordered
         => fwd[j].pos <= fwd[k].pos

(* One ACK on the way, or about to be on the way, to an active sender. *)
AckFrame(a) ==
  /\ a.pos = 0 => a.seq = 0 /\ acked <= 1
  /\ a.pos \in 1 .. sent => a.seq = SeqOf(a.pos) /\ a.pos >= acked /\ a.pos <= Taken
  /\ a.pos > sent => /\ a.pos = sent + 1 /\ a.seq = sent % SeqMod
                     /\ n = sent /\ IsFinished(rx)
                     /\ tx.flight.kind = "Finish"
  /\ Opening => a.pos = 0 /\ rx.expected = 0 /\ ~IsClosed(rx)

BackInv ==
  Active =>
    /\ \A k \in 1 .. Len(back) : back[k].type = "Ack" => AckFrame(back[k])
    /\ \A k \in 1 .. Len(back) :
         back[k].type = "Ack" /\ back[k].pos \in 1 .. sent => back[k].pos <= n
    /\ Replying(rx) /\ rx.reply.type = "Ack" => AckFrame(rx.reply)
    /\ \A j, k \in 1 .. Len(back) :
         j < k /\ back[j].type = "Ack" /\ back[k].type = "Ack"
           => back[j].pos <= back[k].pos
    /\ \A k \in 1 .. Len(back) :
         back[k].type = "Ack" /\ Replying(rx) /\ rx.reply.type = "Ack"
           => back[k].pos <= rx.reply.pos

(* The receiver's own state against what it has delivered. *)
RxCoherent ==
  /\ Streaming => ~rx.abort_latched /\ rx.expected = n % SeqMod
  /\ sent > 0 => rx.abort_latched \/ rx.expected = n % SeqMod
  /\ IsFinished(rx) => n = sent /\ rx.action # "Deliver"
  /\ Streaming /\ IsFinished(rx) => tx.flight.kind = "Finish"
  /\ rx.action = "Deliver" =>
       /\ rx.reply.type = "Ack" /\ rx.reply.sess = sess
       /\ rx.reply.pos = n + 1 /\ rx.reply.seq = SeqOf(n + 1)
       /\ n + 1 <= sent /\ ~IsClosed(rx)
  /\ rx.action = "Started" => ~IsFinished(rx)
  /\ tx.state = "Finished" => n = sent

IInv == TypeOK /\ TxCoherent /\ Counts /\ FwdInv /\ BackInv /\ RxCoherent
=============================================================================
