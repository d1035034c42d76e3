----------------------------- MODULE CallersInv -----------------------------
(***************************************************************************)
(* The inductive invariant of Callers.                                     *)
(*                                                                         *)
(* The scheduler: an actor's wait is counted by the actors the cursor has  *)
(* passed since its last tick (SchedInv).                                  *)
(*                                                                         *)
(* A link: its one session and the patient timeout leave at most one frame *)
(* or answer under way while its receiver is polled, so every answer is    *)
(* about the frame in flight (LinkInv).  d is the number of bytes whose ACK*)
(* the receiver has written, the one a full sink refused included.         *)
(*                                                                         *)
(* The retries: while its receiver is polled, a flight has used at most as *)
(* many of them as the line was hit (RetryInv).                            *)
(***************************************************************************)
EXTENDS Callers

-----------------------------------------------------------------------------
(* The scheduler. *)

(* Slots from slot c to slot i, wrapping. *)
Gap(c, i) == (i - c) % Capacity

(* The actors behind l as the cursor sees them: it has passed them since it*)
(* last stood behind l.                                                    *)
Passed(l) ==
  {m \in Links : \E i, j \in Slots :
                   /\ sys.slots[i] = l /\ sys.slots[j] = m
                   /\ Gap(sys.cursor, i) < Gap(sys.cursor, j)}

SchedTyped ==
  /\ sys \in [slots : [Slots -> Links \cup {Free}], cursor : Slots, live : Nat,
              done : SUBSET Links]
  /\ waited \in [Links -> Nat]

(* No link has two slots, and live counts the slots that are not done. *)
OneSlotEach ==
  \A i, j \in Slots : sys.slots[i] = sys.slots[j] /\ sys.slots[i] # Free => i = j

LiveSlots == {i \in Slots : Live(i)}

SchedInv ==
  /\ SchedTyped /\ OneSlotEach
  /\ \A l \in sys.done : Spawned(l)
  /\ sys.live = Cardinality(LiveSlots)
  /\ \A l \in Links : waited[l] <= Cardinality(Passed(l))

-----------------------------------------------------------------------------
(* A link. *)

SendResults == {"Run", "Ok", "Aborted", "RetriesExhausted", "Source", "Transport"}
RecvResults == {"Run", "Ok", "Aborted", "Full", "IdleBudgetExhausted", "Transport"}

SendType == [res : SendResults, read : Nat, n : Nat, gone : BOOLEAN]
RecvType == [res : RecvResults, n : Nat, idle : Nat, len : Nat]

LinkTyped ==
  /\ host \in {"recv_all", "system", "by hand"}
  /\ tx \in [Links -> TxType] /\ rx \in [Links -> RxType]
  /\ fwd \in [Links -> Seq(Frame)] /\ back \in [Links -> Seq(Frame)]
  /\ src \in [Links -> [len : Nat, fails : BOOLEAN]]
  /\ send \in [Links -> SendType] /\ sink \in [Links -> Seq(Nat)]
  /\ recv \in RecvType /\ faults \in 0 .. FaultBudget

(* Only the host's own loop runs. *)
HostInv ==
  /\ host # "recv_all" => recv.res = "Run"
  /\ host # "system" => sys.done = {}
  /\ host = "recv_all" => recv.n = Len(sink[1])

GaveUp(s) == s.res \notin {"Run", "Ok"}

(* Bytes of link l whose ACK was written. *)
Delivered(l) ==
  Len(sink[l]) + (IF l = 1 /\ recv.res = "Full" THEN 1 ELSE 0)

SinkInv(l) == \A i \in 1 .. Len(sink[l]) : sink[l][i] = i

(* What may be on its way to a receiver that is still polled. *)
FwdOK(f, s, len, d) ==
  /\ f.type \in {"Data", "Finish", "Abort", "Bad", "Torn"}
  /\ f.type = "Data" => /\ s.read >= 1 /\ f.pos = s.read /\ f.seq = SeqOf(s.read)
                        /\ d >= s.read - 1
  /\ f.type = "Finish" => f.seq = len % SeqMod /\ d = len
  /\ f.type \in {"Abort", "Torn"} => GaveUp(s)

(* The receiver: its SEQ is its count, and its reply is about the last byte*)
(* offered or about FINISH.                                                *)
RxOK(r, s, len, d) ==
  /\ d <= s.read /\ s.read <= len
  /\ ~r.abort_latched => r.expected = d % SeqMod
  /\ r.abort_latched => GaveUp(s)
  /\ IsFinished(r) => d = len /\ r.finish_seq = len % SeqMod
  /\ r.action # "Started"
  /\ r.action \in {"Deliver", "Duplicate"} =>
       /\ r.reply.type = "Ack" /\ r.reply.seq = SeqOf(s.read) /\ r.reply.pos = s.read
       /\ ~r.abort_latched /\ ~IsFinished(r)
       /\ d = IF r.action = "Deliver" THEN s.read - 1 ELSE s.read
       /\ s.read >= 1
  /\ r.action = "Finished" =>
       IsFinished(r) /\ r.reply.type = "Ack" /\ r.reply.seq = len % SeqMod
  /\ r.action = "Aborted" => r.abort_latched
  /\ r.action \in {"CrcRejected", "Rejected"} => r.reply.type = "Nack"

(* What can be in answer to a flight. *)
ReplyOf(kind) == {"CrcRejected", "Rejected"} \cup
                   IF kind = "Data" THEN {"Deliver", "Duplicate"} ELSE {"Finished"}

(* An answer on its way back is about the flight. *)
BackOK(c, t, s, d, heard) ==
  /\ c.type \in {"Ack", "Nack", "Bad"}
  /\ c.type = "Ack" => /\ c.seq = t.flight.seq
                       /\ t.flight.kind = "Data" => d = s.read
                       /\ t.flight.kind = "Finish" => heard

(* What a flight of a running send_all carries: the byte after the n that  *)
(* are acknowledged, or FINISH after the last.                             *)
FlightIs(t, r, s, len, d) ==
  /\ t.state \in {"Sending", "WaitingAck", "Retrying"}
  /\ t.flight.seq = t.seq
  /\ \/ /\ t.flight.kind = "Data" /\ t.flight.pos = s.read /\ s.read = s.n + 1
        /\ d >= s.n /\ ~IsFinished(r)
     \/ /\ t.flight.kind = "Finish" /\ s.read = s.n /\ s.n = len /\ d = len

(* At most one frame or answer of a flight is under way.  A receiver that  *)
(* is polled no more may keep its reply, and frames it will never read.    *)
OneUnderWay(t, r, f, b, s, d, stop, heard) ==
  /\ b # <<>> => t.flight.waiting /\ Len(b) = 1 /\ BackOK(b[1], t, s, d, heard)
  /\ Replying(r) => /\ r.action \in ReplyOf(t.flight.kind) /\ b = <<>>
                    /\ ~stop => t.flight.waiting
  /\ ~stop /\ f # <<>> => /\ t.flight.waiting /\ ~Replying(r) /\ b = <<>>
                          /\ Len(f) = 1 /\ f[1].type \in {t.flight.kind, "Bad"}

(* Between two flights nothing is under way. *)
RestOK(t, r, f, b, s, d, stop) ==
  /\ t.state = "Idle" /\ s.read = s.n /\ d = s.n
  /\ ~IsFinished(r) /\ ~Replying(r)
  /\ b = <<>> /\ (~stop => f = <<>>)

TxOK(t, r, f, b, s, len, d, stop, heard) ==
  /\ s.res = "Run" =>
       /\ ~t.writing /\ t.seq = s.n % SeqMod
       /\ InFlight(t) => /\ FlightIs(t, r, s, len, d)
                         /\ OneUnderWay(t, r, f, b, s, d, stop, heard)
       /\ ~InFlight(t) => RestOK(t, r, f, b, s, d, stop)
  /\ s.res = "Ok" => s.n = len /\ d = len /\ heard /\ ~InFlight(t)

LinkState(t, r, f, b, s, len, d, stop, heard) ==
  /\ RxOK(r, s, len, d)
  /\ ~stop => \A k \in 1 .. Len(f) : FwdOK(f[k], s, len, d)
  /\ TxOK(t, r, f, b, s, len, d, stop, heard)

(* The receiver has answered FINISH, and if it is a loop it has returned.  *)
FinishHeard(l) == host = "by hand" \/ l \in sys.done \/ (l = 1 /\ recv.res = "Ok")

LinkInv(l) ==
  /\ SinkInv(l)
  /\ LinkState(tx[l], rx[l], fwd[l], back[l], send[l], src[l].len, Delivered(l),
               Stopped(l), FinishHeard(l))
  /\ l \in sys.done => Delivered(l) = src[l].len \/ GaveUp(send[l])
  /\ l = 1 /\ recv.res = "Ok" => Delivered(l) = src[l].len

CallersInv ==
  /\ SchedInv /\ LinkTyped /\ HostInv
  /\ \A l \in Links : LinkInv(l)

-----------------------------------------------------------------------------
(* Retries.  An attempt of a flight fails only if the line was hit, as long*)
(* as the receiver is polled: Failures counts the attempts, n the hits.    *)

(* The flight waits, and nothing under way can acknowledge it. *)
Doomed(t, r, f, b) ==
  /\ t.flight.waiting
  /\ f # <<>> => f[1].type = "Bad"
  /\ r.action \notin {"Deliver", "Duplicate", "Finished"}
  /\ b # <<>> => b[1].type # "Ack"

Failures(t) == MaxRetries - t.flight.retries_left

BudgetOK(t, r, f, b, s, stop, n) ==
  s.res = "Run" /\ InFlight(t) /\ ~stop =>
    /\ Failures(t) <= n
    /\ Doomed(t, r, f, b) => Failures(t) + 1 <= n

(* recv_all gave up by itself. *)
Starved == recv.res \in {"Full", "IdleBudgetExhausted"}

(* A loop that stopped without a hit gave up, or FINISH's ACK is coming. *)
StoppedOK(t, b, s, stop, n, starved) ==
  s.res = "Run" /\ stop /\ n = 0 /\ ~starved =>
    /\ InFlight(t) /\ t.flight.waiting /\ t.flight.kind = "Finish"
    /\ b # <<>> /\ b[1].type = "Ack"

RetryState(t, r, f, b, s, stop, n, starved) ==
  /\ r.filled # 0 => GaveUp(s)
  /\ BudgetOK(t, r, f, b, s, stop, n)
  /\ StoppedOK(t, b, s, stop, n, starved)
  /\ s.res = "RetriesExhausted" => stop /\ (n = 0 => starved)

RetryInv ==
  \A l \in Links :
    RetryState(tx[l], rx[l], fwd[l], back[l], send[l], Stopped(l), faults, Starved)
=============================================================================
