------------------------------- MODULE TurnInv -------------------------------
(***************************************************************************)
(* The invariant behind one speaker at a time (Turn): until the first      *)
(* abort, with a line that leaves replies alone and a patient timeout.     *)
(*                                                                         *)
(* What peer p says to the other is one exchange: its turn, its sender, the*)
(* control frames on their way back to it (c), the payload frames on their *)
(* way to the other (i), the receiver they reach (r), and how many bytes   *)
(* of this session the other has received (d).  Exchange says how these    *)
(* belong together at every stage; Floor says who may have one open.       *)
(***************************************************************************)
EXTENDS Turn

(* What the theorems assume of the line and of the retry policy: no reply  *)
(* is ever hit, and timeout_ticks exceeds every round trip.                *)
TurnTaking == PatientTimeout /\ Hits \cap {"Ack", "Nack"} = {}

(* Bytes that have left p's queue; bytes of its session that have arrived. *)
Gone(p) == pushed[p] - Len(turn[p].buf)
Arrived(p) == Len(got[Other(p)]) - Gone(p)

Open(r) == r.finish_seq = NoSeq

(* Nothing is under way. *)
Nothing(c, i, r) == c = <<>> /\ i = <<>> /\ ~Replying(r)

(* The receiver is ready for the flight: it has taken everything before it.*)
Ready(u, t, r, d) ==
  \/ t.flight.kind = "Start" /\ d = 0
  \/ t.flight.kind = "Data" /\ Open(r) /\ r.expected = t.flight.seq /\ d = u.index - 1
  \/ t.flight.kind = "Finish" /\ Open(r) /\ r.expected = t.flight.seq /\ d = u.index

(* The reply that is being written accepts the flight. *)
Accepts(u, t, r, d) ==
  /\ r.reply = MkFrame("Ack", t.flight.seq, t.flight.sess, t.flight.pos)
  /\ \/ t.flight.kind = "Start" /\ r.action = "Started" /\ r.expected = 0 /\ d = 0
     \/ /\ t.flight.kind = "Data" /\ r.action = "Deliver" /\ Open(r)
        /\ r.expected = t.flight.seq /\ d = u.index - 1
     \/ t.flight.kind = "Finish" /\ r.action = "Finished" /\ d = u.index

(* The flight is accepted and its ACK is on its way. *)
Taken(u, t, r, d) ==
  \/ t.flight.kind = "Start" /\ Open(r) /\ r.expected = 0 /\ d = 0
  \/ /\ t.flight.kind = "Data" /\ Open(r)
     /\ r.expected = Advance(t.flight.seq) /\ d = u.index
  \/ t.flight.kind = "Finish" /\ d = u.index

(* Where a flight is: still to be written or lost, at the other peer,      *)
(* rejected there, or accepted there.                                      *)
AtHome(u, t, c, i, r, d) == Nothing(c, i, r) /\ Ready(u, t, r, d)

OnTheWay(u, t, c, i, r, d) ==
  /\ Waits(t) /\ c = <<>> /\ ~Replying(r) /\ Ready(u, t, r, d)
  /\ i = <<FlightFrame(t)>> \/ i = <<BadFrame>>

Rejecting(u, t, c, i, r, d) ==
  /\ Waits(t) /\ c = <<>> /\ i = <<>> /\ Ready(u, t, r, d)
  /\ r.action = "CrcRejected" /\ r.reply.type = "Nack"

Rejected(u, t, c, i, r, d) ==
  /\ Waits(t) /\ i = <<>> /\ ~Replying(r) /\ Ready(u, t, r, d)
  /\ Len(c) = 1 /\ c[1].type = "Nack"

Accepting(u, t, c, i, r, d) ==
  Waits(t) /\ c = <<>> /\ i = <<>> /\ Accepts(u, t, r, d)

Answered(u, t, c, i, r, d) ==
  /\ Waits(t) /\ i = <<>> /\ ~Replying(r) /\ Taken(u, t, r, d)
  /\ c = <<MkFrame("Ack", t.flight.seq, t.flight.sess, t.flight.pos)>>

Stage(u, t, c, i, r, d) ==
  \/ AtHome(u, t, c, i, r, d) \/ OnTheWay(u, t, c, i, r, d)
  \/ Rejecting(u, t, c, i, r, d) \/ Rejected(u, t, c, i, r, d)
  \/ Accepting(u, t, c, i, r, d) \/ Answered(u, t, c, i, r, d)

(* The flight of a turn: what drive_tx offered last. *)
Offered(u, t) ==
  \/ t.flight.kind = "Start" /\ t.flight.seq = 0 /\ u.index = 0 /\ ~u.finish_offered
  \/ /\ t.flight.kind = "Data" /\ u.index \in 1 .. Len(u.buf) /\ ~u.finish_offered
     /\ t.seq = (u.index - 1) % SeqMod /\ t.flight.seq = t.seq
     /\ t.flight.pos = u.buf[u.index]
  \/ /\ t.flight.kind = "Finish" /\ u.index = Len(u.buf) /\ u.finish_offered
     /\ t.seq = u.index % SeqMod /\ t.flight.seq = t.seq

Flying(u, t, c, i, r, d) ==
  /\ u.speak /\ ~u.need_start /\ u.buf # <<>>
  /\ t.flight.kind # "None"
  /\ t.writing => ~t.flight.waiting
  /\ t.state \in {"Sending", "WaitingAck", "Retrying"}
  /\ Offered(u, t) /\ Stage(u, t, c, i, r, d)

(* No session is open. *)
Silent(u, t, c, i, r, d) ==
  /\ u.need_start /\ u.index = 0 /\ ~u.finish_offered
  /\ t.flight.kind = "None" /\ ~t.writing /\ t.state \in {"Idle", "Finished"}
  /\ Nothing(c, i, r) /\ d = 0

(* Between two flights of a session. *)
Between(u, t, c, i, r, d) ==
  /\ u.speak /\ ~u.need_start /\ ~u.finish_offered /\ u.buf # <<>>
  /\ t.flight.kind = "None" /\ ~t.writing /\ t.state = "Idle"
  /\ Nothing(c, i, r) /\ Open(r) /\ r.expected = t.seq
  /\ u.index \in 0 .. Len(u.buf) /\ t.seq = u.index % SeqMod /\ d = u.index

(* The sender gave up: no session is ever opened again. *)
Stuck(u, t, c, i, r, d) ==
  /\ u.speak /\ ~u.need_start /\ u.buf # <<>>
  /\ t.flight.kind = "None" /\ ~t.writing /\ t.state = "Failed"
  /\ Nothing(c, i, r) /\ d \in 0 .. Len(u.buf)

Exchange(u, t, c, i, r, d) ==
  \/ Silent(u, t, c, i, r, d) \/ Between(u, t, c, i, r, d)
  \/ Stuck(u, t, c, i, r, d) \/ Flying(u, t, c, i, r, d)

Says(p) == Exchange(turn[p], pump[p].tx, ctl[p], pay[Other(p)],
                    pump[Other(p)].rx, Arrived(p))

(***************************************************************************)
(* The floor.  One peer speaks and the other keeps silent; or the turn     *)
(* changes hands: p's FINISH was accepted and its ACK lies in p's ring,    *)
(* while the other has already begun to START.  p cannot complete a reply  *)
(* to that START before its sender has read the ACK.                       *)
(***************************************************************************)
FinishAcked(p) ==
  pump[p].tx.flight.kind = "Finish" /\ ctl[p] # <<>> /\ Head(ctl[p]).type = "Ack"

Alone(p) == turn[p].speak /\ ~turn[Other(p)].speak /\ ~FinishAcked(p)

Handing(p) ==
  LET q == Other(p) IN
  /\ turn[p].speak /\ turn[q].speak /\ FinishAcked(p)
  /\ turn[q].index = 0 /\ ctl[q] = <<>>
  /\ turn[q].need_start \/ pump[q].tx.state = "Failed" \/ pump[q].tx.flight.kind = "Start"
  /\ Replying(pump[p].rx) => behind[p]

Floor == \E p \in Peers : Alone(p) \/ Handing(p)

(* The queue holds the youngest bytes; the bytes received are the oldest.  *)
Queued(p) ==
  /\ Len(turn[p].buf) <= pushed[p]
  /\ \A k \in 1 .. Len(turn[p].buf) : turn[p].buf[k] = Gone(p) + k

InOrder(p) == \A k \in 1 .. Len(got[p]) : got[p][k] = k

Orderly(p) ==
  /\ ~garbled[p] /\ ~pump[p].pending_completed
  /\ pump[p].tx_done_seen <=> pump[p].tx.state = "Finished"
  /\ ~pump[p].rx.abort_latched /\ pump[p].rx.filled = 0

TurnRec == [speak : BOOLEAN, buf : Seq(Nat), index : Nat,
            need_start : BOOLEAN, finish_offered : BOOLEAN]

TurnType ==
  /\ turn \in [Peers -> TurnRec]
  /\ pump \in [Peers -> PumpType]
  /\ \A p \in Peers : pump[p].tx.writing => InFlight(pump[p].tx)
  /\ ctl \in [Peers -> Seq(Frame)] /\ pay \in [Peers -> Seq(Frame)]
  /\ garbled \in [Peers -> BOOLEAN] /\ behind \in [Peers -> BOOLEAN]
  /\ pushed \in [Peers -> Nat] /\ got \in [Peers -> Seq(Nat)]
  /\ faults \in Nat /\ aborts \in Nat

Conversation ==
  /\ \A p \in Peers : Says(p) /\ Queued(p) /\ InOrder(p) /\ Orderly(p)
  /\ Floor

TurnInv == aborts = 0 => Conversation
==============================================================================
