----------------------------- MODULE PumpProofs -----------------------------
(***************************************************************************)
(* The pump's reports, for every modulus, retry policy, number of bytes,   *)
(* sessions, aborts and faults: no byte and no end of a session is lost    *)
(* between Pump::poll and a caller that polls by hand.                     *)
(***************************************************************************)
EXTENDS PumpPair, HalvesProofs

Bytes == [sess : Nat, pos : Nat]

Ends == [end : {"own FINISH", "Finished", "Aborted"}, sess : Nat]

AppType == [sess : Nat, offered : Nat, finish_offered : BOOLEAN, n : Nat,
            ret : {"running", "by hand", "Ok", "Aborted", "RetriesExhausted",
                   "IdleBudgetExhausted"}]

PairTyped ==
  /\ pump \in [Peers -> PumpType] /\ \A p \in Peers : PumpTyped(pump[p])
  /\ ctl \in [Peers -> Seq(Frame)] /\ pay \in [Peers -> Seq(Frame)]
  /\ app \in [Peers -> AppType]
  /\ out \in [Peers -> Seq(Bytes)] /\ got \in [Peers -> Seq(Bytes)]
  /\ told \in [Peers -> SUBSET {"Aborted", "Err"}]
  /\ due \in [Peers -> SUBSET Ends] /\ spurious \in [Peers -> BOOLEAN]

(***************************************************************************)
(* The edge detector of TransferDone tells one session from the next: it   *)
(* is set while the sender is Finished, and afterwards only until the first*)
(* byte of the next flight is written.  A sender can become Finished while *)
(* it is set, and the end be hidden, in no single poll.                    *)
(***************************************************************************)
Edge(pu) ==
  /\ pu.tx.state = "Finished" => pu.tx_done_seen /\ ~InFlight(pu.tx)
  /\ pu.tx_done_seen =>
       \/ pu.tx.state = "Finished"
       \/ pu.tx.state = "Sending" /\ WantsWrite(pu.tx)

(* The ends E a caller has yet to be told: the one pump pu owes, if any.   *)
OneOwed(E) == \E e \in E : E = {e} /\ e.end = "own FINISH"

OnlyOwed(pu, E) == IF pu.pending_completed THEN OneOwed(E) ELSE E = {}

(* While send_all runs nothing is recorded, and what is owed is its own.   *)
EndsTold(pu, E, b, ret) ==
  ~b /\ IF ret = "running" THEN E = {} ELSE OnlyOwed(pu, E)

(* What a caller by hand was given of the bytes o its receiver delivered. *)
BytesTold(g, o, T) == g = o \/ T \cap {"Err", "Aborted"} # {}

PairInv ==
  /\ PairTyped
  /\ \A p \in Peers :
       /\ Edge(pump[p]) /\ EndsTold(pump[p], due[p], spurious[p], app[p].ret)
       /\ app[p].ret = "by hand" => BytesTold(got[p], out[p], told[p])

-----------------------------------------------------------------------------
(* What one poll tells the caller. *)

(* What the caller has been told once the poll returned. *)
After(T, event) == T \cup ({event} \cap {"Aborted", "Err"})

LEMMA AfterTells ==
  ASSUME NEW T, NEW ev
  PROVE  /\ T \subseteq After(T, ev)
         /\ ev \in {"Aborted", "Err"} => ev \in After(T, ev)
BY DEF After

(* Only the ACK of FINISH finishes a sender, and ends the flight. *)
LEMMA Finishes ==
  ASSUME NEW t, SenderTyped(t), NEW ts \in TxSteps, NEW cin \in Seq(Frame), NEW calm,
         TxCan(t, ts, cin, calm), NEW u, u = AfterTx(t, ts, cin), u.state = "Finished"
  PROVE  \/ u = t
         \/ t.state = "Finished" /\ InFlight(t)
         \/ t.flight.kind = "Finish" /\ ~WantsWrite(t) /\ ~InFlight(u)
<1>0. t \in TxType
  BY DEF SenderTyped
<1>1. CASE ts = "none"
  BY <1>1 DEF AfterTx
<1>2. CASE ts = "begin"
  BY <1>0, <1>2, WriteFields DEF AfterTx
<1>3. CASE ts = "end"
  BY <1>0, <1>3, WriteFields DEF AfterTx
<1>4. CASE ts = "read"
  <2>1. u = OnControl(t, Head(cin)) /\ Waits(t) /\ Head(cin) \in Frame
    BY <1>4, TailFacts DEF AfterTx, TxCan
  <2>2. CASE u = ForceAbort(t)
    BY <1>0, <2>2, ForceAbortFields
  <2>3. CASE u = OnAck(t)
    BY <1>0, <2>1, <2>3, AckFields DEF Waits, WantsWrite, InFlight
  <2>4. CASE u.state \in {"Failed", "Retrying", t.state}
    BY <2>1, <2>4 DEF Waits
  <2> QED BY <1>0, <2>1, <2>2, <2>3, <2>4, ControlFields
<1>5. CASE ts = "tick"
  <2>1. u = OnEmptyRead(t) /\ Waits(t)
    BY <1>5 DEF AfterTx, TxCan
  <2>2. u.state \in {"Failed", "Retrying", t.state}
    BY <1>0, <2>1, AttemptFields
  <2> QED BY <2>1, <2>2 DEF Waits
<1> QED BY <1>1, <1>2, <1>3, <1>4, <1>5 DEF TxSteps

(* A sender without a flight stays; one with a fresh flight begins to write.*)
LEMMA Starts ==
  ASSUME NEW t, SenderTyped(t), NEW ts \in TxSteps, NEW cin, NEW calm,
         TxCan(t, ts, cin, calm), NEW u, u = AfterTx(t, ts, cin)
  PROVE  /\ ~InFlight(t) => u = t
         /\ WantsWrite(t) => u.state = "Sending"
<1>0. t \in TxType /\ (t.writing => InFlight(t))
  BY DEF SenderTyped
<1>1. ~InFlight(t) => ts = "none"
  BY <1>0 DEF TxCan, TxSteps, WantsWrite, Waits
<1>2. WantsWrite(t) => ts = "begin"
  BY DEF TxCan, TxSteps, WantsWrite, Waits
<1> QED BY <1>0, <1>1, <1>2, WriteFields DEF AfterTx

(* The sender in a poll that pays nothing: its end is the edge that        *)
(* Pump::poll looks for, and no ABORT of the peer is in the same poll.     *)
LEMMA PollEdge ==
  ASSUME NEW pu, PumpTyped(pu), Edge(pu), NEW rs \in RxSteps, NEW ts \in TxSteps,
         NEW cin \in Seq(Frame), NEW pin, NEW calm,
         CanPoll(pu, rs, ts, cin, pin, calm), ~pu.pending_completed,
         NEW r, NEW ro, NEW t1, NEW to, BothOf(pu, rs, ts, cin, pin, r, ro, t1, to)
  PROVE  /\ Edge(r.pump)
         /\ r.pump.tx.state = "Finished" /\ pu.tx.state # "Finished" <=> DoneEdge(pu, to)
         /\ DoneEdge(pu, to) => ro # "Aborted" /\ r.event # "Aborted"
<1>1. PICK t, u : t = pu.tx /\ u = r.pump.tx
  OBVIOUS
<1>0. /\ SenderTyped(t) /\ t \in TxType /\ pu.tx_done_seen \in BOOLEAN
      /\ SenderTyped(t1) /\ t1 = CancelTx(t, ro)
      /\ TxCan(t1, ts, cin, calm) /\ u = AfterTx(t1, ts, cin)
      /\ to = TxOutcome(t1, u)
  BY <1>1, PumpFields, CancelTyped DEF PumpTyped, SenderTyped, BothOf, CanPoll
<1>e. /\ t.state = "Finished" => pu.tx_done_seen /\ ~InFlight(t)
      /\ pu.tx_done_seen => t.state = "Finished" \/ (t.state = "Sending" /\ WantsWrite(t))
  BY <1>1 DEF Edge
<1>2. t1 = t \/ (t1.state = "Aborted" /\ t1.flight.kind = "None")
  BY <1>0, ForceAbortFields DEF CancelTx
<1>3. /\ to = "TransferDone" <=> u.state = "Finished"
      /\ to = "RetriesExhausted" <=> u.state = "Failed"
      /\ to = "Aborted" <=> u.state = "Aborted"
  BY <1>0 DEF TxOutcome
<1>4. /\ to = "RetriesExhausted" <=> r.event = "Err"
      /\ r.event = "Aborted" => "Aborted" \in {ro, to}
  BY EventOf DEF BothOf
<1>5. r.pump.tx_done_seen = IF r.event = "Err" THEN pu.tx_done_seen ELSE to = "TransferDone"
  BY DEF BothOf
<1>6. u.state = "Finished" =>
        /\ ~InFlight(u)
        /\ \/ t.state = "Finished"
           \/ t1.flight.kind = "Finish" /\ t1 = t /\ ~WantsWrite(t)
  <2> SUFFICES ASSUME u.state = "Finished"
               PROVE  /\ ~InFlight(u)
                      /\ \/ t.state = "Finished"
                         \/ t1.flight.kind = "Finish" /\ t1 = t /\ ~WantsWrite(t)
    OBVIOUS
  <2>1. \/ u = t1
        \/ t1.state = "Finished" /\ InFlight(t1)
        \/ t1.flight.kind = "Finish" /\ ~WantsWrite(t1) /\ ~InFlight(u)
    BY <1>0, Finishes
  <2>2. CASE u = t1
    BY <1>2, <1>e, <2>2
  <2>3. CASE t1.state = "Finished" /\ InFlight(t1)
    BY <1>2, <1>e, <2>3
  <2>4. CASE t1.flight.kind = "Finish" /\ ~WantsWrite(t1) /\ ~InFlight(u)
    BY <1>2, <2>4
  <2> QED BY <2>1, <2>2, <2>3, <2>4
<1>7. u.state = "Failed" => ~pu.tx_done_seen
  <2> SUFFICES ASSUME pu.tx_done_seen PROVE u.state # "Failed"
    OBVIOUS
  <2>1. ~InFlight(t1) \/ WantsWrite(t1)
    BY <1>2, <1>e DEF InFlight
  <2>2. (~InFlight(t1) => u = t1) /\ (WantsWrite(t1) => u.state = "Sending")
    BY <1>0, Starts
  <2>3. t1.state \in {"Finished", "Sending", "Aborted"}
    BY <1>2, <1>e
  <2> QED BY <2>1, <2>2, <2>3
<1>8. Edge(r.pump)
  BY <1>1, <1>3, <1>4, <1>5, <1>6, <1>7 DEF Edge
<1>9. u.state = "Finished" /\ t.state # "Finished" <=> DoneEdge(pu, to)
  BY <1>3, <1>6, <1>e DEF DoneEdge
<1>10. DoneEdge(pu, to) => ro # "Aborted"
  <2> SUFFICES ASSUME DoneEdge(pu, to), ro = "Aborted" PROVE FALSE
    OBVIOUS
  <2>1. t1.flight.kind = "Finish" /\ t1 = t
    BY <1>6, <1>9
  <2>2. ~HoldsSessionControl(t)
    BY <2>1 DEF HoldsSessionControl
  <2>3. t1 = ForceAbort(t)
    BY <1>0, <2>2 DEF CancelTx
  <2> QED BY <1>0, <2>1, <2>3, ForceAbortFields
<1>11. DoneEdge(pu, to) => r.event # "Aborted"
  BY <1>4, <1>10 DEF DoneEdge
<1> QED BY <1>1, <1>8, <1>9, <1>10, <1>11

(* A poll tells the ends of that poll and what was owed, or owes the own   *)
(* one; and it gives no Completed for nothing.                             *)
LEMMA PollEnds ==
  ASSUME NEW pu, PumpTyped(pu), Edge(pu), NEW rs \in RxSteps, NEW ts \in TxSteps,
         NEW cin \in Seq(Frame), NEW pin, NEW calm,
         CanPoll(pu, rs, ts, cin, pin, calm),
         NEW r, r = Polled(pu, rs, ts, cin, pin),
         NEW s, NEW D, OnlyOwed(pu, D), NEW E, E = D \cup Ended(pu, rs, r.pump.tx, s)
  PROVE  /\ OnlyOwed(r.pump, Untold(E, r.event))
         /\ r.event = "Completed" => Untold(E, r.event) # E
<1>0. pu \in PumpType
  BY DEF PumpTyped
<1>1. CASE pu.pending_completed
  <2>1. rs = "none" /\ r.pump.tx = pu.tx /\ r.event = "Completed" /\ ~r.pump.pending_completed
    BY <1>0, <1>1, PolledOwed DEF CanPoll
  <2>2. Ended(pu, rs, r.pump.tx, s) = {}
    <3>1. OwnEnds(pu, r.pump.tx, s) = {}
      BY <2>1 DEF OwnEnds
    <3>2. RxOutcome(pu.rx, rs) = "Pending"
      BY <2>1 DEF RxOutcome
    <3>3. PeerEnds(pu, rs) = {}
      BY <3>2 DEF PeerEnds
    <3> QED BY <3>1, <3>3 DEF Ended
  <2>3. PICK e \in D : D = {e} /\ e.end = "own FINISH"
    BY <1>1 DEF OnlyOwed, OneOwed
  <2>4. E = {e} /\ Untold(E, r.event) = {}
    BY <2>1, <2>2, <2>3 DEF Untold, Tells
  <2> QED BY <2>1, <2>4 DEF OnlyOwed
<1>2. CASE ~pu.pending_completed
  <2>1. PICK ro, t1, to : BothOf(pu, rs, ts, cin, pin, r, ro, t1, to)
    BY <1>0, <1>2, PolledBoth
  <2>2. /\ r.pump.tx.state = "Finished" /\ pu.tx.state # "Finished" <=> DoneEdge(pu, to)
        /\ DoneEdge(pu, to) => ro # "Aborted" /\ r.event # "Aborted"
    BY <1>2, <2>1, PollEdge
  <2>3. /\ ro = "Aborted" => r.event \in {"Err", "Aborted"}
        /\ ro = "Finished" => r.event \in {"Err", "Aborted", "Completed"}
        /\ r.event = "Received" => ro = "Deliver"
        /\ DoneEdge(pu, to) => r.event \in {"Aborted", "Received", "Completed"}
        /\ r.event = "Completed" => ro = "Finished" \/ DoneEdge(pu, to)
    BY <2>1, EventOf DEF BothOf
  <2>4. r.pump.pending_completed <=> r.event = "Received" /\ DoneEdge(pu, to)
    BY <2>1 DEF BothOf
  <2>5. PICK own, theirs : /\ own = [end |-> "own FINISH", sess |-> s]
                           /\ theirs = [end |-> ro, sess |-> pu.rx.reply.sess]
    OBVIOUS
  <2>6. own.end = "own FINISH" /\ theirs.end = ro /\ ro = RxOutcome(pu.rx, rs)
    BY <2>1, <2>5 DEF BothOf
  <2>7. OwnEnds(pu, r.pump.tx, s) = IF DoneEdge(pu, to) THEN {own} ELSE {}
    BY <2>2, <2>5 DEF OwnEnds
  <2>8. PeerEnds(pu, rs) = IF ro \in {"Finished", "Aborted"} THEN {theirs} ELSE {}
    BY <2>5, <2>6 DEF PeerEnds
  <2>9. E = OwnEnds(pu, r.pump.tx, s) \cup PeerEnds(pu, rs)
    BY <1>2 DEF OnlyOwed, Ended
  <2>10. CASE r.event = "Received"
    <3>1. Untold(E, r.event) = E /\ E = IF DoneEdge(pu, to) THEN {own} ELSE {}
      BY <2>3, <2>7, <2>8, <2>9, <2>10 DEF Untold, Tells
    <3> QED BY <2>4, <2>6, <2>10, <3>1 DEF OnlyOwed, OneOwed
  <2>11. CASE r.event = "Completed"
    <3>1. ro # "Aborted" /\ E # {}
      BY <2>3, <2>7, <2>8, <2>9, <2>11
    <3>2. Untold(E, r.event) = {}
      BY <2>6, <2>7, <2>8, <2>9, <2>11, <3>1 DEF Untold, Tells
    <3> QED BY <2>4, <2>11, <3>1, <3>2 DEF OnlyOwed
  <2>12. CASE r.event \in {"Err", "Aborted"}
    <3>1. ~DoneEdge(pu, to)
      BY <2>2, <2>3, <2>12
    <3>2. Untold(E, r.event) = {}
      BY <2>6, <2>7, <2>8, <2>9, <2>12, <3>1 DEF Untold, Tells
    <3> QED BY <2>4, <2>12, <3>2 DEF OnlyOwed
  <2>13. CASE r.event \notin {"Received", "Completed", "Err", "Aborted"}
    <3>1. E = {}
      BY <2>3, <2>7, <2>8, <2>9, <2>13
    <3> QED BY <2>4, <2>13, <3>1 DEF OnlyOwed, Untold
  <2> QED BY <2>10, <2>11, <2>12, <2>13
<1> QED BY <1>0, <1>1, <1>2, PumpFields

(* The edge detector after any poll. *)
LEMMA PollKeepsEdge ==
  ASSUME NEW pu, PumpTyped(pu), Edge(pu), NEW rs \in RxSteps, NEW ts \in TxSteps,
         NEW cin \in Seq(Frame), NEW pin, NEW calm,
         CanPoll(pu, rs, ts, cin, pin, calm),
         NEW r, r = Polled(pu, rs, ts, cin, pin)
  PROVE  /\ Edge(r.pump)
         /\ r.pump.pending_completed => r.event = "Received"
<1>0. pu \in PumpType
  BY DEF PumpTyped
<1>1. CASE pu.pending_completed
  BY <1>0, <1>1, PolledOwed DEF Edge
<1>2. CASE ~pu.pending_completed
  <2>1. PICK ro, t1, to : BothOf(pu, rs, ts, cin, pin, r, ro, t1, to)
    BY <1>0, <1>2, PolledBoth
  <2>2. Edge(r.pump)
    BY <1>2, <2>1, PollEdge
  <2>3. r.pump.pending_completed = (r.event = "Received" /\ DoneEdge(pu, to))
    BY <2>1 DEF BothOf
  <2> QED BY <2>2, <2>3
<1> QED BY <1>0, <1>1, <1>2, PumpFields

(* A byte whose ACK the poll wrote is its event, or the event is an error  *)
(* or an abort; no other poll reports a byte.                              *)
LEMMA PollReceives ==
  ASSUME NEW pu, PumpTyped(pu), NEW rs \in RxSteps, NEW ts \in TxSteps,
         NEW cin, NEW pin, NEW calm, CanPoll(pu, rs, ts, cin, pin, calm),
         NEW r, r = Polled(pu, rs, ts, cin, pin)
  PROVE  \/ r.event \in {"Err", "Aborted"}
         \/ r.event = "Received" <=> Delivers(pu, rs)
<1>0. pu \in PumpType
  BY DEF PumpTyped
<1>1. CASE pu.pending_completed
  <2>1. r.event = "Completed" /\ rs = "none"
    BY <1>0, <1>1, PolledOwed DEF CanPoll
  <2> QED BY <2>1 DEF Delivers, RxOutcome
<1>2. CASE ~pu.pending_completed
  <2>1. PICK ro, t1, to : BothOf(pu, rs, ts, cin, pin, r, ro, t1, to)
    BY <1>0, <1>2, PolledBoth
  <2>2. /\ r.event = "Received" => ro = "Deliver"
        /\ ro = "Deliver" => r.event \in {"Err", "Aborted", "Received"}
    BY <2>1, EventOf DEF BothOf
  <2>3. Delivers(pu, rs) <=> ro = "Deliver"
    BY <2>1 DEF Delivers, BothOf
  <2> QED BY <2>2, <2>3
<1> QED BY <1>0, <1>1, <1>2, PumpFields

-----------------------------------------------------------------------------
(* The invariant. *)

LEMMA PeerFacts ==
  ASSUME NEW p \in Peers
  PROVE  /\ Other(p) \in Peers /\ Other(p) # p
         /\ \A q \in Peers : q = p \/ q = Other(p)
BY DEF Peers, Other

(* An offer gives the pump a new flight and nothing to report. *)
LEMMA OfferKeeps ==
  ASSUME NEW pu, PumpTyped(pu), Edge(pu), NEW x, SenderTyped(x), x.state = "Sending",
         WantsWrite(x) \/ ~pu.tx_done_seen,
         NEW v, v = [pu EXCEPT !.tx = x]
  PROVE  PumpTyped(v) /\ Edge(v) /\ v.pending_completed = pu.pending_completed
<1>1. /\ v.tx = x /\ v.rx = pu.rx /\ v \in PumpType
      /\ v.tx_done_seen = pu.tx_done_seen /\ v.pending_completed = pu.pending_completed
  BY DEF PumpTyped, PumpType, SenderTyped
<1>2. PumpTyped(v)
  BY <1>1 DEF PumpTyped, SenderTyped
<1>3. Edge(v)
  BY <1>1 DEF Edge
<1> QED BY <1>1, <1>2, <1>3

(* A flight that was just offered is the next thing the sender writes. *)
LEMMA OffersWait ==
  ASSUME NEW t, SenderTyped(t), NEW s \in Nat, NEW n \in Nat, NEW x,
         \/ ~t.writing /\ x \in {OfferStart(t, s), Offer(t, s, n), OfferFinish(t, s, n)}
         \/ x = OfferAbort(t, s, n)
  PROVE  SenderTyped(x) /\ x.state = "Sending" /\ WantsWrite(x)
<1>1. t \in TxType
  BY DEF SenderTyped
<1>2. SenderTyped(x) /\ x.state = "Sending"
  <2>1. x \in {OfferStart(t, s), Offer(t, s, n), OfferFinish(t, s, n), OfferAbort(t, s, n)}
    BY Zenon
  <2> QED BY <2>1, OffersTyped, Zenon
<1>3. ~x.writing /\ ~x.flight.waiting /\ x.flight.kind # "None"
  <2>1. CASE ~t.writing /\ x = OfferStart(t, s)
    BY <1>1, <2>1 DEF OfferStart, Begin, TxType
  <2>2. CASE ~t.writing /\ x = Offer(t, s, n)
    BY <1>1, <2>2 DEF Offer, Begin, TxType
  <2>3. CASE ~t.writing /\ x = OfferFinish(t, s, n)
    BY <1>1, <2>3 DEF OfferFinish, Begin, TxType
  <2>4. CASE x = OfferAbort(t, s, n)
    BY <1>1, <2>4 DEF OfferAbort, Begin, TxType
  <2> QED BY <2>1, <2>2, <2>3, <2>4
<1> QED BY <1>2, <1>3 DEF WantsWrite, InFlight

(* What the line makes of a frame. *)
LEMMA CarriedType ==
  ASSUME NEW f \in Frame, NEW c \in Carried(f) \cup Silence
  PROVE  c.frames \in Seq(Frame)
<1>1. <<f>> \in Seq(Frame) /\ <<BadFrame>> \in Seq(Frame) /\ <<>> \in Seq(Frame)
  BY FrameType
<1>2. c.frames = <<f>> \/ c.frames = <<BadFrame>> \/ c.frames = <<>>
  BY DEF Carried, Silence
<1> QED BY <1>1, <1>2

LEMMA LineKeeps ==
  ASSUME NEW w \in [Peers -> Seq(Frame)], NEW p \in Peers, NEW b \in BOOLEAN,
         b => w[p] # <<>>, NEW e \in Seq(Frame),
         NEW v, v = [w EXCEPT ![p] = IF b THEN Tail(@) ELSE @, ![Other(p)] = @ \o e]
  PROVE  v \in [Peers -> Seq(Frame)]
<1>1. (IF b THEN Tail(w[p]) ELSE w[p]) \in Seq(Frame)
  BY TailFacts
<1>2. \A x \in Seq(Frame) : x \o e \in Seq(Frame)
  OBVIOUS
<1>3. PICK u : u = [w EXCEPT ![p] = IF b THEN Tail(@) ELSE @]
  OBVIOUS
<1>4. u \in [Peers -> Seq(Frame)]
  BY <1>1, <1>3
<1>5. v = [u EXCEPT ![Other(p)] = u[Other(p)] \o e]
  BY <1>3, PeerFacts
<1>6. u[Other(p)] \o e \in Seq(Frame)
  BY <1>2, <1>4, PeerFacts
<1> QED BY <1>4, <1>5, <1>6

LEMMA MoveTyped ==
  ASSUME PairTyped, NEW p \in Peers, NEW pu, PumpTyped(pu),
         NEW rs \in RxSteps, NEW ts \in TxSteps, NEW torn,
         rs = "read" => pay[p] # <<>>, ts = "read" => ctl[p] # <<>>,
         ts = "end" => FlightFrame(pu.tx) \in Frame,
         Move(p, pu, rs, ts, torn)
  PROVE  ctl' \in [Peers -> Seq(Frame)] /\ pay' \in [Peers -> Seq(Frame)]
<1>1. pu.rx.reply \in Frame
  BY PumpFields DEF PumpTyped
<1>2. PICK c \in IF rs = "reply" THEN Carried(pu.rx.reply) ELSE Silence,
           d \in IF ts = "end" THEN Carried(FlightFrame(pu.tx))
                 ELSE IF torn THEN {[frames |-> <<TornFrame(k)>>, hits |-> 0]
                                      : k \in 1 .. FrameLen - 1}
                 ELSE Silence :
        /\ ctl' = [ctl EXCEPT ![p] = IF ts = "read" THEN Tail(@) ELSE @,
                              ![Other(p)] = @ \o c.frames]
        /\ pay' = [pay EXCEPT ![p] = IF rs = "read" THEN Tail(@) ELSE @,
                              ![Other(p)] = @ \o d.frames]
  BY Zenon DEF Move
<1>3. c.frames \in Seq(Frame)
  <2>1. c \in Carried(pu.rx.reply) \cup Silence
    BY <1>2
  <2> QED BY <1>1, <2>1, CarriedType
<1>4. d.frames \in Seq(Frame)
  <2>1. CASE ts = "end"
    BY <1>2, <2>1, CarriedType
  <2>2. CASE ts # "end" /\ torn
    <3>1. PICK k \in 1 .. FrameLen - 1 : d = [frames |-> <<TornFrame(k)>>, hits |-> 0]
      BY <1>2, <2>2
    <3>2. TornFrame(k) \in Frame
      BY FrameType
    <3> QED BY <3>1, <3>2
  <2>3. CASE ts # "end" /\ ~torn
    BY <1>1, <1>2, <2>3, CarriedType
  <2> QED BY <2>1, <2>2, <2>3
<1>5. ctl' \in [Peers -> Seq(Frame)]
  BY <1>2, <1>3, LineKeeps DEF PairTyped
<1>6. pay' \in [Peers -> Seq(Frame)]
  BY <1>2, <1>4, LineKeeps DEF PairTyped
<1> QED BY <1>5, <1>6

LEMMA PairInvInit == Init => PairInv
<1> SUFFICES ASSUME Init PROVE PairInv
  OBVIOUS
<1>1. TxInit \in TxType /\ RxInit \in RxType
  <2>1. NoFlight \in Flight /\ 0 \in Seqs /\ NoReply \in Frame
    BY FlightType, SeqTypes, NoReplyType
  <2> QED BY <2>1 DEF TxInit, TxType, TxStates, RxInit, RxType, FrameLen
<1>2. /\ PumpTyped(PumpInit) /\ Edge(PumpInit)
      /\ \A ret : EndsTold(PumpInit, {}, FALSE, ret)
  BY <1>1 DEF PumpTyped, PumpInit, PumpType, Edge, EndsTold, OnlyOwed, TxInit, RxInit,
              InFlight, NoFlight
<1>3. \A p \in Peers : AppInit(p) \in AppType
  BY DEF AppInit, AppType
<1>4. <<>> \in Seq(Frame) /\ <<>> \in Seq(Bytes)
  OBVIOUS
<1>5. PairTyped
  BY <1>2, <1>3, <1>4 DEF Init, PairTyped, PumpTyped
<1> QED BY <1>2, <1>5 DEF Init, PairInv, BytesTold

(* A call that offers a flight, made by hand or in send_all. *)
LEMMA OfferStep ==
  ASSUME PairInv, NEW p \in Peers, NEW x, SenderTyped(x), x.state = "Sending", WantsWrite(x),
         pump' = [pump EXCEPT ![p].tx = x]
  PROVE  /\ pump' \in [Peers -> PumpType]
         /\ \A q \in Peers : /\ PumpTyped(pump'[q]) /\ Edge(pump'[q])
                             /\ pump'[q].pending_completed = pump[q].pending_completed
<1>0. pump \in [Peers -> PumpType] /\ \A q \in Peers : PumpTyped(pump[q]) /\ Edge(pump[q])
  BY DEF PairInv, PairTyped
<1>1. pump' = [pump EXCEPT ![p] = [pump[p] EXCEPT !.tx = x]]
  BY <1>0
<1>2. /\ pump'[p] = [pump[p] EXCEPT !.tx = x]
      /\ \A q \in Peers : q # p => pump'[q] = pump[q]
  BY <1>0, <1>1
<1>3. /\ PumpTyped(pump'[p]) /\ Edge(pump'[p])
      /\ pump'[p].pending_completed = pump[p].pending_completed
  BY <1>0, <1>2, OfferKeeps
<1>4. \A q \in Peers : /\ PumpTyped(pump'[q]) /\ Edge(pump'[q])
                       /\ pump'[q].pending_completed = pump[q].pending_completed
  BY <1>0, <1>2, <1>3, Zenon
<1>5. pump' \in [Peers -> PumpType]
  <2>1. [pump[p] EXCEPT !.tx = x] \in PumpType
    BY <1>2, <1>3 DEF PumpTyped
  <2> QED BY <1>0, <1>1, <2>1
<1> QED BY <1>4, <1>5

(* A step that gives the caller nothing new. *)
LEMMA QuietStep ==
  ASSUME PairInv, UNCHANGED <<out, got, told, due, spurious>>,
         pump' \in [Peers -> PumpType],
         \A q \in Peers : /\ PumpTyped(pump'[q]) /\ Edge(pump'[q])
                          /\ pump'[q].pending_completed = pump[q].pending_completed,
         app' \in [Peers -> AppType], \A q \in Peers : app'[q].ret = app[q].ret,
         ctl' \in [Peers -> Seq(Frame)], pay' \in [Peers -> Seq(Frame)]
  PROVE  PairInv'
<1>1. PairTyped'
  BY DEF PairInv, PairTyped
<1>2. ASSUME NEW q \in Peers
      PROVE  EndsTold(pump'[q], due'[q], spurious'[q], app'[q].ret)
  <2>1. EndsTold(pump[q], due[q], spurious[q], app[q].ret)
    BY DEF PairInv
  <2> QED BY <2>1, Zenon DEF EndsTold, OnlyOwed
<1>3. ASSUME NEW q \in Peers, app'[q].ret = "by hand"
      PROVE  BytesTold(got'[q], out'[q], told'[q])
  BY <1>3 DEF PairInv
<1> QED BY <1>1, <1>2, <1>3 DEF PairInv

(* The app's counters. *)
LEMMA AppFields ==
  ASSUME NEW a \in AppType
  PROVE  /\ a.sess \in Nat /\ a.offered \in Nat /\ a.n \in Nat
         /\ [a EXCEPT !.sess = a.sess + 1, !.offered = 0] \in AppType
         /\ [a EXCEPT !.offered = a.offered + 1] \in AppType
         /\ [a EXCEPT !.finish_offered = TRUE] \in AppType
<1>1. a.sess \in Nat /\ a.offered \in Nat /\ a.n \in Nat
  BY DEF AppType
<1>2. a.sess + 1 \in Nat /\ a.offered + 1 \in Nat /\ 0 \in Nat
  BY <1>1
<1>3. [a EXCEPT !.sess = a.sess + 1, !.offered = 0] \in AppType
  BY <1>2, Zenon DEF AppType
<1>4. [a EXCEPT !.offered = a.offered + 1] \in AppType
  BY <1>2, Zenon DEF AppType
<1>5. [a EXCEPT !.finish_offered = TRUE] \in AppType
  BY Zenon DEF AppType
<1> QED BY <1>1, <1>3, <1>4, <1>5

LEMMA HandCallsKeep ==
  ASSUME PairInv, NEW p \in Peers,
         HandStart(p) \/ HandOffer(p) \/ HandFinish(p) \/ HandAbort(p)
  PROVE  PairInv'
<1>0. /\ SenderTyped(pump[p].tx) /\ app \in [Peers -> AppType] /\ app[p] \in AppType
      /\ ctl \in [Peers -> Seq(Frame)] /\ pay \in [Peers -> Seq(Frame)]
  BY PumpFields DEF PairInv, PairTyped, PumpTyped, SenderTyped
<1>a. app[p].sess \in Nat /\ app[p].sess + 1 \in Nat /\ app[p].offered + 1 \in Nat /\ 0 \in Nat
  <2>1. app[p].sess \in Nat /\ app[p].offered \in Nat
    BY <1>0, AppFields
  <2> QED BY <2>1
<1>1. CASE HandStart(p)
  <2>1. PICK x : x = OfferStart(pump[p].tx, app[p].sess + 1)
    OBVIOUS
  <2>2. SenderTyped(x) /\ x.state = "Sending" /\ WantsWrite(x)
    <3>1. ~pump[p].tx.writing
      BY <1>1 DEF HandStart, CanOfferStart
    <3> QED BY <1>0, <1>a, <2>1, <3>1, OffersWait
  <2>3. pump' = [pump EXCEPT ![p].tx = x]
    BY <1>1, <2>1 DEF HandStart
  <2>4. app' = [app EXCEPT ![p] = [app[p] EXCEPT !.sess = app[p].sess + 1, !.offered = 0]]
    BY <1>0, <1>1 DEF HandStart
  <2>5. app' \in [Peers -> AppType] /\ \A q \in Peers : app'[q].ret = app[q].ret
    <3>1. PICK a : a = [app[p] EXCEPT !.sess = app[p].sess + 1, !.offered = 0]
      OBVIOUS
    <3>2. a \in AppType
      BY <1>0, <3>1, AppFields
    <3>3. a.ret = app[p].ret
      BY <1>0, <3>1 DEF AppType
    <3>4. app' = [app EXCEPT ![p] = a]
      BY <2>4, <3>1
    <3> QED BY <1>0, <3>2, <3>3, <3>4
  <2>6. UNCHANGED <<out, got, told, due, spurious, ctl, pay>>
    BY <1>1 DEF HandStart
  <2> QED BY <1>0, <2>2, <2>3, <2>5, <2>6, OfferStep, QuietStep
<1>2. CASE HandOffer(p)
  <2>1. PICK x : x = Offer(pump[p].tx, app[p].sess, app[p].offered + 1)
    OBVIOUS
  <2>2. SenderTyped(x) /\ x.state = "Sending" /\ WantsWrite(x)
    <3>1. ~pump[p].tx.writing
      BY <1>2 DEF HandOffer, CanOfferData
    <3> QED BY <1>0, <1>a, <2>1, <3>1, OffersWait
  <2>3. pump' = [pump EXCEPT ![p].tx = x]
    BY <1>2, <2>1 DEF HandOffer
  <2>4. app' = [app EXCEPT ![p] = [app[p] EXCEPT !.offered = app[p].offered + 1]]
    BY <1>0, <1>2 DEF HandOffer
  <2>5. app' \in [Peers -> AppType] /\ \A q \in Peers : app'[q].ret = app[q].ret
    <3>1. PICK a : a = [app[p] EXCEPT !.offered = app[p].offered + 1]
      OBVIOUS
    <3>2. a \in AppType
      BY <1>0, <3>1, AppFields
    <3>3. a.ret = app[p].ret
      BY <1>0, <3>1 DEF AppType
    <3>4. app' = [app EXCEPT ![p] = a]
      BY <2>4, <3>1
    <3> QED BY <1>0, <3>2, <3>3, <3>4
  <2>6. UNCHANGED <<out, got, told, due, spurious, ctl, pay>>
    BY <1>2 DEF HandOffer
  <2> QED BY <1>0, <2>2, <2>3, <2>5, <2>6, OfferStep, QuietStep
<1>3. CASE HandFinish(p)
  <2>1. PICK x : x = OfferFinish(pump[p].tx, app[p].sess, app[p].offered + 1)
    OBVIOUS
  <2>2. SenderTyped(x) /\ x.state = "Sending" /\ WantsWrite(x)
    <3>1. ~pump[p].tx.writing
      BY <1>3 DEF HandFinish, CanOfferData
    <3> QED BY <1>0, <1>a, <2>1, <3>1, OffersWait
  <2>3. pump' = [pump EXCEPT ![p].tx = x]
    BY <1>3, <2>1 DEF HandFinish
  <2>4. UNCHANGED <<app, out, got, told, due, spurious, ctl, pay>>
    BY <1>3 DEF HandFinish
  <2> QED BY <1>0, <2>2, <2>3, <2>4, OfferStep, QuietStep
<1>4. CASE HandAbort(p)
  <2>1. PICK x : x = OfferAbort(pump[p].tx, app[p].sess, 0)
    OBVIOUS
  <2>2. SenderTyped(x) /\ x.state = "Sending" /\ WantsWrite(x)
    BY <1>0, <1>a, <2>1, OffersWait
  <2>3. pump' = [pump EXCEPT ![p].tx = x]
    BY <1>4, <2>1 DEF HandAbort
  <2>4. UNCHANGED <<app, out, got, told, due, spurious, ctl>>
    BY <1>4 DEF HandAbort
  <2>5. pay' \in [Peers -> Seq(Frame)]
    <3>1. CASE pay' = pay
      BY <1>0, <3>1
    <3>2. ASSUME NEW k \in 1 .. FrameLen - 1,
                 pay' = [pay EXCEPT ![Other(p)] = Append(@, TornFrame(k))]
          PROVE  pay' \in [Peers -> Seq(Frame)]
      <4>1. Append(pay[Other(p)], TornFrame(k)) \in Seq(Frame)
        BY <1>0, PeerFacts, FrameType, AppendFacts
      <4> QED BY <1>0, <3>2, <4>1
    <3> QED BY <1>4, <3>1, <3>2 DEF HandAbort
  <2> QED BY <1>0, <2>2, <2>3, <2>4, <2>5, OfferStep, QuietStep
<1> QED BY <1>1, <1>2, <1>3, <1>4

(* The fields of a poll, made by hand or in send_all, that need their types.*)
LEMMA PollStepTyped ==
  ASSUME PairInv, NEW p \in Peers, NEW pu, PumpTyped(pu),
         NEW rs \in RxSteps, NEW ts \in TxSteps,
         CanPoll(pu, rs, ts, ctl[p], pay[p], Calm(p)),
         NEW r, r = Polled(pu, rs, ts, ctl[p], pay[p]),
         pump' = [pump EXCEPT ![p] = r.pump],
         Move(p, pu, rs, ts, r.torn),
         out' = [out EXCEPT ![p] = IF Delivers(pu, rs) THEN Append(@, Byte(pu)) ELSE @]
  PROVE  /\ pump' \in [Peers -> PumpType] /\ \A q \in Peers : PumpTyped(pump'[q])
         /\ pump'[p] = r.pump /\ \A q \in Peers : q # p => pump'[q] = pump[q]
         /\ ctl' \in [Peers -> Seq(Frame)] /\ pay' \in [Peers -> Seq(Frame)]
         /\ out' \in [Peers -> Seq(Bytes)] /\ Byte(pu) \in Bytes
<1>0. /\ pump \in [Peers -> PumpType] /\ \A q \in Peers : PumpTyped(pump[q])
      /\ ctl \in [Peers -> Seq(Frame)] /\ pay \in [Peers -> Seq(Frame)]
      /\ out \in [Peers -> Seq(Bytes)] /\ PairTyped
  BY DEF PairInv, PairTyped
<1>1. /\ PumpTyped(r.pump)
      /\ ts = "end" => FlightFrame(pu.tx) \in Frame
      /\ rs = "read" => pay[p] # <<>>
      /\ ts = "read" => ctl[p] # <<>>
  <2>1. ctl[p] \in Seq(Frame) /\ pay[p] \in Seq(Frame)
    BY <1>0
  <2> QED BY <2>1, PolledTyped
<1>2. pump'[p] = r.pump /\ \A q \in Peers : q # p => pump'[q] = pump[q]
  BY <1>0
<1>3. pump' \in [Peers -> PumpType] /\ \A q \in Peers : PumpTyped(pump'[q])
  <2>1. r.pump \in PumpType
    BY <1>1 DEF PumpTyped
  <2>2. pump' \in [Peers -> PumpType]
    BY <1>0, <2>1
  <2> QED BY <1>0, <1>1, <1>2, <2>2, Zenon
<1>4. ctl' \in [Peers -> Seq(Frame)] /\ pay' \in [Peers -> Seq(Frame)]
  BY <1>0, <1>1, MoveTyped
<1>5. Byte(pu) \in Bytes
  BY PumpFields, FrameFields DEF PumpTyped, Byte, Bytes
<1>6. out' \in [Peers -> Seq(Bytes)]
  <2>1. Append(out[p], Byte(pu)) \in Seq(Bytes) /\ out[p] \in Seq(Bytes)
    BY <1>0, <1>5, AppendFacts
  <2> QED BY <1>0, <2>1
<1> QED BY <1>2, <1>3, <1>4, <1>5, <1>6

LEMMA EndedTyped ==
  ASSUME NEW pu, NEW rs, NEW t, NEW s \in Nat, pu.rx.reply.sess \in Nat
  PROVE  Ended(pu, rs, t, s) \subseteq Ends
<1>1. [end |-> "own FINISH", sess |-> s] \in Ends
  BY DEF Ends
<1>2. ASSUME NEW o \in {"Finished", "Aborted"}
      PROVE  [end |-> o, sess |-> pu.rx.reply.sess] \in Ends
  BY DEF Ends
<1>3. ASSUME NEW e \in PeerEnds(pu, rs) PROVE e \in Ends
  <2>1. e = [end |-> RxOutcome(pu.rx, rs), sess |-> pu.rx.reply.sess]
        /\ e.end \in {"Finished", "Aborted"}
    BY <1>3, Zenon DEF PeerEnds
  <2>2. RxOutcome(pu.rx, rs) \in {"Finished", "Aborted"}
    BY <2>1
  <2> QED BY <1>2, <2>1, <2>2, Zenon
<1>4. OwnEnds(pu, t, s) \subseteq Ends
  BY <1>1, Zenon DEF OwnEnds
<1> QED BY <1>3, <1>4 DEF Ended

LEMMA HandPollKeeps ==
  ASSUME PairInv, NEW p \in Peers, NEW rs \in RxSteps, NEW ts \in TxSteps,
         HandPoll(p, rs, ts)
  PROVE  PairInv'
<1> DEFINE pu == pump[p]
<1>1. PICK r : r = Polled(pu, rs, ts, ctl[p], pay[p])
  OBVIOUS
<1> DEFINE ends == Ended(pu, rs, r.pump.tx, app[p].sess)
<1>2. /\ CanPoll(pu, rs, ts, ctl[p], pay[p], Calm(p))
      /\ pump' = [pump EXCEPT ![p] = r.pump]
      /\ Move(p, pu, rs, ts, r.torn)
      /\ out' = [out EXCEPT ![p] = IF Delivers(pu, rs) THEN Append(@, Byte(pu)) ELSE @]
      /\ got' = [got EXCEPT ![p] = IF r.event = "Received" THEN Append(@, Byte(pu)) ELSE @]
      /\ told' = [told EXCEPT ![p] = @ \cup ({r.event} \cap {"Aborted", "Err"})]
      /\ due' = [due EXCEPT ![p] = Untold(due[p] \cup ends, r.event)]
      /\ spurious' = [spurious EXCEPT ![p] =
                        @ \/ (r.event = "Completed"
                             /\ Untold(due[p] \cup ends, r.event) = due[p] \cup ends)]
      /\ app[p].ret # "running" /\ UNCHANGED app
  BY <1>1, Zenon DEF HandPoll, ByHand
<1>0. /\ PumpTyped(pu) /\ Edge(pu) /\ PairTyped
      /\ ctl[p] \in Seq(Frame) /\ pay[p] \in Seq(Frame)
      /\ out \in [Peers -> Seq(Bytes)] /\ got \in [Peers -> Seq(Bytes)]
      /\ told \in [Peers -> SUBSET {"Aborted", "Err"}]
      /\ due \in [Peers -> SUBSET Ends] /\ spurious \in [Peers -> BOOLEAN]
      /\ app \in [Peers -> AppType]
      /\ EndsTold(pu, due[p], spurious[p], app[p].ret)
  BY DEF PairInv, PairTyped
<1>3. /\ pump' \in [Peers -> PumpType] /\ \A q \in Peers : PumpTyped(pump'[q])
      /\ pump'[p] = r.pump /\ \A q \in Peers : q # p => pump'[q] = pump[q]
      /\ ctl' \in [Peers -> Seq(Frame)] /\ pay' \in [Peers -> Seq(Frame)]
      /\ out' \in [Peers -> Seq(Bytes)] /\ Byte(pu) \in Bytes
  <2> HIDE DEF pu
  <2> QED BY <1>0, <1>1, <1>2, PollStepTyped
<1>4. told'[p] = After(told[p], r.event) /\ \A q \in Peers : q # p => told'[q] = told[q]
  BY <1>0, <1>2 DEF After
<1>5. PairTyped'
  <2>1. got' \in [Peers -> Seq(Bytes)]
    <3>1. Append(got[p], Byte(pu)) \in Seq(Bytes) /\ got[p] \in Seq(Bytes)
      BY <1>0, <1>3, AppendFacts
    <3> QED BY <1>0, <1>2, <3>1
  <2>2. told' \in [Peers -> SUBSET {"Aborted", "Err"}]
    BY <1>0, <1>2
  <2>3. due' \in [Peers -> SUBSET Ends]
    <3>1. app[p].sess \in Nat /\ pu.rx.reply.sess \in Nat
      BY <1>0, AppFields, PumpFields, FrameFields DEF PumpTyped
    <3>2. ends \subseteq Ends
      <4> HIDE DEF pu
      <4> QED BY <3>1, EndedTyped
    <3>3. Untold(due[p] \cup ends, r.event) \subseteq Ends
      <4> HIDE DEF ends
      <4> QED BY <1>0, <3>2 DEF Untold
    <3> QED BY <1>0, <1>2, <3>3
  <2>4. spurious' \in [Peers -> BOOLEAN]
    BY <1>0, <1>2
  <2> QED BY <1>0, <1>2, <1>3, <2>1, <2>2, <2>3, <2>4 DEF PairTyped
<1>6. ASSUME NEW q \in Peers, q # p
      PROVE  /\ Edge(pump'[q]) /\ EndsTold(pump'[q], due'[q], spurious'[q], app'[q].ret)
             /\ app'[q].ret = "by hand" => BytesTold(got'[q], out'[q], told'[q])
  <2>1. /\ Edge(pump[q]) /\ EndsTold(pump[q], due[q], spurious[q], app[q].ret)
        /\ app[q].ret = "by hand" => BytesTold(got[q], out[q], told[q])
    BY DEF PairInv
  <2>2. /\ got'[q] = got[q] /\ out'[q] = out[q] /\ due'[q] = due[q]
        /\ spurious'[q] = spurious[q]
    BY <1>0, <1>2, <1>6
  <2> QED BY <1>2, <1>3, <1>4, <1>6, <2>1, <2>2, Zenon
<1>7. Edge(pump'[p]) /\ EndsTold(pump'[p], due'[p], spurious'[p], app'[p].ret)
  <2>1. Edge(r.pump)
    <3> HIDE DEF pu
    <3> QED BY <1>0, <1>1, <1>2, PollKeepsEdge
  <2>2. PICK E : E = due[p] \cup ends
    OBVIOUS
  <2>3. OnlyOwed(pu, due[p]) /\ ~spurious[p]
    BY <1>0, <1>2 DEF EndsTold
  <2>4. /\ OnlyOwed(r.pump, Untold(E, r.event))
        /\ r.event = "Completed" => Untold(E, r.event) # E
    <3> HIDE DEF pu
    <3> QED BY <1>0, <1>1, <1>2, <2>2, <2>3, PollEnds
  <2>5. due'[p] = Untold(E, r.event) /\ ~spurious'[p] /\ app'[p].ret # "running"
    <3> HIDE DEF ends
    <3> QED BY <1>0, <1>2, <2>2, <2>3, <2>4
  <2> QED BY <1>3, <2>1, <2>4, <2>5, Zenon DEF EndsTold
<1>8. ASSUME app'[p].ret = "by hand"
      PROVE  BytesTold(got'[p], out'[p], told'[p])
  <2>1. BytesTold(got[p], out[p], told[p])
    BY <1>2, <1>8 DEF PairInv
  <2>3. \/ r.event \in {"Err", "Aborted"}
        \/ r.event = "Received" <=> Delivers(pu, rs)
    <3> HIDE DEF pu
    <3> QED BY <1>0, <1>1, <1>2, PollReceives
  <2>4. /\ told[p] \subseteq told'[p]
        /\ r.event \in {"Err", "Aborted"} => told'[p] \cap {"Err", "Aborted"} # {}
    BY <1>4, AfterTells
  <2>5. /\ got'[p] = IF r.event = "Received" THEN Append(got[p], Byte(pu)) ELSE got[p]
        /\ out'[p] = IF Delivers(pu, rs) THEN Append(out[p], Byte(pu)) ELSE out[p]
    BY <1>0, <1>2
  <2>6. CASE r.event \in {"Err", "Aborted"}
    BY <2>4, <2>6 DEF BytesTold
  <2>7. CASE told[p] \cap {"Err", "Aborted"} # {}
    BY <2>4, <2>7 DEF BytesTold
  <2>8. CASE got[p] = out[p] /\ (r.event = "Received" <=> Delivers(pu, rs))
    BY <2>5, <2>8, Zenon DEF BytesTold
  <2> QED BY <2>1, <2>3, <2>6, <2>7, <2>8 DEF BytesTold
<1> HIDE DEF ends, pu
<1> QED BY <1>5, <1>6, <1>7, <1>8 DEF PairInv

(* The offer send_all makes before its poll. *)
LEMMA SendAllOffers ==
  ASSUME PairInv, NEW p \in Peers, NEW o, o = SendAllOffer(p)
  PROVE  /\ o.app \in AppType
         /\ PumpTyped([pump[p] EXCEPT !.tx = o.tx]) /\ Edge([pump[p] EXCEPT !.tx = o.tx])
<1> DEFINE t == pump[p].tx
           a == app[p]
<1>0. /\ SenderTyped(t) /\ a \in AppType /\ PumpTyped(pump[p]) /\ Edge(pump[p])
      /\ pump[p] \in PumpType
  BY PumpFields DEF PairInv, PairTyped, PumpTyped, SenderTyped
<1>1. a.sess \in Nat /\ a.offered + 1 \in Nat
  <2>1. a.sess \in Nat /\ a.offered \in Nat
    BY <1>0, AppFields
  <2> QED BY <2>1
<1>2. \A x \in {Offer(t, a.sess, a.offered + 1), OfferFinish(t, a.sess, a.offered + 1)} :
        SenderTyped(x) /\ x.state = "Sending"
  <2> HIDE DEF t, a
  <2>1. PICK u, m, n : u = t /\ m = a.sess /\ n = a.offered + 1
    OBVIOUS
  <2>2. ASSUME NEW x \in {Offer(u, m, n), OfferFinish(u, m, n)}
        PROVE  SenderTyped(x) /\ x.state = "Sending"
    <3>1. x \in {OfferStart(u, m), Offer(u, m, n), OfferFinish(u, m, n), OfferAbort(u, m, n)}
      BY Zenon
    <3> QED BY <1>0, <1>1, <2>1, <3>1, OffersTyped
  <2> QED BY <2>1, <2>2
<1>3. o.app \in AppType
  BY <1>0, AppFields DEF SendAllOffer
<1>4. \/ o.tx = t
      \/ t.state = "Idle" /\ SenderTyped(o.tx) /\ o.tx.state = "Sending"
  BY <1>2 DEF SendAllOffer
<1>5. CASE o.tx = t
  <2>1. [pump[p] EXCEPT !.tx = o.tx] = pump[p]
    BY <1>0, <1>5 DEF PumpType
  <2> QED BY <1>0, <1>3, <2>1
<1>6. CASE t.state = "Idle" /\ SenderTyped(o.tx) /\ o.tx.state = "Sending"
  <2>1. ~pump[p].tx_done_seen
    BY <1>0, <1>6 DEF Edge
  <2> HIDE DEF t, a
  <2> QED BY <1>0, <1>3, <1>6, <2>1, OfferKeeps
<1> QED BY <1>4, <1>5, <1>6

LEMMA SendAllTurnKeeps ==
  ASSUME PairInv, NEW p \in Peers, NEW rs \in RxSteps, NEW ts \in TxSteps,
         SendAllTurn(p, rs, ts)
  PROVE  PairInv'
<1>1. PICK o : o = SendAllOffer(p)
  OBVIOUS
<1>2. PICK pu : pu = [pump[p] EXCEPT !.tx = o.tx]
  OBVIOUS
<1>3. PICK r : r = Polled(pu, rs, ts, ctl[p], pay[p])
  OBVIOUS
<1>4. /\ app[p].ret = "running"
      /\ CanPoll(pu, rs, ts, ctl[p], pay[p], Calm(p))
      /\ pump' = [pump EXCEPT ![p] = r.pump]
      /\ Move(p, pu, rs, ts, r.torn)
      /\ \E ret \in SendAllReturns(r.event) :
           app' = [app EXCEPT ![p] =
                     [o.app EXCEPT !.n = IF r.last_acked THEN @ + 1 ELSE @,
                                   !.ret = ret]]
      /\ out' = [out EXCEPT ![p] = IF Delivers(pu, rs) THEN Append(@, Byte(pu)) ELSE @]
      /\ UNCHANGED <<got, told, due, spurious>>
  BY <1>1, <1>2, <1>3, Zenon DEF SendAllTurn
<1>5. o.app \in AppType /\ PumpTyped(pu) /\ Edge(pu)
  BY <1>1, <1>2, SendAllOffers
<1>0. /\ PairTyped /\ app \in [Peers -> AppType] /\ out \in [Peers -> Seq(Bytes)]
  BY DEF PairInv, PairTyped
<1>6. /\ pump' \in [Peers -> PumpType] /\ \A q \in Peers : PumpTyped(pump'[q])
      /\ pump'[p] = r.pump /\ \A q \in Peers : q # p => pump'[q] = pump[q]
      /\ ctl' \in [Peers -> Seq(Frame)] /\ pay' \in [Peers -> Seq(Frame)]
      /\ out' \in [Peers -> Seq(Bytes)] /\ Byte(pu) \in Bytes
  BY <1>3, <1>4, <1>5, PollStepTyped
<1>7. /\ app' \in [Peers -> AppType] /\ app'[p].ret # "by hand"
      /\ r.event = "Received" => app'[p].ret = "running"
      /\ \A q \in Peers : q # p => app'[q] = app[q]
  <2>1. PICK ret \in SendAllReturns(r.event) :
           app' = [app EXCEPT ![p] =
                     [o.app EXCEPT !.n = IF r.last_acked THEN @ + 1 ELSE @,
                                   !.ret = ret]]
    BY <1>4
  <2>2. /\ ret \in {"running", "Ok", "Aborted", "RetriesExhausted", "IdleBudgetExhausted"}
        /\ r.event = "Received" => ret = "running"
    BY <2>1 DEF SendAllReturns
  <2>3. PICK m : m = IF r.last_acked THEN o.app.n + 1 ELSE o.app.n
    OBVIOUS
  <2>4. m \in Nat
    <3>1. o.app.n \in Nat
      BY <1>5, AppFields
    <3> QED BY <2>3, <3>1
  <2>5. PICK b : b = [o.app EXCEPT !.n = m, !.ret = ret]
    OBVIOUS
  <2>6. b \in AppType /\ b.ret = ret
    BY <1>5, <2>2, <2>4, <2>5 DEF AppType
  <2>7. app' = [app EXCEPT ![p] = b]
    BY <2>1, <2>3, <2>5
  <2> QED BY <1>0, <2>2, <2>6, <2>7
<1>8. PairTyped'
  BY <1>0, <1>4, <1>6, <1>7 DEF PairTyped
<1>9. ASSUME NEW q \in Peers, q # p
      PROVE  /\ Edge(pump'[q]) /\ EndsTold(pump'[q], due'[q], spurious'[q], app'[q].ret)
             /\ app'[q].ret = "by hand" => BytesTold(got'[q], out'[q], told'[q])
  <2>1. /\ Edge(pump[q]) /\ EndsTold(pump[q], due[q], spurious[q], app[q].ret)
        /\ app[q].ret = "by hand" => BytesTold(got[q], out[q], told[q])
    BY DEF PairInv
  <2>2. out'[q] = out[q] /\ app'[q] = app[q] /\ pump'[q] = pump[q]
    BY <1>0, <1>4, <1>6, <1>7, <1>9
  <2> QED BY <1>4, <2>1, <2>2, Zenon
<1>10. Edge(pump'[p]) /\ EndsTold(pump'[p], due'[p], spurious'[p], app'[p].ret)
  <2>1. ctl[p] \in Seq(Frame)
    BY <1>0 DEF PairTyped
  <2>2. Edge(r.pump) /\ (r.pump.pending_completed => r.event = "Received")
    BY <1>3, <1>4, <1>5, <2>1, PollKeepsEdge
  <2>3. due[p] = {} /\ ~spurious[p]
    <3>1. EndsTold(pump[p], due[p], spurious[p], app[p].ret)
      BY DEF PairInv
    <3> QED BY <1>4, <3>1 DEF EndsTold
  <2>4. due'[p] = {} /\ ~spurious'[p]
    BY <1>4, <2>3, Zenon
  <2> QED BY <1>6, <1>7, <2>2, <2>4, Zenon DEF EndsTold, OnlyOwed
<1> QED BY <1>7, <1>8, <1>9, <1>10 DEF PairInv

LEMMA PairInvStep == PairInv /\ [Next]_vars => PairInv'
<1> SUFFICES ASSUME PairInv, [Next]_vars PROVE PairInv'
  OBVIOUS
<1>1. CASE UNCHANGED vars
  BY <1>1 DEF vars, PairInv, PairTyped
<1>2. CASE Next
  <2>1. PICK p \in Peers :
          \/ HandStart(p) \/ HandOffer(p) \/ HandFinish(p) \/ HandAbort(p)
          \/ \E rs \in RxSteps, ts \in TxSteps :
               HandPoll(p, rs, ts) \/ SendAllTurn(p, rs, ts)
    BY <1>2 DEF Next
  <2> QED BY <2>1, HandCallsKeep, HandPollKeeps, SendAllTurnKeeps
<1> QED BY <1>1, <1>2

-----------------------------------------------------------------------------
(* What is proved of the pump. *)

(* The inductive invariant: the edge detector of TransferDone is armed in  *)
(* time for every session, and what a caller has yet to be told is the one *)
(* Completed its pump still owes.                                          *)
THEOREM PairInvariance == Spec => []PairInv
BY PairInvInit, PairInvStep, PTL DEF Spec

(* Pump::poll merges the outcomes of its halves into one event and loses   *)
(* no byte in doing so: a caller by hand was given every byte its receiver *)
(* acknowledged, or was told of an error or an abort.                      *)
THEOREM NoByteSwallowed == Spec => []SwallowedIsReported
<1>1. PairInv => SwallowedIsReported
  BY DEF PairInv, SwallowedIsReported, BytesTold
<1> QED BY <1>1, PairInvariance, PTL

(* Nor an end of any session, of either direction: each is told by the     *)
(* event of its own poll, or is an own FINISH whose Completed gave way to  *)
(* a byte and stays owed; and no Completed is given without such an end.   *)
THEOREM EndsAreTold == Spec => []EndTold
<1>1. PairInv => EndTold
  BY DEF PairInv, EndTold, EndsTold, OnlyOwed, OneOwed
<1> QED BY <1>1, PairInvariance, PTL
=============================================================================
