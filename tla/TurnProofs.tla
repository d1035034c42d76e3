----------------------------- MODULE TurnProofs -----------------------------
(***************************************************************************)
(* One speaker at a time, for every modulus, retry policy, queue length,   *)
(* number of bytes and of faults: until the first abort, on a line that    *)
(* leaves replies alone and with a patient timeout, the turn is never held *)
(* by nobody, never talked over, given away for the own FINISH only, and   *)
(* no byte is lost, repeated or reordered.                                 *)
(***************************************************************************)
EXTENDS TurnInv, HalvesProofs

LEMMA PeerFacts ==
  /\ Peers = {1, 2}
  /\ \A p \in Peers : Other(p) \in Peers /\ Other(p) # p /\ Other(Other(p)) = p
  /\ \A p, q \in Peers : q = p \/ q = Other(p)
BY DEF Peers, Other

-----------------------------------------------------------------------------
(* What drive_tx may do, one outcome at a time. *)

StartOffered(u, t, v, w) ==
  /\ u.speak /\ u.buf # <<>> /\ u.need_start /\ CanOfferStart(t)
  /\ v = [u EXCEPT !.need_start = FALSE, !.index = 0, !.finish_offered = FALSE]
  /\ w = OfferStart(t, 0)

DataOffered(u, t, v, w) ==
  /\ u.speak /\ u.buf # <<>> /\ ~u.need_start /\ CanOfferData(t)
  /\ u.index < Len(u.buf)
  /\ v = [u EXCEPT !.index = @ + 1] /\ w = Offer(t, 0, u.buf[u.index + 1])

FinishOffered(u, t, v, w) ==
  /\ u.speak /\ u.buf # <<>> /\ ~u.need_start /\ CanOfferData(t)
  /\ ~(u.index < Len(u.buf)) /\ ~u.finish_offered
  /\ v = [u EXCEPT !.finish_offered = TRUE] /\ w = OfferFinish(t, 0, 0)

DriveOutcome(u, t, v, w) ==
  \/ v = u /\ w = t
  \/ StartOffered(u, t, v, w) \/ DataOffered(u, t, v, w) \/ FinishOffered(u, t, v, w)

LEMMA DriveOutcomes ==
  ASSUME NEW u \in TurnRec, NEW t, NEW o, o = DriveTx(u, t)
  PROVE  DriveOutcome(u, t, o.turn, o.tx)
<1>0. u.buf \in Seq(Nat) /\ (Len(u.buf) = 0 <=> u.buf = <<>>)
  BY DEF TurnRec
<1>1. CASE ~u.speak \/ Len(u.buf) = 0
  BY <1>1 DEF DriveTx, DriveOutcome
<1>2. CASE ~(~u.speak \/ Len(u.buf) = 0) /\ u.need_start
  BY <1>0, <1>2 DEF DriveTx, DriveOutcome, StartOffered
<1>3. CASE ~(~u.speak \/ Len(u.buf) = 0) /\ ~u.need_start /\ ~CanOfferData(t)
  BY <1>3 DEF DriveTx, DriveOutcome
<1>4. CASE /\ ~(~u.speak \/ Len(u.buf) = 0) /\ ~u.need_start /\ CanOfferData(t)
           /\ u.index < Len(u.buf)
  BY <1>0, <1>4 DEF DriveTx, DriveOutcome, DataOffered
<1>5. CASE /\ ~(~u.speak \/ Len(u.buf) = 0) /\ ~u.need_start /\ CanOfferData(t)
           /\ ~(u.index < Len(u.buf))
  BY <1>0, <1>5 DEF DriveTx, DriveOutcome, FinishOffered
<1> QED BY <1>1, <1>2, <1>3, <1>4, <1>5

(* The fields of a turn after it. *)
LEMMA DriveFields ==
  ASSUME NEW u \in TurnRec, NEW t \in TxType, NEW v, NEW w
  PROVE  /\ StartOffered(u, t, v, w) =>
              /\ v \in TurnRec /\ v.speak /\ v.buf = u.buf
              /\ ~v.need_start /\ v.index = 0 /\ ~v.finish_offered
         /\ DataOffered(u, t, v, w) =>
              /\ v \in TurnRec /\ v.speak /\ v.buf = u.buf /\ ~v.need_start
              /\ v.index = u.index + 1 /\ v.finish_offered = u.finish_offered
         /\ FinishOffered(u, t, v, w) =>
              /\ v \in TurnRec /\ v.speak /\ v.buf = u.buf /\ ~v.need_start
              /\ v.index = u.index /\ v.finish_offered
<1>1. StartOffered(u, t, v, w) =>
        /\ v \in TurnRec /\ v.speak /\ v.buf = u.buf
        /\ ~v.need_start /\ v.index = 0 /\ ~v.finish_offered
  <2> SUFFICES ASSUME StartOffered(u, t, v, w)
               PROVE  /\ v \in TurnRec /\ v.speak /\ v.buf = u.buf
                      /\ ~v.need_start /\ v.index = 0 /\ ~v.finish_offered
    OBVIOUS
  <2>1. /\ v = [u EXCEPT !.need_start = FALSE, !.index = 0, !.finish_offered = FALSE]
        /\ u.speak
    BY DEF StartOffered
  <2>2. v \in TurnRec
    BY <2>1 DEF TurnRec
  <2>3. v.buf = u.buf /\ v.index = 0
    BY <2>1 DEF TurnRec
  <2>4. v.speak = u.speak /\ v.need_start = FALSE /\ v.finish_offered = FALSE
    BY <2>1, Zenon DEF TurnRec
  <2> QED BY <2>1, <2>2, <2>3, <2>4
<1>2. DataOffered(u, t, v, w) =>
        /\ v \in TurnRec /\ v.speak /\ v.buf = u.buf /\ ~v.need_start
        /\ v.index = u.index + 1 /\ v.finish_offered = u.finish_offered
  BY DEF DataOffered, TurnRec
<1>3. FinishOffered(u, t, v, w) =>
        /\ v \in TurnRec /\ v.speak /\ v.buf = u.buf /\ ~v.need_start
        /\ v.index = u.index /\ v.finish_offered
  BY DEF FinishOffered, TurnRec
<1> QED BY <1>1, <1>2, <1>3

LEMMA DriveTyped ==
  ASSUME NEW u \in TurnRec, NEW t, SenderTyped(t), NEW v, NEW w,
         DriveOutcome(u, t, v, w)
  PROVE  v \in TurnRec /\ SenderTyped(w) /\ v.buf = u.buf
<1>0. t \in TxType
  BY DEF SenderTyped
<1>1. CASE v = u /\ w = t
  BY <1>1
<1>2. CASE StartOffered(u, t, v, w)
  <2>1. SenderTyped(w)
    BY <1>2, OffersTyped DEF StartOffered
  <2> QED BY <1>0, <1>2, <2>1, DriveFields
<1>3. CASE DataOffered(u, t, v, w)
  <2>1. u.buf[u.index + 1] \in Nat
    BY <1>3 DEF DataOffered, TurnRec
  <2>2. SenderTyped(w)
    BY <1>3, <2>1, OffersTyped DEF DataOffered
  <2> QED BY <1>0, <1>3, <2>2, DriveFields
<1>4. CASE FinishOffered(u, t, v, w)
  <2>1. SenderTyped(w)
    BY <1>4, OffersTyped DEF FinishOffered
  <2> QED BY <1>0, <1>4, <2>1, DriveFields
<1> QED BY <1>1, <1>2, <1>3, <1>4 DEF DriveOutcome

(* The pump that drive_tx hands to poll. *)
LEMMA DrivenPump ==
  ASSUME NEW pu, PumpTyped(pu), NEW w, SenderTyped(w), NEW x, x = [pu EXCEPT !.tx = w]
  PROVE  /\ PumpTyped(x) /\ x.tx = w /\ x.rx = pu.rx
         /\ x.tx_done_seen = pu.tx_done_seen
         /\ x.pending_completed = pu.pending_completed
BY DEF PumpTyped, PumpType, SenderTyped

(* The turn after an event. *)
LEMMA EventTyped ==
  ASSUME NEW u \in TurnRec, NEW ev
  PROVE  OnEvent(u, ev) \in TurnRec
<1>1. Rewind(u) \in TurnRec
  BY DEF Rewind, TurnRec
<1>2. /\ [Rewind(u) EXCEPT !.speak = FALSE, !.buf = <<>>] \in TurnRec
      /\ [Rewind(u) EXCEPT !.speak = TRUE] \in TurnRec
  <2> DEFINE x == Rewind(u)
  <2>1. x \in TurnRec
    BY <1>1
  <2> HIDE DEF x
  <2>2. /\ [x EXCEPT !.speak = FALSE, !.buf = <<>>] \in TurnRec
        /\ [x EXCEPT !.speak = TRUE] \in TurnRec
    <3>1. <<>> \in Seq(Nat)
      OBVIOUS
    <3>2. [x EXCEPT !.speak = FALSE, !.buf = <<>>] \in TurnRec
      BY <2>1, <3>1, Zenon DEF TurnRec
    <3>3. [x EXCEPT !.speak = TRUE] \in TurnRec
      BY <2>1 DEF TurnRec
    <3> QED BY <3>2, <3>3
  <2> QED BY <2>2 DEF x
<1> QED BY <1>1, <1>2 DEF OnEvent

-----------------------------------------------------------------------------
(* The line. *)

LEMMA HopType ==
  ASSUME NEW f \in Frame, NEW c \in Carried(f) \cup Silence
  PROVE  /\ c.frames = <<f>> \/ c.frames = <<BadFrame>> \/ c.frames = <<>>
         /\ Bad(c).frames = <<BadFrame>> \/ Bad(c).frames = <<>>
         /\ c.hits \in Nat
<1>1. c.frames = <<f>> \/ c.frames = <<BadFrame>> \/ c.frames = <<>>
  BY DEF Carried, Silence
<1>2. c \in [frames : {<<f>>, <<BadFrame>>, <<>>}, hits : {0, 1}]
  BY DEF Carried, Silence
<1>3. c.frames # <<>> => Bad(c).frames = <<BadFrame>>
  BY <1>2 DEF Bad
<1>4. c.frames = <<>> => Bad(c).frames = <<>>
  BY DEF Bad
<1> QED BY <1>1, <1>2, <1>3, <1>4

LEMMA RingType ==
  ASSUME NEW f \in Frame, NEW c,
         c.frames = <<f>> \/ c.frames = <<BadFrame>> \/ c.frames = <<>>
  PROVE  ForSender(c) \in Seq(Frame) /\ ForReceiver(c) \in Seq(Frame)
<1>1. <<f>> \in Seq(Frame) /\ <<BadFrame>> \in Seq(Frame) /\ <<>> \in Seq(Frame)
  BY FrameType
<1> QED BY <1>1 DEF ForSender, ForReceiver

(* What a poll puts on the line and takes from it: c the reply and d the   *)
(* sender's frame, as they arrive.                                         *)
MoveOf(p, x, rs, ts, r, c, d, step, c1, d1) ==
  /\ c \in IF rs = "reply" THEN Carried(x.rx.reply) ELSE Silence
  /\ d \in IF ts = "end" THEN Carried(FlightFrame(x.tx)) ELSE Silence
  /\ step \in IF garbled[p] /\ (rs = "reply" \/ ts = "end")
                THEN {"lost", "found"} ELSE {"kept"}
  /\ c1 = (IF step = "lost" THEN Bad(c) ELSE c)
  /\ d1 = (IF step = "lost" THEN Bad(d) ELSE d)
  /\ faults' = faults + c.hits + d.hits
  /\ garbled' = [garbled EXCEPT ![p] =
       (r.torn \/ (r.pump.tx.writing /\ Replying(r.pump.rx))) \/ (@ /\ step # "found")]
  /\ ctl' = [ctl EXCEPT ![p] = IF ts = "read" THEN Tail(@) ELSE @,
                        ![Other(p)] = @ \o ForSender(c1) \o ForSender(d1)]
  /\ pay' = [pay EXCEPT ![p] = IF rs = "read" THEN Tail(@) ELSE @,
                        ![Other(p)] = @ \o ForReceiver(c1) \o ForReceiver(d1)]

LEMMA MoveParts ==
  ASSUME NEW p, NEW x, NEW rs, NEW ts, NEW r, Move(p, x, rs, ts, r)
  PROVE  \E c, d, step, c1, d1 : MoveOf(p, x, rs, ts, r, c, d, step, c1, d1)
<1>1. PICK c \in (IF rs = "reply" THEN Carried(x.rx.reply) ELSE Silence),
           d \in (IF ts = "end" THEN Carried(FlightFrame(x.tx)) ELSE Silence),
           step \in (IF garbled[p] /\ (rs = "reply" \/ ts = "end")
                       THEN {"lost", "found"} ELSE {"kept"}) :
        /\ faults + c.hits + d.hits <= FaultBudget
        /\ faults' = faults + c.hits + d.hits
        /\ garbled' = [garbled EXCEPT ![p] =
             (r.torn \/ (r.pump.tx.writing /\ Replying(r.pump.rx)))
             \/ (@ /\ step # "found")]
        /\ ctl' = [ctl EXCEPT ![p] = IF ts = "read" THEN Tail(@) ELSE @,
                 ![Other(p)] = @ \o ForSender(IF step = "lost" THEN Bad(c) ELSE c)
                                 \o ForSender(IF step = "lost" THEN Bad(d) ELSE d)]
        /\ pay' = [pay EXCEPT ![p] = IF rs = "read" THEN Tail(@) ELSE @,
                 ![Other(p)] = @ \o ForReceiver(IF step = "lost" THEN Bad(c) ELSE c)
                                 \o ForReceiver(IF step = "lost" THEN Bad(d) ELSE d)]
  BY Zenon DEF Move
<1>2. PICK c1, d1 : /\ c1 = (IF step = "lost" THEN Bad(c) ELSE c)
                    /\ d1 = (IF step = "lost" THEN Bad(d) ELSE d)
  OBVIOUS
<1>3. MoveOf(p, x, rs, ts, r, c, d, step, c1, d1)
  BY <1>1, <1>2, Zenon DEF MoveOf
<1> QED BY <1>3

(* Turn::poll, its parts named: v and w are the turn and the sender after  *)
(* drive_tx, x the pump that is polled and r what comes of it.             *)
PollOf(p, rs, ts, v, w, x, r) ==
  /\ DriveOutcome(turn[p], pump[p].tx, v, w)
  /\ x = [pump[p] EXCEPT !.tx = w]
  /\ CanPoll(x, rs, ts, ctl[p], pay[p], Calm(p))
  /\ r = Polled(x, rs, ts, ctl[p], pay[p])
  /\ pump' = [pump EXCEPT ![p] = r.pump]
  /\ turn' = [turn EXCEPT ![p] = OnEvent(v, r.event)]
  /\ Move(p, x, rs, ts, r) /\ InStep(p, rs, ts, r)
  /\ got' = [got EXCEPT ![p] = IF r.event = "Received"
                                 THEN Append(@, x.rx.reply.pos) ELSE @]
  /\ UNCHANGED <<pushed, aborts>>

LEMMA PollParts ==
  ASSUME TurnType, NEW p \in Peers, NEW rs, NEW ts, Poll(p, rs, ts)
  PROVE  \E v, w, x, r : PollOf(p, rs, ts, v, w, x, r)
<1>0. turn[p] \in TurnRec
  BY DEF TurnType
<1>1. PICK o \in {DriveTx(turn[p], pump[p].tx)} :
      \E x \in {[pump[p] EXCEPT !.tx = o.tx]} :
        /\ CanPoll(x, rs, ts, ctl[p], pay[p], Calm(p))
        /\ \E r \in {Polled(x, rs, ts, ctl[p], pay[p])} :
             /\ pump' = [pump EXCEPT ![p] = r.pump]
             /\ turn' = [turn EXCEPT ![p] = OnEvent(o.turn, r.event)]
             /\ Move(p, x, rs, ts, r) /\ InStep(p, rs, ts, r)
             /\ got' = [got EXCEPT ![p] = IF r.event = "Received"
                                            THEN Append(@, x.rx.reply.pos) ELSE @]
        /\ UNCHANGED <<pushed, aborts>>
  BY Zenon DEF Poll
<1>2. PICK x \in {[pump[p] EXCEPT !.tx = o.tx]} :
        /\ CanPoll(x, rs, ts, ctl[p], pay[p], Calm(p))
        /\ \E r \in {Polled(x, rs, ts, ctl[p], pay[p])} :
             /\ pump' = [pump EXCEPT ![p] = r.pump]
             /\ turn' = [turn EXCEPT ![p] = OnEvent(o.turn, r.event)]
             /\ Move(p, x, rs, ts, r) /\ InStep(p, rs, ts, r)
             /\ got' = [got EXCEPT ![p] = IF r.event = "Received"
                                            THEN Append(@, x.rx.reply.pos) ELSE @]
        /\ UNCHANGED <<pushed, aborts>>
  BY <1>1, Zenon
<1>3. PICK r \in {Polled(x, rs, ts, ctl[p], pay[p])} :
             /\ pump' = [pump EXCEPT ![p] = r.pump]
             /\ turn' = [turn EXCEPT ![p] = OnEvent(o.turn, r.event)]
             /\ Move(p, x, rs, ts, r) /\ InStep(p, rs, ts, r)
             /\ got' = [got EXCEPT ![p] = IF r.event = "Received"
                                            THEN Append(@, x.rx.reply.pos) ELSE @]
  BY <1>2, Zenon
<1>4. DriveOutcome(turn[p], pump[p].tx, o.turn, o.tx)
  BY <1>0, <1>1, DriveOutcomes
<1>5. x = [pump[p] EXCEPT !.tx = o.tx] /\ r = Polled(x, rs, ts, ctl[p], pay[p])
  BY <1>2, <1>3, Zenon
<1>6. PollOf(p, rs, ts, o.turn, o.tx, x, r)
  BY <1>2, <1>3, <1>4, <1>5, Zenon DEF PollOf
<1> QED BY <1>6

-----------------------------------------------------------------------------
(* One exchange, one step at a time. *)

(* drive_tx changed nothing, or left a frame to write on a silent line. *)
Fresh(u, t, v, w, c) == (v = u /\ w = t) \/ (WantsWrite(w) /\ w.state = "Sending" /\ c = <<>>)

LEMMA StartDrives ==
  ASSUME NEW u \in TurnRec, NEW t \in TxType, NEW c, NEW i, NEW r, NEW d, NEW v, NEW w,
         Exchange(u, t, c, i, r, d), StartOffered(u, t, v, w)
  PROVE  /\ Exchange(v, w, c, i, r, d) /\ Fresh(u, t, v, w, c)
         /\ w.flight.kind = "Start" /\ v.index = 0
<1>1. Silent(u, t, c, i, r, d)
  BY DEF Exchange, StartOffered, Between, Stuck, Flying
<1>2. /\ w.flight.kind = "Start" /\ w.flight.seq = 0 /\ ~w.flight.waiting
      /\ w.state = "Sending" /\ ~w.writing
  <2>1. w = OfferStart(t, 0) /\ t.writing = FALSE
    BY <1>1 DEF StartOffered, Silent, TxType
  <2> QED BY <2>1, OfferStartFields, ZenonT(60)
<1>3. v.speak /\ v.buf = u.buf /\ ~v.need_start /\ v.index = 0 /\ ~v.finish_offered
  BY DriveFields
<1>4. AtHome(v, w, c, i, r, d)
  BY <1>1, <1>2 DEF Silent, AtHome, Ready
<1>5. Flying(v, w, c, i, r, d)
  BY <1>2, <1>3, <1>4 DEF Flying, Offered, Stage, StartOffered
<1> QED BY <1>1, <1>2, <1>3, <1>5 DEF Exchange, Fresh, WantsWrite, InFlight, Silent, Nothing

LEMMA DataDrives ==
  ASSUME NEW u \in TurnRec, NEW t \in TxType, NEW c, NEW i, NEW r, NEW d, NEW v, NEW w,
         Exchange(u, t, c, i, r, d), DataOffered(u, t, v, w)
  PROVE  Between(u, t, c, i, r, d) /\ Exchange(v, w, c, i, r, d) /\ Fresh(u, t, v, w, c)
<1>1. Between(u, t, c, i, r, d)
  BY DEF Exchange, DataOffered, CanOfferData, InFlight, Silent, Stuck, Flying
<1>2. /\ w.flight.kind = "Data" /\ w.flight.seq = t.seq /\ ~w.flight.waiting
      /\ w.seq = t.seq /\ w.flight.pos = u.buf[u.index + 1]
      /\ w.state = "Sending" /\ ~w.writing
  <2>1. w = Offer(t, 0, u.buf[u.index + 1]) /\ t.writing = FALSE
    BY <1>1 DEF DataOffered, Between, TxType
  <2>2. LET x == Offer(t, 0, u.buf[u.index + 1])
        IN  /\ x.state = "Sending" /\ x.writing = t.writing /\ x.seq = t.seq
            /\ x.flight.kind = "Data" /\ x.flight.seq = t.seq
            /\ x.flight.pos = u.buf[u.index + 1]
            /\ x.flight.waiting = FALSE
    BY DEF Offer, Begin, TxType
  <2> QED BY <2>1, <2>2, Zenon
<1>3. /\ v.speak /\ v.buf = u.buf /\ ~v.need_start /\ v.index = u.index + 1
      /\ ~v.finish_offered /\ u.index \in Nat /\ v.index - 1 = u.index
      /\ v.index \in 1 .. Len(v.buf)
  <2>1. v.speak /\ v.buf = u.buf /\ ~v.need_start /\ v.index = u.index + 1
    BY DriveFields
  <2>2. ~v.finish_offered
    BY <1>1, DriveFields DEF Between
  <2>3. u.index \in Nat /\ u.index < Len(u.buf) /\ Len(u.buf) \in Nat
    BY DEF TurnRec, DataOffered
  <2> QED BY <2>1, <2>2, <2>3
<1>4. AtHome(v, w, c, i, r, d)
  BY <1>1, <1>2, <1>3 DEF Between, AtHome, Ready
<1>5. Offered(v, w)
  BY <1>1, <1>2, <1>3 DEF Offered, Between
<1>6. Flying(v, w, c, i, r, d)
  BY <1>2, <1>3, <1>4, <1>5 DEF Flying, Stage, DataOffered
<1> QED BY <1>1, <1>2, <1>6 DEF Exchange, Fresh, WantsWrite, InFlight, Between, Nothing

LEMMA FinishDrives ==
  ASSUME NEW u \in TurnRec, NEW t \in TxType, NEW c, NEW i, NEW r, NEW d, NEW v, NEW w,
         Exchange(u, t, c, i, r, d), FinishOffered(u, t, v, w)
  PROVE  Between(u, t, c, i, r, d) /\ Exchange(v, w, c, i, r, d) /\ Fresh(u, t, v, w, c)
<1>1. Between(u, t, c, i, r, d)
  BY DEF Exchange, FinishOffered, CanOfferData, InFlight, Silent, Stuck, Flying
<1>2. /\ w.flight.kind = "Finish" /\ w.flight.seq = t.seq /\ ~w.flight.waiting
      /\ w.seq = t.seq /\ w.state = "Sending" /\ ~w.writing
  <2>1. w = OfferFinish(t, 0, 0) /\ t.writing = FALSE
    BY <1>1 DEF FinishOffered, Between, TxType
  <2>2. LET x == OfferFinish(t, 0, 0)
        IN  /\ x.state = "Sending" /\ x.writing = t.writing /\ x.seq = t.seq
            /\ x.flight.kind = "Finish" /\ x.flight.seq = t.seq
            /\ x.flight.pos = 0
            /\ x.flight.waiting = FALSE
    BY DEF OfferFinish, Begin, TxType
  <2> QED BY <2>1, <2>2, Zenon
<1>3. /\ v.speak /\ v.buf = u.buf /\ ~v.need_start /\ v.index = u.index
      /\ v.finish_offered /\ u.index = Len(u.buf)
  <2>1. v.speak /\ v.buf = u.buf /\ ~v.need_start /\ v.index = u.index /\ v.finish_offered
    BY DriveFields
  <2>2. u.index \in 0 .. Len(u.buf) /\ ~(u.index < Len(u.buf)) /\ Len(u.buf) \in Nat
    BY <1>1 DEF TurnRec, FinishOffered, Between
  <2> QED BY <2>1, <2>2
<1>4. AtHome(v, w, c, i, r, d)
  BY <1>1, <1>2, <1>3 DEF Between, AtHome, Ready
<1>5. Offered(v, w)
  BY <1>1, <1>2, <1>3 DEF Offered, Between
<1>6. Flying(v, w, c, i, r, d)
  BY <1>2, <1>3, <1>4, <1>5 DEF Flying, Stage, FinishOffered
<1> QED BY <1>1, <1>2, <1>6 DEF Exchange, Fresh, WantsWrite, InFlight, Between, Nothing

(* drive_tx keeps the exchange. *)
LEMMA DriveKeeps ==
  ASSUME NEW u \in TurnRec, NEW t \in TxType, NEW c, NEW i, NEW r, NEW d, NEW v, NEW w,
         Exchange(u, t, c, i, r, d), DriveOutcome(u, t, v, w)
  PROVE  /\ Exchange(v, w, c, i, r, d) /\ Fresh(u, t, v, w, c)
         /\ v.speak = u.speak /\ v.buf = u.buf
<1>1. CASE v = u /\ w = t
  BY <1>1 DEF Fresh
<1>2. CASE StartOffered(u, t, v, w)
  <2>1. Exchange(v, w, c, i, r, d) /\ Fresh(u, t, v, w, c)
    BY <1>2, StartDrives, Zenon
  <2>2. v.speak /\ v.buf = u.buf /\ u.speak
    BY <1>2, DriveFields DEF StartOffered
  <2>3. u.speak \in BOOLEAN /\ v.speak \in BOOLEAN
    BY <1>2, DriveFields DEF TurnRec
  <2> QED BY <2>1, <2>2, <2>3
<1>3. CASE DataOffered(u, t, v, w)
  <2>1. Exchange(v, w, c, i, r, d) /\ Fresh(u, t, v, w, c)
    BY <1>3, DataDrives, Zenon
  <2>2. v.speak /\ v.buf = u.buf /\ u.speak
    BY <1>3, DriveFields DEF DataOffered
  <2>3. u.speak \in BOOLEAN /\ v.speak \in BOOLEAN
    BY <1>3, DriveFields DEF TurnRec
  <2> QED BY <2>1, <2>2, <2>3
<1>4. CASE FinishOffered(u, t, v, w)
  <2>1. Exchange(v, w, c, i, r, d) /\ Fresh(u, t, v, w, c)
    BY <1>4, FinishDrives, Zenon
  <2>2. v.speak /\ v.buf = u.buf /\ u.speak
    BY <1>4, DriveFields DEF FinishOffered
  <2>3. u.speak \in BOOLEAN /\ v.speak \in BOOLEAN
    BY <1>4, DriveFields DEF TurnRec
  <2> QED BY <2>1, <2>2, <2>3
<1> QED BY <1>1, <1>2, <1>3, <1>4 DEF DriveOutcome

(* What the same flight shares, wherever its sender is with it. *)
LEMMA SameOffer ==
  ASSUME NEW u, NEW t, NEW w, NEW r, NEW d, SameFlight(w, t)
  PROVE  /\ Offered(u, t) => Offered(u, w)
         /\ Ready(u, t, r, d) => Ready(u, w, r, d)
         /\ FlightFrame(w) = FlightFrame(t)
BY DEF SameFlight, Offered, Ready, FlightFrame

LEMMA StillFlying ==
  ASSUME NEW u, NEW t, NEW c, NEW i, NEW r, NEW d, Flying(u, t, c, i, r, d),
         NEW w, SameFlight(w, t), w.writing => ~w.flight.waiting,
         w.state \in {"Sending", "WaitingAck", "Retrying"},
         NEW e, NEW j, NEW s, NEW g, Stage(u, w, e, j, s, g)
  PROVE  Flying(u, w, e, j, s, g)
<1>1. Offered(u, w)
  BY SameOffer DEF Flying
<1> QED BY <1>1 DEF Flying, SameFlight

(* Where a flight is, by what is under way. *)
LEMMA WhichStage ==
  ASSUME NEW u, NEW t, NEW c, NEW i, NEW r, NEW d, Flying(u, t, c, i, r, d)
  PROVE  /\ ~Waits(t) => AtHome(u, t, c, i, r, d)
         /\ Nothing(c, i, r) => AtHome(u, t, c, i, r, d)
         /\ c # <<>> => Rejected(u, t, c, i, r, d) \/ Answered(u, t, c, i, r, d)
         /\ i # <<>> => OnTheWay(u, t, c, i, r, d)
         /\ Replying(r) => Rejecting(u, t, c, i, r, d) \/ Accepting(u, t, c, i, r, d)
<1>1. Stage(u, t, c, i, r, d)
  BY DEF Flying
<1>2. OnTheWay(u, t, c, i, r, d) => i # <<>>
  BY DEF OnTheWay
<1>3. Rejecting(u, t, c, i, r, d) \/ Accepting(u, t, c, i, r, d) => Replying(r)
  BY DEF Rejecting, Accepting, Accepts, Replying
<1>4. Rejected(u, t, c, i, r, d) \/ Answered(u, t, c, i, r, d) => c # <<>>
  BY DEF Rejected, Answered
<1> QED BY <1>1, <1>2, <1>3, <1>4
        DEF Stage, AtHome, Nothing, OnTheWay, Rejecting, Rejected, Accepting, Answered

(* Bytes that have arrived, of those in the queue. *)
LEMMA ReadyBounds ==
  ASSUME NEW u \in TurnRec, NEW t, NEW r, NEW d, Offered(u, t), Ready(u, t, r, d)
  PROVE  d \in 0 .. Len(u.buf)
BY DEF TurnRec, Offered, Ready

(* The sender gives up. *)
LEMMA GivesUp ==
  ASSUME NEW u \in TurnRec, NEW t, NEW c, NEW i, NEW r, NEW d, Flying(u, t, c, i, r, d),
         NEW w, w.flight.kind = "None", ~w.writing, w.state = "Failed",
         NEW e, NEW j, Nothing(e, j, r), Ready(u, t, r, d)
  PROVE  Exchange(u, w, e, j, r, d)
<1>1. d \in 0 .. Len(u.buf)
  BY ReadyBounds DEF Flying
<1> QED BY <1>1 DEF Exchange, Stuck, Flying

(* The sender's step kept the exchange: e is what it leaves of c.          *)
TxKept(u, t, w, c, e, j, r, d) ==
  /\ Exchange(u, w, e, j, r, d)
  /\ e # <<>> => e = c /\ w.flight.kind = t.flight.kind
  /\ c = <<>> => w.flight.kind = t.flight.kind \/ w.state = "Failed"
  /\ w.state = "Finished" => t.state = "Finished"
  /\ t.state = "Finished" => w.state # "Failed"
  /\ WantsWrite(t) => w.state = "Sending"

(* Or the flight was FINISH and its ACK was read. *)
Closing(u, t, w, c, i, e, j, r, d) ==
  /\ u.speak /\ u.finish_offered /\ t.flight.kind = "Finish" /\ t.state # "Finished"
  /\ c # <<>> /\ Head(c).type = "Ack" /\ e = <<>> /\ j = i /\ Nothing(e, j, r)
  /\ w.flight.kind = "None" /\ ~w.writing /\ w.state = "Finished"
  /\ d = Len(u.buf)

LEMMA RestKeeps ==
  ASSUME NEW u, NEW t, NEW c, NEW i, NEW r, NEW d, Exchange(u, t, c, i, r, d),
         ~WantsWrite(t)
  PROVE  TxKept(u, t, t, c, c, i, r, d)
BY DEF TxKept

LEMMA BeginKeeps ==
  ASSUME NEW u \in TurnRec, NEW t \in TxType, NEW c, NEW i, NEW r, NEW d,
         Exchange(u, t, c, i, r, d), WantsWrite(t)
  PROVE  TxKept(u, t, BeginWrite(t), c, c, i, r, d)
<1>1. PICK w : w = BeginWrite(t)
  OBVIOUS
<1>2. SameFlight(w, t) /\ w.state = "Sending" /\ w.writing /\ ~w.flight.waiting
  BY <1>1, WriteFields DEF WantsWrite
<1>3. Flying(u, t, c, i, r, d) /\ t.state # "Finished" /\ ~Waits(t)
  BY DEF Exchange, Silent, Between, Stuck, Flying, WantsWrite, InFlight, Waits
<1>4. AtHome(u, t, c, i, r, d)
  BY <1>3, WhichStage
<1>5. AtHome(u, w, c, i, r, d)
  BY <1>2, <1>4, SameOffer DEF AtHome
<1>6. Flying(u, w, c, i, r, d)
  BY <1>2, <1>3, <1>5, StillFlying DEF Stage
<1> QED BY <1>1, <1>2, <1>3, <1>6 DEF TxKept, Exchange, SameFlight

(* What the other peer may find of the flight once it is written. *)
Arrival(t, a) == a = <<FlightFrame(t)>> \/ a = <<BadFrame>> \/ a = <<>>

LEMMA EndKeeps ==
  ASSUME NEW u \in TurnRec, NEW t \in TxType, NEW c, NEW i, NEW r, NEW d,
         Exchange(u, t, c, i, r, d), t.writing,
         NEW a, Arrival(t, a),
         NEW j, j = i \o a
  PROVE  i = <<>> /\ TxKept(u, t, EndWrite(t), c, c, j, r, d)
<1>1. PICK w : w = EndWrite(t)
  OBVIOUS
<1>2. SameFlight(w, t) /\ w.state = "WaitingAck" /\ ~w.writing
  BY <1>1, WriteFields
<1>3. w.flight.waiting = TRUE
  BY <1>1 DEF EndWrite, TxType, Flight
<1>4. Flying(u, t, c, i, r, d) /\ t.state # "Finished" /\ ~Waits(t) /\ ~WantsWrite(t)
  BY DEF Exchange, Silent, Between, Stuck, Flying, WantsWrite, Waits
<1>5. AtHome(u, t, c, i, r, d)
  BY <1>4, WhichStage
<1>6. /\ c = <<>> /\ i = <<>> /\ ~Replying(r) /\ Ready(u, w, r, d)
      /\ FlightFrame(w) = FlightFrame(t)
  BY <1>2, <1>5, SameOffer DEF AtHome, Nothing
<1>7. j = a
  BY <1>6 DEF Arrival
<1>8. Waits(w)
  BY <1>2, <1>3, <1>4 DEF Waits, InFlight, SameFlight, Flying
<1>9. Stage(u, w, c, j, r, d)
  BY <1>6, <1>7, <1>8 DEF Stage, AtHome, OnTheWay, Nothing, Arrival
<1>10. Flying(u, w, c, j, r, d)
  BY <1>2, <1>4, <1>9, StillFlying
<1> QED BY <1>1, <1>2, <1>4, <1>6, <1>10 DEF TxKept, Exchange, SameFlight

(* A failed attempt: the flight starts over, or the sender gives up.       *)
LEMMA AttemptKeeps ==
  ASSUME NEW u \in TurnRec, NEW t \in TxType, NEW c, NEW i, NEW r, NEW d,
         Flying(u, t, c, i, r, d), Waits(t), NEW w, w.writing = t.writing,
         \/ w.flight.kind = "None" /\ w.state = "Failed"
         \/ SameFlight(w, t) /\ w.state \in {"Retrying", t.state},
         Nothing(<<>>, i, r), Ready(u, t, r, d)
  PROVE  TxKept(u, t, w, c, <<>>, i, r, d)
<1>1. t.state \in {"WaitingAck", "Sending", "Retrying"} /\ ~WantsWrite(t) /\ ~w.writing
  BY DEF Flying, WantsWrite, Waits
<1>2. CASE w.flight.kind = "None" /\ w.state = "Failed"
  <2>1. Exchange(u, w, <<>>, i, r, d)
    BY <1>1, <1>2, GivesUp
  <2> QED BY <1>1, <1>2, <2>1 DEF TxKept
<1>3. CASE SameFlight(w, t) /\ w.state \in {"Retrying", t.state}
  <2>1. AtHome(u, w, <<>>, i, r, d)
    BY <1>3, SameOffer DEF AtHome
  <2>2. Flying(u, w, <<>>, i, r, d)
    BY <1>1, <1>3, <2>1, StillFlying DEF Stage
  <2> QED BY <1>1, <1>3, <2>2 DEF TxKept, Exchange, SameFlight
<1> QED BY <1>2, <1>3

LEMMA TickKeeps ==
  ASSUME NEW u \in TurnRec, NEW t \in TxType, NEW i, NEW r, NEW d,
         Exchange(u, t, <<>>, i, r, d), Waits(t), i = <<>> /\ ~Replying(r)
  PROVE  TxKept(u, t, OnEmptyRead(t), <<>>, <<>>, i, r, d)
<1>1. PICK w : w = OnEmptyRead(t)
  OBVIOUS
<1>2. Flying(u, t, <<>>, i, r, d)
  BY DEF Exchange, Silent, Between, Stuck, Waits, InFlight
<1>3. AtHome(u, t, <<>>, i, r, d)
  BY <1>2, WhichStage DEF Nothing
<1>4. /\ w.writing = t.writing
      /\ \/ w.flight.kind = "None" /\ w.state = "Failed"
         \/ SameFlight(w, t) /\ w.state \in {"Retrying", t.state}
  BY <1>1, AttemptFields
<1> QED BY <1>1, <1>2, <1>3, <1>4, AttemptKeeps DEF AtHome

LEMMA NoneLong ==
  ASSUME NEW S, NEW c \in Seq(S), Len(c) = 0
  PROVE  c = <<>>
OBVIOUS

LEMMA OneLong ==
  ASSUME NEW S, NEW c \in Seq(S), Len(c) = 1
  PROVE  c # <<>> /\ Head(c) \in S /\ Head(c) = c[1] /\ Tail(c) = <<>>
<1>1. c # <<>>
  OBVIOUS
<1>2. Head(c) \in S /\ Head(c) = c[1]
  BY <1>1
<1>3. Tail(c) \in Seq(S) /\ Len(Tail(c)) = 0
  BY <1>1
<1>4. Tail(c) = <<>>
  BY <1>3, NoneLong
<1> QED BY <1>1, <1>2, <1>4

(* A NACK is read. *)
LEMMA NackKeeps ==
  ASSUME NEW u \in TurnRec, NEW t \in TxType, NEW c \in Seq(Frame), NEW i, NEW r, NEW d,
         Flying(u, t, c, i, r, d), Rejected(u, t, c, i, r, d)
  PROVE  TxKept(u, t, OnControl(t, Head(c)), c, Tail(c), i, r, d)
<1>1. PICK w : w = OnControl(t, Head(c))
  OBVIOUS
<1>2. c # <<>> /\ Head(c) \in Frame /\ Head(c).type = "Nack" /\ Tail(c) = <<>>
  <2>1. Len(c) = 1 /\ c[1].type = "Nack"
    BY DEF Rejected
  <2> QED BY <2>1, OneLong
<1>3. /\ w.writing = t.writing
      /\ \/ w.flight.kind = "None" /\ w.state = "Failed"
         \/ SameFlight(w, t) /\ w.state \in {"Retrying", t.state}
  BY <1>1, <1>2, ControlFields DEF Rejected
<1>4. Waits(t) /\ Nothing(<<>>, i, r) /\ Ready(u, t, r, d)
  BY DEF Rejected, Nothing
<1>5. TxKept(u, t, w, c, <<>>, i, r, d)
  BY <1>3, <1>4, AttemptKeeps
<1> QED BY <1>1, <1>2, <1>5

(* The ACK is read. *)
LEMMA AckKeeps ==
  ASSUME NEW u \in TurnRec, NEW t \in TxType, NEW c \in Seq(Frame), NEW i, NEW r, NEW d,
         Flying(u, t, c, i, r, d), Answered(u, t, c, i, r, d), NEW w,
         w = OnControl(t, Head(c))
  PROVE  \/ TxKept(u, t, w, c, Tail(c), i, r, d)
         \/ Closing(u, t, w, c, i, Tail(c), i, r, d)
<1>1. /\ c # <<>> /\ Head(c) \in Frame /\ Head(c).type = "Ack"
      /\ Head(c).seq = t.flight.seq /\ Tail(c) = <<>>
  BY TailFacts DEF Answered, MkFrame
<1>2. w = OnAck(t)
  BY <1>1 DEF OnControl, Answers
<1>3. /\ w.flight.kind = "None" /\ w.writing = t.writing
      /\ t.flight.kind = "Data" => w.state = "Idle" /\ w.seq = Advance(t.seq)
      /\ t.flight.kind = "Start" => w.state = "Idle" /\ w.seq = 0
      /\ t.flight.kind = "Finish" => w.state = "Finished"
  BY <1>2, AckFields
<1>4. /\ Waits(t) /\ Nothing(<<>>, i, r) /\ ~WantsWrite(t) /\ ~w.writing
      /\ t.state # "Finished" /\ Taken(u, t, r, d) /\ Offered(u, t)
      /\ u.speak /\ ~u.need_start /\ u.buf # <<>>
  BY <1>3 DEF Answered, Nothing, WantsWrite, Waits, Flying
<1>5. u.index \in Nat /\ Len(u.buf) \in Nat /\ 0 % SeqMod = 0
  BY ModSmall, SeqTypes DEF TurnRec
<1>6. CASE t.flight.kind = "Start"
  <2>1. Between(u, w, <<>>, i, r, d)
    BY <1>3, <1>4, <1>5, <1>6 DEF Between, Taken, Offered
  <2> QED BY <1>1, <1>3, <1>4, <1>6, <2>1 DEF TxKept, Exchange
<1>7. CASE t.flight.kind = "Data"
  <2>1. /\ u.index \in 1 .. Len(u.buf) /\ ~u.finish_offered
        /\ t.seq = (u.index - 1) % SeqMod /\ t.flight.seq = t.seq
        /\ Open(r) /\ r.expected = Advance(t.flight.seq) /\ d = u.index
    BY <1>4, <1>7 DEF Offered, Taken
  <2>2. w.seq = u.index % SeqMod
    <3>1. u.index - 1 \in Nat /\ (u.index - 1) + 1 = u.index
      BY <1>5, <2>1
    <3> QED BY <1>3, <1>7, <2>1, <3>1, AdvanceMod
  <2>3. Between(u, w, <<>>, i, r, d)
    BY <1>3, <1>4, <1>5, <1>7, <2>1, <2>2 DEF Between
  <2> QED BY <1>1, <1>3, <1>4, <1>7, <2>3 DEF TxKept, Exchange
<1>8. CASE t.flight.kind = "Finish"
  <2>1. u.finish_offered /\ d = Len(u.buf)
    BY <1>4, <1>8 DEF Offered, Taken
  <2> QED BY <1>1, <1>3, <1>4, <1>8, <2>1 DEF Closing
<1> QED BY <1>4, <1>6, <1>7, <1>8 DEF Offered

(* Every step of the sender. *)
LEMMA TxKeeps ==
  ASSUME NEW u \in TurnRec, NEW t, SenderTyped(t), NEW c \in Seq(Frame),
         NEW i \in Seq(Frame), NEW r, NEW d, Exchange(u, t, c, i, r, d),
         NEW ts \in TxSteps, NEW calm, TxCan(t, ts, c, calm),
         calm => i = <<>> /\ ~Replying(r), NEW w, w = AfterTx(t, ts, c),
         NEW e, e = IF ts = "read" THEN Tail(c) ELSE c,
         NEW a, Arrival(t, a), ts # "end" => a = <<>>,
         NEW j, j = i \o a
  PROVE  \/ TxKept(u, t, w, c, e, j, r, d)
         \/ ts = "read" /\ Closing(u, t, w, c, i, e, j, r, d)
<1>0. t \in TxType /\ (ts # "end" => j = i)
  BY DEF SenderTyped
<1>1. CASE ts = "none"
  BY <1>0, <1>1, RestKeeps DEF AfterTx, TxCan
<1>2. CASE ts = "begin"
  BY <1>0, <1>2, BeginKeeps DEF AfterTx, TxCan
<1>3. CASE ts = "end"
  <2>1. t.writing /\ w = EndWrite(t) /\ e = c
    BY <1>3 DEF AfterTx, TxCan
  <2>2. TxKept(u, t, EndWrite(t), c, c, j, r, d)
    BY <1>0, <2>1, EndKeeps
  <2> QED BY <2>1, <2>2
<1>4. CASE ts = "read"
  <2>1. Waits(t) /\ c # <<>> /\ w = OnControl(t, Head(c)) /\ e = Tail(c) /\ j = i
    BY <1>0, <1>4 DEF AfterTx, TxCan
  <2>2. Flying(u, t, c, i, r, d)
    BY <2>1 DEF Exchange, Silent, Between, Stuck, Waits, InFlight
  <2>3. CASE Rejected(u, t, c, i, r, d)
    BY <1>0, <2>1, <2>2, <2>3, NackKeeps
  <2>4. CASE Answered(u, t, c, i, r, d)
    BY <1>0, <1>4, <2>1, <2>2, <2>4, AckKeeps
  <2> QED BY <2>1, <2>2, <2>3, <2>4, WhichStage
<1>5. CASE ts = "tick"
  <2>1. Waits(t) /\ c = <<>> /\ calm /\ w = OnEmptyRead(t) /\ e = c /\ j = i
    BY <1>0, <1>5 DEF AfterTx, TxCan
  <2> QED BY <1>0, <2>1, TickKeeps
<1> QED BY <1>1, <1>2, <1>3, <1>4, <1>5 DEF TxSteps

-----------------------------------------------------------------------------
(* The receiver that hears an exchange. *)

RxCalm(r) == r \in RxType /\ ~r.abort_latched /\ r.filled = 0

(* What does not decode is rejected, or ignored once the session is over.  *)
LEMMA BadIsRead ==
  ASSUME NEW r, RxCalm(r), ~Replying(r), NEW s, s = TakeFrame(r, BadFrame)
  PROVE  /\ RxCalm(s) /\ s.expected = r.expected /\ s.finish_seq = r.finish_seq
         /\ \/ s.action = "None"
            \/ s.action = "CrcRejected" /\ s.reply.type = "Nack"
<1>0. r \in RxType /\ r.filled = 0 /\ r.action = "None" /\ r.abort_latched = FALSE
  BY DEF RxCalm, Replying, RxType
<1>1. s = HandleError(r)
  BY <1>0 DEF TakeFrame, HandleFrame, BadFrame, MkFrame
<1>2. s \in RxType
  BY <1>0, FrameType, RxOpsType
<1>3. CASE IsClosed(r)
  BY <1>0, <1>1, <1>2, <1>3 DEF HandleError, RxCalm
<1>4. CASE ~IsClosed(r)
  <2>1. s = BeginReply(r, "Nack", r.expected, BadFrame, "CrcRejected")
    BY <1>1, <1>4 DEF HandleError
  <2>2. /\ s.expected = r.expected /\ s.finish_seq = r.finish_seq
        /\ s.filled = r.filled /\ s.action = "CrcRejected" /\ s.reply.type = "Nack"
    BY <1>0, <2>1 DEF BeginReply, RxType, MkFrame
  <2>3. s.abort_latched = r.abort_latched
    BY <1>0, <2>1, Zenon DEF BeginReply, RxType
  <2> QED BY <1>0, <1>2, <2>2, <2>3 DEF RxCalm
<1> QED BY <1>3, <1>4

(* BeginReply, field by field. *)
Replies(s, x, ty, q, f, a) ==
  /\ s.reply = MkFrame(ty, q, f.sess, f.pos) /\ s.action = a
  /\ s.expected = x.expected /\ s.finish_seq = x.finish_seq
  /\ s.filled = x.filled /\ s.abort_latched = x.abort_latched

LEMMA ReplyBegins ==
  ASSUME NEW x \in RxType, NEW ty, NEW q, NEW f, NEW a
  PROVE  Replies(BeginReply(x, ty, q, f, a), x, ty, q, f, a)
BY DEF Replies, BeginReply, RxType

(* A flight that the receiver is ready for is accepted. *)
LEMMA FlightIsRead ==
  ASSUME NEW u, NEW t \in TxType, NEW r, NEW d, RxCalm(r), ~Replying(r),
         Ready(u, t, r, d), NEW s, s = TakeFrame(r, FlightFrame(t)),
         t.flight.kind = "Start" => t.flight.seq = 0
  PROVE  RxCalm(s) /\ Accepts(u, t, s, d)
<1>0. r \in RxType /\ r.filled = 0 /\ r.action = "None" /\ r.abort_latched = FALSE
  BY DEF RxCalm, Replying, RxType
<1>1. PICK f : f = FlightFrame(t)
  OBVIOUS
<1>2. /\ f.type = t.flight.kind /\ f.seq = t.flight.seq
      /\ f.sess = t.flight.sess /\ f.pos = t.flight.pos
  BY <1>1 DEF FlightFrame, MkFrame
<1>3. f \in Frame
  <2>1. /\ t.flight.kind \in FrameTypes /\ t.flight.seq \in Seqs
        /\ t.flight.sess \in Nat /\ t.flight.pos \in Nat
    BY DEF Ready, TxType, Flight, FrameTypes
  <2> QED BY <1>1, <2>1, FrameType DEF FlightFrame
<1>4. s \in RxType
  BY <1>0, <1>1, <1>3, RxOpsType
<1>5. s = HandleFrame(r, f)
  BY <1>0, <1>1, <1>2 DEF TakeFrame, Ready
<1>6. CASE t.flight.kind = "Start"
  <2>1. PICK x : x = [r EXCEPT !.expected = 0, !.finish_seq = NoSeq,
                               !.abort_latched = FALSE]
    OBVIOUS
  <2>2. s = BeginReply(x, "Ack", 0, f, "Started")
    BY <1>2, <1>5, <1>6, <2>1 DEF HandleFrame, HandleStart
  <2>3. /\ x \in RxType /\ x.expected = 0 /\ x.finish_seq = NoSeq
        /\ x.filled = r.filled /\ x.abort_latched = FALSE
    BY <1>0, <2>1, SeqTypes DEF RxType
  <2>4. /\ s.reply = MkFrame("Ack", 0, f.sess, f.pos) /\ s.action = "Started"
        /\ s.expected = 0 /\ s.finish_seq = NoSeq
        /\ s.filled = r.filled /\ s.abort_latched = FALSE
    <3>1. Replies(s, x, "Ack", 0, f, "Started")
      BY <2>2, <2>3, ReplyBegins
    <3> QED BY <2>3, <3>1, Zenon DEF Replies
  <2> QED BY <1>0, <1>2, <1>4, <1>6, <2>4 DEF RxCalm, Accepts, Ready
<1>7. CASE t.flight.kind = "Data"
  <2>1. ~IsClosed(r) /\ f.seq = r.expected
    BY <1>0, <1>2, <1>7 DEF IsClosed, IsFinished, Ready, Open
  <2>2. s = BeginReply(r, "Ack", f.seq, f, "Deliver")
    BY <1>2, <1>5, <1>7, <2>1 DEF HandleFrame, HandleData
  <2>4. /\ s.reply = MkFrame("Ack", f.seq, f.sess, f.pos) /\ s.action = "Deliver"
        /\ s.expected = r.expected /\ s.finish_seq = r.finish_seq
        /\ s.filled = r.filled /\ s.abort_latched = FALSE
    <3>1. Replies(s, r, "Ack", f.seq, f, "Deliver")
      BY <1>0, <2>2, ReplyBegins
    <3> QED BY <1>0, <3>1, Zenon DEF Replies
  <2> QED BY <1>0, <1>2, <1>4, <1>7, <2>4 DEF RxCalm, Accepts, Ready, Open
<1>8. CASE t.flight.kind = "Finish"
  <2>1. ~IsFinished(r) /\ f.seq = r.expected
    BY <1>0, <1>2, <1>8 DEF IsFinished, Ready, Open
  <2>2. PICK x : x = [r EXCEPT !.finish_seq = f.seq]
    OBVIOUS
  <2>3. s = BeginReply(x, "Ack", f.seq, f, "Finished")
    BY <1>0, <1>2, <1>5, <1>8, <2>1, <2>2 DEF HandleFrame, HandleFinish
  <2>5. x \in RxType /\ x.filled = r.filled /\ x.abort_latched = FALSE
    <3>1. f.seq \in Seqs
      BY <1>0, <2>1 DEF RxType
    <3> QED BY <1>0, <2>2, <3>1 DEF RxType
  <2>4. /\ s.reply = MkFrame("Ack", f.seq, f.sess, f.pos) /\ s.action = "Finished"
        /\ s.filled = r.filled /\ s.abort_latched = FALSE
    <3>1. Replies(s, x, "Ack", f.seq, f, "Finished")
      BY <2>3, <2>5, ReplyBegins
    <3> QED BY <2>5, <3>1, Zenon DEF Replies
  <2> QED BY <1>0, <1>2, <1>4, <1>8, <2>4 DEF RxCalm, Accepts, Ready
<1> QED BY <1>6, <1>7, <1>8 DEF Ready

(* The reply has left. *)
LEMMA ReplyLeaves ==
  ASSUME NEW r, RxCalm(r), NEW s, s = TakePending(r)
  PROVE  /\ RxCalm(s) /\ s.action = "None"
         /\ s.expected = IF r.action = "Deliver" THEN Advance(r.expected) ELSE r.expected
         /\ s.finish_seq = IF r.action = "Started" THEN NoSeq ELSE r.finish_seq
<1>1. r \in RxType /\ r.abort_latched = FALSE /\ r.filled = 0
  BY DEF RxCalm, RxType
<1>2. s \in RxType /\ s.filled = 0
  <2>1. s \in RxType
    BY <1>1, RxOpsType
  <2>2. s.filled = r.filled
    BY <1>1 DEF TakePending, RxType
  <2> QED BY <1>1, <2>1, <2>2
<1>3. s.abort_latched = FALSE
  BY <1>1, Zenon DEF TakePending, RxType
<1>4. /\ s.action = "None"
      /\ s.expected = IF r.action = "Deliver" THEN Advance(r.expected) ELSE r.expected
      /\ s.finish_seq = IF r.action = "Started" THEN NoSeq ELSE r.finish_seq
  BY <1>1, PendingFields
<1> QED BY <1>2, <1>3, <1>4 DEF RxCalm

(* The replies of an exchange. *)
LEMMA ReplyIsControl ==
  ASSUME NEW u, NEW t, NEW c, NEW i, NEW r, NEW d, Exchange(u, t, c, i, r, d), Replying(r)
  PROVE  /\ Flying(u, t, c, i, r, d) /\ r.reply.type \in {"Ack", "Nack"}
         /\ Rejecting(u, t, c, i, r, d) \/ Accepting(u, t, c, i, r, d)
<1>1. Flying(u, t, c, i, r, d)
  BY DEF Exchange, Silent, Between, Stuck, Nothing
<1>2. Rejecting(u, t, c, i, r, d) \/ Accepting(u, t, c, i, r, d)
  BY <1>1, WhichStage
<1> QED BY <1>1, <1>2 DEF Rejecting, Accepting, Accepts, MkFrame

(* The receiver's step kept the exchange: ro is its outcome, e the control *)
(* frames and g the number of bytes that have arrived after it.            *)
RxKept(u, t, c, r, d, ro, e, j, s, g) ==
  /\ Exchange(u, t, e, j, s, g) /\ RxCalm(s)
  /\ ro \in {"Pending", "Deliver", "Started", "Finished", "CrcRejected"}
  /\ ro = "Deliver" => /\ t.flight.kind = "Data" /\ u.index \in 1 .. Len(u.buf)
                       /\ r.reply.pos = u.buf[u.index] /\ d = u.index - 1
  /\ ro = "Finished" => t.flight.kind = "Finish" /\ e # <<>> /\ Head(e).type = "Ack"
  /\ t.flight.kind = "Finish" /\ e # <<>> /\ Head(e).type = "Ack" =>
       e = c \/ ro = "Finished"

LEMMA ReadKeeps ==
  ASSUME NEW u \in TurnRec, NEW t \in TxType, NEW c, NEW i \in Seq(Frame), NEW r, NEW d,
         Exchange(u, t, c, i, r, d), RxCalm(r), ~Replying(r), i # <<>>,
         NEW s, s = TakeFrame(r, Head(i))
  PROVE  RxKept(u, t, c, r, d, "Pending", c, Tail(i), s, d)
<1>1. Flying(u, t, c, i, r, d)
  BY DEF Exchange, Silent, Between, Stuck, Nothing
<1>2. OnTheWay(u, t, c, i, r, d)
  BY <1>1, WhichStage
<1>3. /\ Waits(t) /\ c = <<>> /\ Ready(u, t, r, d) /\ Tail(i) = <<>>
      /\ Head(i) = FlightFrame(t) \/ Head(i) = BadFrame
  <2>1. /\ Waits(t) /\ c = <<>> /\ Ready(u, t, r, d)
        /\ i = <<FlightFrame(t)>> \/ i = <<BadFrame>>
    BY <1>2 DEF OnTheWay
  <2>2. Len(i) = 1 /\ (i[1] = FlightFrame(t) \/ i[1] = BadFrame)
    BY <2>1
  <2> QED BY <2>1, <2>2, OneLong
<1>4. /\ ~t.writing /\ SameFlight(t, t)
      /\ t.state \in {"Sending", "WaitingAck", "Retrying"}
  BY <1>1, <1>3 DEF Waits, SameFlight, Flying
<1>5. RxCalm(s) /\ Stage(u, t, c, <<>>, s, d)
  <2>1. CASE Head(i) = BadFrame
    <3>1. /\ RxCalm(s) /\ s.expected = r.expected /\ s.finish_seq = r.finish_seq
          /\ \/ s.action = "None"
             \/ s.action = "CrcRejected" /\ s.reply.type = "Nack"
      BY <2>1, BadIsRead
    <3>2. Ready(u, t, s, d)
      BY <1>3, <3>1 DEF Ready, Open
    <3> QED BY <1>3, <3>1, <3>2 DEF Stage, AtHome, Nothing, Replying, Rejecting
  <2>2. CASE Head(i) = FlightFrame(t)
    <3>1. t.flight.kind = "Start" => t.flight.seq = 0
      BY <1>1 DEF Flying, Offered
    <3>2. RxCalm(s) /\ Accepts(u, t, s, d)
      BY <1>3, <2>2, <3>1, FlightIsRead
    <3> QED BY <1>3, <3>2 DEF Stage, Accepting
  <2> QED BY <1>3, <2>1, <2>2
<1>6. Flying(u, t, c, <<>>, s, d)
  BY <1>1, <1>4, <1>5, StillFlying
<1> QED BY <1>3, <1>5, <1>6 DEF RxKept, Exchange

LEMMA ReplyKeeps ==
  ASSUME NEW u \in TurnRec, NEW t \in TxType, NEW c, NEW i, NEW r, NEW d,
         Exchange(u, t, c, i, r, d), RxCalm(r), Replying(r),
         NEW s, s = TakePending(r), NEW g, g = IF r.action = "Deliver" THEN d + 1 ELSE d
  PROVE  c = <<>> /\ RxKept(u, t, c, r, d, r.action, <<r.reply>>, i, s, g)
<1>1. /\ Flying(u, t, c, i, r, d)
      /\ Rejecting(u, t, c, i, r, d) \/ Accepting(u, t, c, i, r, d)
  BY ReplyIsControl
<1>2. /\ RxCalm(s) /\ s.action = "None"
      /\ s.expected = IF r.action = "Deliver" THEN Advance(r.expected) ELSE r.expected
      /\ s.finish_seq = IF r.action = "Started" THEN NoSeq ELSE r.finish_seq
  BY ReplyLeaves
<1>3. Waits(t) /\ c = <<>> /\ i = <<>>
  BY <1>1 DEF Rejecting, Accepting
<1>4. /\ ~t.writing /\ SameFlight(t, t) /\ ~Replying(s)
      /\ t.state \in {"Sending", "WaitingAck", "Retrying"}
  BY <1>1, <1>2, <1>3 DEF Waits, SameFlight, Flying, Replying
<1>5. PICK e : e = <<r.reply>>
  OBVIOUS
<1>6. Len(e) = 1 /\ e[1] = r.reply /\ Head(e) = r.reply /\ e # <<>>
  BY <1>5
<1>7. CASE Rejecting(u, t, c, i, r, d)
  <2>1. r.action = "CrcRejected" /\ r.reply.type = "Nack" /\ g = d
    BY <1>7 DEF Rejecting
  <2>2. Ready(u, t, s, d)
    BY <1>2, <1>7, <2>1 DEF Rejecting, Ready, Open
  <2>3. Rejected(u, t, e, i, s, d)
    BY <1>3, <1>4, <1>6, <2>1, <2>2 DEF Rejected
  <2>4. Flying(u, t, e, i, s, d)
    BY <1>1, <1>4, <2>3, StillFlying DEF Stage
  <2> QED BY <1>2, <1>3, <1>5, <1>6, <2>1, <2>4 DEF RxKept, Exchange
<1>8. CASE Accepting(u, t, c, i, r, d)
  <2>1. Accepts(u, t, r, d) /\ Offered(u, t)
    BY <1>1, <1>8 DEF Accepting, Flying
  <2>2. /\ r.reply = MkFrame("Ack", t.flight.seq, t.flight.sess, t.flight.pos)
        /\ r.reply.type = "Ack" /\ r.reply.pos = t.flight.pos
    BY <2>1 DEF Accepts, MkFrame
  <2>3. /\ \/ t.flight.kind = "Start" /\ r.action = "Started"
           \/ t.flight.kind = "Data" /\ r.action = "Deliver"
           \/ t.flight.kind = "Finish" /\ r.action = "Finished"
        /\ r.action = "Deliver" => /\ u.index \in 1 .. Len(u.buf) /\ d = u.index - 1
                                   /\ t.flight.pos = u.buf[u.index]
    BY <2>1 DEF Accepts, Offered
  <2>4. Taken(u, t, s, g)
    <3>1. u.index \in Nat
      BY DEF TurnRec
    <3> QED BY <1>2, <2>1, <3>1 DEF Accepts, Taken, Open
  <2>5. Answered(u, t, e, i, s, g)
    BY <1>3, <1>4, <1>5, <2>2, <2>4 DEF Answered
  <2>6. Flying(u, t, e, i, s, g)
    BY <1>1, <1>4, <2>5, StillFlying DEF Stage
  <2> QED BY <1>2, <1>3, <1>5, <1>6, <2>2, <2>3, <2>6 DEF RxKept, Exchange
<1> QED BY <1>1, <1>7, <1>8

(* Every step of the receiver. *)
RxStepOf(c, i, r, d, rs, ro, e, j, s, g) ==
  /\ RxCan(r, rs, i) /\ ro = RxOutcome(r, rs) /\ s = AfterRx(r, rs, i)
  /\ e = IF rs = "reply" THEN <<r.reply>> ELSE c
  /\ j = IF rs = "read" THEN Tail(i) ELSE i
  /\ g = IF ro = "Deliver" THEN d + 1 ELSE d

LEMMA RxKeeps ==
  ASSUME NEW u \in TurnRec, NEW t \in TxType, NEW c \in Seq(Frame),
         NEW i \in Seq(Frame), NEW r, NEW d, Exchange(u, t, c, i, r, d), RxCalm(r),
         NEW rs \in RxSteps, NEW ro, NEW s, NEW e, NEW j, NEW g,
         RxStepOf(c, i, r, d, rs, ro, e, j, s, g)
  PROVE  RxKept(u, t, c, r, d, ro, e, j, s, g) /\ (rs = "reply" => c = <<>>)
<1>0. /\ RxCan(r, rs, i) /\ ro = RxOutcome(r, rs) /\ s = AfterRx(r, rs, i)
      /\ e = IF rs = "reply" THEN <<r.reply>> ELSE c
      /\ j = IF rs = "read" THEN Tail(i) ELSE i
      /\ g = IF ro = "Deliver" THEN d + 1 ELSE d
  BY DEF RxStepOf
<1>1. CASE rs = "none"
  BY <1>0, <1>1 DEF RxOutcome, AfterRx, RxKept
<1>2. CASE rs = "read"
  BY <1>0, <1>2, ReadKeeps DEF RxOutcome, AfterRx, RxCan
<1>3. CASE rs = "reply"
  BY <1>0, <1>3, ReplyKeeps DEF RxOutcome, AfterRx, RxCan
<1> QED BY <1>1, <1>2, <1>3 DEF RxSteps

-----------------------------------------------------------------------------
(* Types. *)

LEMMA PollTyped ==
  ASSUME TurnType, NEW p \in Peers, NEW rs \in RxSteps, NEW ts \in TxSteps,
         NEW v, NEW w, NEW x, NEW r, PollOf(p, rs, ts, v, w, x, r)
  PROVE  /\ v \in TurnRec /\ SenderTyped(w) /\ v.buf = turn[p].buf
         /\ PumpTyped(x) /\ x.tx = w /\ x.rx = pump[p].rx
         /\ x.tx_done_seen = pump[p].tx_done_seen
         /\ x.pending_completed = pump[p].pending_completed
         /\ PumpTyped(r.pump)
         /\ ts = "end" => FlightFrame(w) \in Frame
         /\ rs = "read" => pay[p] # <<>>
         /\ ts = "read" => ctl[p] # <<>>
<1>1. /\ turn[p] \in TurnRec /\ PumpTyped(pump[p])
      /\ ctl[p] \in Seq(Frame) /\ pay[p] \in Seq(Frame)
  BY DEF TurnType, PumpTyped
<1>2. SenderTyped(pump[p].tx)
  BY <1>1, PumpFields DEF PumpTyped, SenderTyped
<1>3. v \in TurnRec /\ SenderTyped(w) /\ v.buf = turn[p].buf
  BY <1>1, <1>2, DriveTyped DEF PollOf
<1>4. x = [pump[p] EXCEPT !.tx = w]
  BY DEF PollOf
<1>5. /\ PumpTyped(x) /\ x.tx = w /\ x.rx = pump[p].rx
      /\ x.tx_done_seen = pump[p].tx_done_seen
      /\ x.pending_completed = pump[p].pending_completed
  BY <1>1, <1>3, <1>4, DrivenPump
<1>6. /\ CanPoll(x, rs, ts, ctl[p], pay[p], Calm(p))
      /\ r = Polled(x, rs, ts, ctl[p], pay[p])
  BY DEF PollOf
<1>7. /\ PumpTyped(r.pump)
      /\ ts = "end" => FlightFrame(x.tx) \in Frame
      /\ rs = "read" => pay[p] # <<>>
      /\ ts = "read" => ctl[p] # <<>>
  <2>1. PICK cin, pin, calm : cin = ctl[p] /\ pin = pay[p] /\ calm = Calm(p)
    OBVIOUS
  <2>2. cin \in Seq(Frame) /\ pin \in Seq(Frame)
    BY <1>1, <2>1
  <2>3. CanPoll(x, rs, ts, cin, pin, calm) /\ r = Polled(x, rs, ts, cin, pin)
    BY <1>6, <2>1
  <2>4. /\ PumpTyped(r.pump)
        /\ ts = "end" => FlightFrame(x.tx) \in Frame
        /\ rs = "read" => pin # <<>>
        /\ ts = "read" => cin # <<>>
    BY <1>5, <2>2, <2>3, PolledTyped
  <2> QED BY <2>1, <2>4
<1> QED BY <1>3, <1>5, <1>7

(* The line after a poll. *)
RingsAfter(p, q, rs, ts, c1, d1) ==
  /\ ctl'[p] = (IF ts = "read" THEN Tail(ctl[p]) ELSE ctl[p])
  /\ ctl'[q] = ctl[q] \o ForSender(c1) \o ForSender(d1)
  /\ pay'[p] = (IF rs = "read" THEN Tail(pay[p]) ELSE pay[p])
  /\ pay'[q] = pay[q] \o ForReceiver(c1) \o ForReceiver(d1)

LEMMA MoveTyped ==
  ASSUME TurnType, NEW p \in Peers, NEW rs, NEW ts, NEW x, NEW r,
         x.rx.reply \in Frame, ts = "end" => FlightFrame(x.tx) \in Frame,
         rs = "read" => pay[p] # <<>>, ts = "read" => ctl[p] # <<>>,
         NEW c, NEW d, NEW step, NEW c1, NEW d1,
         MoveOf(p, x, rs, ts, r, c, d, step, c1, d1)
  PROVE  /\ ctl' \in [Peers -> Seq(Frame)] /\ pay' \in [Peers -> Seq(Frame)]
         /\ RingsAfter(p, Other(p), rs, ts, c1, d1)
         /\ faults' \in Nat /\ garbled' \in [Peers -> BOOLEAN]
<1>1. /\ c.frames = <<x.rx.reply>> \/ c.frames = <<BadFrame>> \/ c.frames = <<>>
      /\ Bad(c).frames = <<BadFrame>> \/ Bad(c).frames = <<>>
      /\ c.hits \in Nat
  <2>1. c \in Carried(x.rx.reply) \cup Silence
    BY DEF MoveOf
  <2> QED BY <2>1, HopType
<1>2. PICK f \in Frame : ts = "end" => f = FlightFrame(x.tx)
  BY FrameType
<1>3. /\ d.frames = <<f>> \/ d.frames = <<BadFrame>> \/ d.frames = <<>>
      /\ Bad(d).frames = <<BadFrame>> \/ Bad(d).frames = <<>>
      /\ d.hits \in Nat
  <2>1. d \in Carried(f) \cup Silence
    BY <1>2 DEF MoveOf
  <2> QED BY <2>1, HopType
<1>4. /\ c1.frames = <<x.rx.reply>> \/ c1.frames = <<BadFrame>> \/ c1.frames = <<>>
      /\ d1.frames = <<f>> \/ d1.frames = <<BadFrame>> \/ d1.frames = <<>>
  BY <1>1, <1>3 DEF MoveOf
<1>5. /\ ForSender(c1) \in Seq(Frame) /\ ForReceiver(c1) \in Seq(Frame)
      /\ ForSender(d1) \in Seq(Frame) /\ ForReceiver(d1) \in Seq(Frame)
  BY <1>4, RingType
<1>6. /\ ctl' \in [Peers -> Seq(Frame)]
      /\ ctl'[p] = (IF ts = "read" THEN Tail(ctl[p]) ELSE ctl[p])
      /\ ctl'[Other(p)] = ctl[Other(p)] \o ForSender(c1) \o ForSender(d1)
  <2>1. ctl \in [Peers -> Seq(Frame)]
    BY DEF TurnType
  <2>2. PICK h, k, j :
          /\ h = (IF ts = "read" THEN Tail(ctl[p]) ELSE ctl[p]) /\ k = ctl'
          /\ j = ctl[Other(p)] \o ForSender(c1) \o ForSender(d1)
    OBVIOUS
  <2>3. k = [ctl EXCEPT ![p] = h, ![Other(p)] = j]
    <3>1. [ctl EXCEPT ![p] = h][Other(p)] = ctl[Other(p)]
      BY <2>1, PeerFacts
    <3>2. k = [ctl EXCEPT ![p] = IF ts = "read" THEN Tail(@) ELSE @,
                          ![Other(p)] = @ \o ForSender(c1) \o ForSender(d1)]
      BY <2>2, Zenon DEF MoveOf
    <3> QED BY <2>2, <3>1, <3>2, Zenon
  <2>4. h \in Seq(Frame) /\ j \in Seq(Frame)
    <3>2. ctl[Other(p)] \in Seq(Frame) /\ ctl[p] \in Seq(Frame)
      BY <2>1, PeerFacts
    <3>3. ctl[Other(p)] \o ForSender(c1) \o ForSender(d1) \in Seq(Frame)
      BY <1>5, <3>2
    <3> QED BY <2>2, <3>2, <3>3, TailFacts
  <2>5. k \in [Peers -> Seq(Frame)] /\ k[p] = h /\ k[Other(p)] = j
    BY <2>1, <2>3, <2>4, PeerFacts
  <2> QED BY <2>2, <2>5
<1>7. /\ pay' \in [Peers -> Seq(Frame)]
      /\ pay'[p] = (IF rs = "read" THEN Tail(pay[p]) ELSE pay[p])
      /\ pay'[Other(p)] = pay[Other(p)] \o ForReceiver(c1) \o ForReceiver(d1)
  <2>1. pay \in [Peers -> Seq(Frame)]
    BY DEF TurnType
  <2>2. PICK h, k, j :
          /\ h = (IF rs = "read" THEN Tail(pay[p]) ELSE pay[p]) /\ k = pay'
          /\ j = pay[Other(p)] \o ForReceiver(c1) \o ForReceiver(d1)
    OBVIOUS
  <2>3. k = [pay EXCEPT ![p] = h, ![Other(p)] = j]
    <3>1. [pay EXCEPT ![p] = h][Other(p)] = pay[Other(p)]
      BY <2>1, PeerFacts
    <3>2. k = [pay EXCEPT ![p] = IF rs = "read" THEN Tail(@) ELSE @,
                          ![Other(p)] = @ \o ForReceiver(c1) \o ForReceiver(d1)]
      BY <2>2, Zenon DEF MoveOf
    <3> QED BY <2>2, <3>1, <3>2, Zenon
  <2>4. h \in Seq(Frame) /\ j \in Seq(Frame)
    <3>2. pay[Other(p)] \in Seq(Frame) /\ pay[p] \in Seq(Frame)
      BY <2>1, PeerFacts
    <3>3. pay[Other(p)] \o ForReceiver(c1) \o ForReceiver(d1) \in Seq(Frame)
      BY <1>5, <3>2
    <3> QED BY <2>2, <3>2, <3>3, TailFacts
  <2>5. k \in [Peers -> Seq(Frame)] /\ k[p] = h /\ k[Other(p)] = j
    BY <2>1, <2>3, <2>4, PeerFacts
  <2> QED BY <2>2, <2>5
<1>8. faults' \in Nat
  BY <1>1, <1>3 DEF TurnType, MoveOf
<1>9. garbled' \in [Peers -> BOOLEAN]
  <2>1. \A b \in BOOLEAN :
          ((r.torn \/ (r.pump.tx.writing /\ Replying(r.pump.rx))) \/ (b /\ step # "found"))
            \in BOOLEAN
    OBVIOUS
  <2>2. garbled \in [Peers -> BOOLEAN]
    BY DEF TurnType
  <2> QED BY <2>1, <2>2, Zenon DEF MoveOf
<1>10. RingsAfter(p, Other(p), rs, ts, c1, d1)
  BY <1>6, <1>7, Zenon DEF RingsAfter
<1> QED BY <1>6, <1>7, <1>8, <1>9, <1>10

LEMMA InitTyped == Init => TurnType
<1> SUFFICES ASSUME Init PROVE TurnType
  OBVIOUS
<1>1. NoFlight \in Flight /\ NoReply \in Frame /\ 0 \in Seqs /\ <<>> \in Seq(Nat)
  BY FlightType, NoReplyType, SeqTypes
<1>2. PumpInit \in PumpType
  BY <1>1 DEF PumpInit, PumpType, TxInit, TxType, TxStates, RxInit, RxType, FrameLen
<1>3. \A p \in Peers : TurnInit(p = 1) \in TurnRec
  BY <1>1 DEF TurnInit, TurnRec
<1>4. \A p \in Peers : pump[p] = PumpInit /\ ~pump[p].tx.writing
  BY DEF Init, PumpInit, TxInit
<1>5. turn \in [Peers -> TurnRec] /\ pump \in [Peers -> PumpType]
  BY <1>2, <1>3 DEF Init
<1>6. /\ ctl \in [Peers -> Seq(Frame)] /\ pay \in [Peers -> Seq(Frame)]
      /\ garbled \in [Peers -> BOOLEAN] /\ behind \in [Peers -> BOOLEAN]
      /\ pushed \in [Peers -> Nat] /\ got \in [Peers -> Seq(Nat)]
      /\ faults \in Nat /\ aborts \in Nat
  BY DEF Init
<1> QED BY <1>4, <1>5, <1>6 DEF TurnType

LEMMA PushTyped ==
  ASSUME TurnType, NEW p \in Peers, Push(p)
  PROVE  TurnType'
<1>1. turn[p] \in TurnRec /\ pushed[p] \in Nat
  BY DEF TurnType
<1>2. PICK n \in Nat : n = pushed[p] + 1
  BY <1>1
<1>3. Append(turn[p].buf, n) \in Seq(Nat)
  BY <1>1, <1>2 DEF TurnRec
<1>4. [turn[p] EXCEPT !.buf = Append(@, n)] \in TurnRec
  BY <1>1, <1>3 DEF TurnRec
<1>5. turn' = [turn EXCEPT ![p] = [turn[p] EXCEPT !.buf = Append(@, n)]]
  BY <1>2, Zenon DEF Push
<1>6. turn' \in [Peers -> TurnRec]
  BY <1>4, <1>5 DEF TurnType
<1>7. pushed' \in [Peers -> Nat]
  BY <1>1 DEF Push, TurnType
<1> QED BY <1>6, <1>7 DEF Push, TurnType

LEMMA AbortTyped ==
  ASSUME TurnType, NEW p \in Peers, Abort(p)
  PROVE  TurnType'
<1>1. turn[p] \in TurnRec /\ PumpTyped(pump[p]) /\ Rewind(turn[p]) \in TurnRec
  BY DEF TurnType, PumpTyped, Rewind, TurnRec
<1>2. turn' \in [Peers -> TurnRec] /\ aborts' \in Nat
  BY <1>1 DEF Abort, TurnType
<1>3. /\ pump' \in [Peers -> PumpType] /\ garbled' \in [Peers -> BOOLEAN]
      /\ \A q \in Peers : pump'[q].tx.writing => InFlight(pump'[q].tx)
  <2>1. CASE AbortIsNoop(pump[p].tx)
    BY <2>1 DEF Abort, TurnType
  <2>2. CASE ~AbortIsNoop(pump[p].tx)
    <3>1. PICK w, x : w = OfferAbort(pump[p].tx, 0, 0) /\ x = [pump[p] EXCEPT !.tx = w]
      OBVIOUS
    <3>2. SenderTyped(w)
      <4>1. SenderTyped(pump[p].tx)
        BY <1>1, PumpFields DEF PumpTyped, SenderTyped
      <4> QED BY <3>1, <4>1, OffersTyped
    <3>3. PumpTyped(x)
      BY <1>1, <3>1, <3>2, DrivenPump
    <3>4. pump' = [pump EXCEPT ![p] = x]
      BY <2>2, <3>1, Zenon DEF Abort
    <3>5. garbled' = [garbled EXCEPT ![p] = @ \/ pump[p].tx.writing]
      BY <2>2, Zenon DEF Abort
    <3>6. pump[p].tx.writing \in BOOLEAN
      BY <1>1, PumpFields DEF PumpTyped
    <3>7. garbled' \in [Peers -> BOOLEAN]
      BY <3>5, <3>6, Zenon DEF TurnType
    <3>8. /\ pump' \in [Peers -> PumpType]
          /\ \A q \in Peers : pump'[q].tx.writing => InFlight(pump'[q].tx)
      BY <3>3, <3>4 DEF PumpTyped, TurnType
    <3> QED BY <3>7, <3>8
  <2> QED BY <2>1, <2>2
<1>4. UNCHANGED <<ctl, pay, behind, pushed, got, faults>>
  BY DEF Abort
<1> QED BY <1>2, <1>3, <1>4 DEF TurnType

LEMMA PolledKeepsTypes ==
  ASSUME TurnType, NEW p \in Peers, NEW rs \in RxSteps, NEW ts \in TxSteps,
         Poll(p, rs, ts)
  PROVE  TurnType'
<1>1. PICK v, w, x, r : PollOf(p, rs, ts, v, w, x, r)
  BY PollParts
<1>2. /\ v \in TurnRec /\ PumpTyped(x) /\ x.tx = w /\ x.rx = pump[p].rx
      /\ PumpTyped(r.pump)
      /\ ts = "end" => FlightFrame(w) \in Frame
      /\ rs = "read" => pay[p] # <<>>
      /\ ts = "read" => ctl[p] # <<>>
  BY <1>1, PollTyped
<1>3. PICK c, d, step, c1, d1 : MoveOf(p, x, rs, ts, r, c, d, step, c1, d1)
  <2>1. Move(p, x, rs, ts, r)
    BY <1>1 DEF PollOf
  <2> QED BY <2>1, MoveParts
<1>4. x.rx.reply \in Frame
  BY <1>2, PumpFields DEF PumpTyped
<1>5. /\ ctl' \in [Peers -> Seq(Frame)] /\ pay' \in [Peers -> Seq(Frame)]
      /\ faults' \in Nat /\ garbled' \in [Peers -> BOOLEAN]
  BY <1>2, <1>3, <1>4, MoveTyped
<1>6. /\ pump' = [pump EXCEPT ![p] = r.pump]
      /\ turn' = [turn EXCEPT ![p] = OnEvent(v, r.event)]
      /\ UNCHANGED <<pushed, aborts>>
      /\ got' = [got EXCEPT ![p] = IF r.event = "Received"
                                     THEN Append(@, x.rx.reply.pos) ELSE @]
      /\ InStep(p, rs, ts, r)
  BY <1>1, Zenon DEF PollOf
<1>7. /\ turn' \in [Peers -> TurnRec] /\ pump' \in [Peers -> PumpType]
      /\ \A q \in Peers : pump'[q].tx.writing => InFlight(pump'[q].tx)
  BY <1>2, <1>6, EventTyped DEF PumpTyped, TurnType
<1>8. got' \in [Peers -> Seq(Nat)]
  <2>1. x.rx.reply.pos \in Nat /\ got[p] \in Seq(Nat)
    BY <1>4, FrameFields DEF TurnType
  <2>2. Append(got[p], x.rx.reply.pos) \in Seq(Nat)
    BY <2>1
  <2> QED BY <1>6, <2>1, <2>2 DEF TurnType
<1>9. behind' \in [Peers -> BOOLEAN]
  BY <1>6, Zenon DEF InStep, TurnType
<1> QED BY <1>5, <1>6, <1>7, <1>8, <1>9 DEF TurnType

(* Every reachable state has its types: the turns, the pumps, the rings.   *)
THEOREM TurnTypeCorrect == Spec => []TurnType
<1>1. Init => TurnType
  BY InitTyped
<1>2. TurnType /\ [Next]_vars => TurnType'
  <2> SUFFICES ASSUME TurnType, [Next]_vars PROVE TurnType'
    OBVIOUS
  <2>1. CASE Next
    <3>1. PICK p \in Peers : \/ Push(p) \/ Abort(p)
                             \/ \E rs \in RxSteps, ts \in TxSteps : Poll(p, rs, ts)
      BY <2>1 DEF Next
    <3> QED BY <3>1, PushTyped, AbortTyped, PolledKeepsTypes
  <2>2. CASE UNCHANGED vars
    BY <2>2 DEF vars, TurnType
  <2> QED BY <2>1, <2>2
<1> QED BY <1>1, <1>2, PTL DEF Spec

-----------------------------------------------------------------------------
(* One poll of one peer: what it does to both exchanges. *)

LEMMA HopKept ==
  ASSUME NEW f, f.type \notin Hits, NEW c \in Carried(f)
  PROVE  c.frames = <<f>>
BY DEF Carried

(* A poll takes from p's rings and adds to the other's: the reply, which   *)
(* arrives, and what may arrive of the sender's frame.                     *)
LineAfter(p, q, rs, ts, f, t, a) ==
  /\ ctl'[p] = (IF ts = "read" THEN Tail(ctl[p]) ELSE ctl[p])
  /\ ctl'[q] = (IF rs = "reply" THEN ctl[q] \o <<f>> ELSE ctl[q])
  /\ pay'[p] = (IF rs = "read" THEN Tail(pay[p]) ELSE pay[p])
  /\ pay'[q] = pay[q] \o a
  /\ Arrival(t, a) /\ (ts # "end" => a = <<>>)

LEMMA ConcatNothing ==
  ASSUME NEW S, NEW k \in Seq(S)
  PROVE  /\ k \o <<>> = k
         /\ \A e \in Seq(S) : (k \o e) \o <<>> = k \o e
OBVIOUS

LEMMA LineKeeps ==
  ASSUME TurnType, TurnTaking, NEW p \in Peers, ~garbled[p], NEW rs, NEW ts, NEW x, NEW r,
         x.rx.reply \in Frame, ts = "end" => FlightFrame(x.tx) \in Frame,
         rs = "read" => pay[p] # <<>>, ts = "read" => ctl[p] # <<>>,
         rs = "reply" => x.rx.reply.type \in {"Ack", "Nack"},
         ts = "end" => x.tx.flight.kind \in FlightKinds,
         NEW c, NEW d, NEW step, NEW c1, NEW d1,
         MoveOf(p, x, rs, ts, r, c, d, step, c1, d1)
  PROVE  \E a : LineAfter(p, Other(p), rs, ts, x.rx.reply, x.tx, a)
<1>1. c1 = c /\ d1 = d
  BY DEF MoveOf
<1>2. /\ ForSender(c) = (IF rs = "reply" THEN <<x.rx.reply>> ELSE <<>>)
      /\ ForReceiver(c) = <<>>
  <2>1. CASE rs = "reply"
    <3>1. c.frames = <<x.rx.reply>>
      <4>1. c \in Carried(x.rx.reply) /\ x.rx.reply.type \notin Hits
        BY <2>1 DEF MoveOf, TurnTaking
      <4> QED BY <4>1, HopKept
    <3>2. IsControl(x.rx.reply)
      BY <2>1 DEF IsControl
    <3> QED BY <2>1, <3>1, <3>2 DEF ForSender, ForReceiver
  <2>2. CASE rs # "reply"
    <3>1. c.frames = <<>>
      BY <2>2 DEF MoveOf, Silence
    <3> QED BY <2>2, <3>1 DEF ForSender, ForReceiver
  <2> QED BY <2>1, <2>2
<1>3. /\ ForSender(d) = <<>> /\ Arrival(x.tx, ForReceiver(d))
      /\ ts # "end" => ForReceiver(d) = <<>>
  <2>1. CASE ts = "end"
    <3>1. PICK f : f = FlightFrame(x.tx)
      OBVIOUS
    <3>2. d.frames = <<f>> \/ d.frames = <<BadFrame>> \/ d.frames = <<>>
      <4>1. d \in Carried(f) \cup Silence /\ f \in Frame
        BY <2>1, <3>1 DEF MoveOf
      <4> QED BY <4>1, HopType
    <3>3. ~IsControl(f) /\ ~IsControl(BadFrame)
      BY <2>1, <3>1 DEF IsControl, FlightFrame, MkFrame, BadFrame, FlightKinds
    <3>4. CASE d.frames = <<f>>
      BY <2>1, <3>1, <3>3, <3>4 DEF ForSender, ForReceiver, Arrival
    <3>5. CASE d.frames = <<BadFrame>>
      BY <2>1, <3>3, <3>5 DEF ForSender, ForReceiver, Arrival
    <3>6. CASE d.frames = <<>>
      BY <2>1, <3>6 DEF ForSender, ForReceiver, Arrival
    <3> QED BY <3>2, <3>4, <3>5, <3>6
  <2>2. CASE ts # "end"
    <3>1. d.frames = <<>>
      BY <2>2 DEF MoveOf, Silence
    <3> QED BY <2>2, <3>1 DEF ForSender, ForReceiver, Arrival
  <2> QED BY <2>1, <2>2
<1>4. PICK q : q = Other(p)
  OBVIOUS
<1>5. ctl[q] \in Seq(Frame) /\ pay[q] \in Seq(Frame) /\ <<x.rx.reply>> \in Seq(Frame)
  BY <1>4, PeerFacts DEF TurnType
<1>6. /\ ctl'[p] = (IF ts = "read" THEN Tail(ctl[p]) ELSE ctl[p])
      /\ ctl'[q] = ctl[q] \o ForSender(c) \o ForSender(d)
      /\ pay'[p] = (IF rs = "read" THEN Tail(pay[p]) ELSE pay[p])
      /\ pay'[q] = pay[q] \o ForReceiver(c) \o ForReceiver(d)
  <2>1. RingsAfter(p, Other(p), rs, ts, c1, d1)
    BY MoveTyped
  <2> QED BY <1>1, <1>4, <2>1, Zenon DEF RingsAfter
<1>7. ctl'[q] = (IF rs = "reply" THEN ctl[q] \o <<x.rx.reply>> ELSE ctl[q])
  <2>1. PICK k, e : k = ctl[q] /\ e = ForSender(c)
    OBVIOUS
  <2>2. k \in Seq(Frame) /\ e \in Seq(Frame)
    BY <1>2, <1>5, <2>1
  <2>3. (k \o e) \o <<>> = k \o e /\ k \o <<>> = k
    BY <2>2, ConcatNothing
  <2>4. ctl'[q] = (k \o e) \o <<>>
    BY <1>3, <1>6, <2>1, Zenon
  <2>5. CASE rs = "reply"
    <3>1. e = <<x.rx.reply>>
      BY <1>2, <2>1, <2>5
    <3> QED BY <2>1, <2>3, <2>4, <2>5, <3>1, Zenon
  <2>6. CASE rs # "reply"
    <3>1. e = <<>>
      BY <1>2, <2>1, <2>6
    <3> QED BY <2>1, <2>3, <2>4, <2>6, <3>1, Zenon
  <2> QED BY <2>5, <2>6
<1>8. pay'[q] = pay[q] \o ForReceiver(d)
  <2>1. PICK k : k = pay[q]
    OBVIOUS
  <2>2. k \o <<>> = k
    BY <1>5, <2>1, ConcatNothing
  <2> QED BY <1>2, <1>6, <2>1, <2>2, Zenon
<1>9. LineAfter(p, q, rs, ts, x.rx.reply, x.tx, ForReceiver(d))
  BY <1>3, <1>6, <1>7, <1>8 DEF LineAfter
<1> QED BY <1>4, <1>9

(* The values of one poll, before the turn takes note of its event: the    *)
(* exchange p speaks in, after drive_tx and after the poll; the one it     *)
(* listens to; and the outcome ro of its receiver.                         *)
Heard(p, q, r, ro, g) ==
  RxKept(turn[q], pump[q].tx, ctl[q], pump[p].rx, Arrived(q), ro,
         ctl'[q], pay'[p], r.pump.rx, g)

Spoken(p, q, v, w, r) ==
  \/ TxKept(v, w, r.pump.tx, ctl[p], ctl'[p], pay'[q], pump[q].rx, Arrived(p))
  \/ Closing(v, w, r.pump.tx, ctl[p], pay[q], ctl'[p], pay'[q], pump[q].rx, Arrived(p))

Rings(p, q, rs, ts) ==
  /\ rs = "reply" => Replying(pump[p].rx) /\ ctl[q] = <<>>
  /\ rs # "reply" => ctl'[q] = ctl[q]
  /\ ts # "read" => ctl'[p] = ctl[p]

PumpAfter(p, rs, ts, w, x, r, ro) ==
  /\ TxCan(w, ts, ctl[p], Calm(p))
  /\ r.pump.tx = AfterTx(w, ts, ctl[p])
  /\ r.pump.rx = AfterRx(pump[p].rx, rs, pay[p])
  /\ r.event = PumpEvent(x, ro, TxOutcome(w, r.pump.tx))
  /\ r.pump.tx_done_seen =
       (IF r.event = "Err" THEN x.tx_done_seen
        ELSE TxOutcome(w, r.pump.tx) = "TransferDone")
  /\ r.pump.pending_completed =
       (r.event = "Received" /\ DoneEdge(x, TxOutcome(w, r.pump.tx)))
  /\ r.torn = FALSE

LEMMA PumpOfPoll ==
  ASSUME TurnType, Conversation, NEW p \in Peers, NEW rs \in RxSteps, NEW ts \in TxSteps,
         NEW v, NEW w, NEW x, NEW r, PollOf(p, rs, ts, v, w, x, r),
         NEW ro, ro = RxOutcome(pump[p].rx, rs), ro # "Aborted"
  PROVE  PumpAfter(p, rs, ts, w, x, r, ro)
<1>1. PICK cin, pin, calm : cin = ctl[p] /\ pin = pay[p] /\ calm = Calm(p)
  OBVIOUS
<1>2. /\ CanPoll(x, rs, ts, cin, pin, calm)
      /\ r = Polled(x, rs, ts, cin, pin)
  BY <1>1, Zenon DEF PollOf
<1>3. /\ x \in PumpType /\ x.tx = w /\ x.rx = pump[p].rx
      /\ ~x.pending_completed
  BY PollTyped DEF PumpTyped, Conversation, Orderly
<1>4. PICK so, t1, to : BothOf(x, rs, ts, cin, pin, r, so, t1, to)
  BY <1>2, <1>3, PolledBoth
<1>5. so = ro /\ t1 = w
  BY <1>3, <1>4 DEF BothOf, CancelTx
<1>6. TxCan(w, ts, cin, calm)
  BY <1>2, <1>3, <1>5 DEF CanPoll, CancelTx
<1>7. r.torn = FALSE
  <2>1. (w.writing /\ ~w.writing) = FALSE
    OBVIOUS
  <2> QED BY <1>3, <1>4, <1>5, <2>1, Zenon DEF BothOf
<1>8. /\ r.pump.tx = AfterTx(w, ts, cin)
      /\ r.pump.rx = AfterRx(pump[p].rx, rs, pin)
      /\ r.event = PumpEvent(x, ro, TxOutcome(w, r.pump.tx))
      /\ r.pump.tx_done_seen =
           (IF r.event = "Err" THEN x.tx_done_seen
            ELSE TxOutcome(w, r.pump.tx) = "TransferDone")
      /\ r.pump.pending_completed =
           (r.event = "Received" /\ DoneEdge(x, TxOutcome(w, r.pump.tx)))
  BY <1>3, <1>4, <1>5, Zenon DEF BothOf
<1> QED BY <1>1, <1>6, <1>7, <1>8, Zenon DEF PumpAfter

LEMMA PollFacts ==
  ASSUME TurnType, TurnTaking, Conversation, NEW p \in Peers,
         NEW rs \in RxSteps, NEW ts \in TxSteps,
         NEW v, NEW w, NEW x, NEW r, PollOf(p, rs, ts, v, w, x, r),
         NEW q, q = Other(p), NEW ro, ro = RxOutcome(pump[p].rx, rs),
         NEW g, g = IF ro = "Deliver" THEN Arrived(q) + 1 ELSE Arrived(q)
  PROVE  /\ Heard(p, q, r, ro, g) /\ Spoken(p, q, v, w, r)
         /\ PumpAfter(p, rs, ts, w, x, r, ro) /\ Rings(p, q, rs, ts)
         /\ Exchange(v, w, ctl[p], pay[q], pump[q].rx, Arrived(p))
         /\ Fresh(turn[p], pump[p].tx, v, w, ctl[p])
         /\ v.speak = turn[p].speak /\ v.buf = turn[p].buf
<1>0. /\ q \in Peers /\ Other(q) = p /\ q # p
      /\ turn[p] \in TurnRec /\ turn[q] \in TurnRec
      /\ ctl[p] \in Seq(Frame) /\ pay[p] \in Seq(Frame)
      /\ ctl[q] \in Seq(Frame) /\ pay[q] \in Seq(Frame)
      /\ SenderTyped(pump[p].tx) /\ SenderTyped(pump[q].tx)
      /\ pump[p].rx \in RxType /\ pump[q].rx \in RxType
  <2>1. q \in Peers /\ Other(q) = p /\ q # p
    BY PeerFacts
  <2>2. \A l \in Peers : SenderTyped(pump[l].tx) /\ pump[l].rx \in RxType
    BY PumpFields DEF TurnType, SenderTyped
  <2> QED BY <2>1, <2>2 DEF TurnType
<1>1. /\ Exchange(turn[p], pump[p].tx, ctl[p], pay[q], pump[q].rx, Arrived(p))
      /\ Exchange(turn[q], pump[q].tx, ctl[q], pay[p], pump[p].rx, Arrived(q))
  BY <1>0 DEF Conversation, Says
<1>2. RxCalm(pump[p].rx) /\ ~garbled[p]
  BY <1>0 DEF Conversation, Orderly, RxCalm
<1>3. /\ v \in TurnRec /\ SenderTyped(w) /\ x.tx = w /\ x.rx = pump[p].rx
      /\ ts = "end" => FlightFrame(w) \in Frame
      /\ rs = "read" => pay[p] # <<>>
      /\ ts = "read" => ctl[p] # <<>>
  BY PollTyped
<1>4. /\ Exchange(v, w, ctl[p], pay[q], pump[q].rx, Arrived(p))
      /\ Fresh(turn[p], pump[p].tx, v, w, ctl[p])
      /\ v.speak = turn[p].speak /\ v.buf = turn[p].buf
  <2>1. DriveOutcome(turn[p], pump[p].tx, v, w)
    BY DEF PollOf
  <2>2. PICK u, t, c, i, y, d : /\ u = turn[p] /\ t = pump[p].tx /\ c = ctl[p]
                                /\ i = pay[q] /\ y = pump[q].rx /\ d = Arrived(p)
    OBVIOUS
  <2>3. u \in TurnRec /\ t \in TxType /\ Exchange(u, t, c, i, y, d)
    BY <1>0, <1>1, <2>2 DEF SenderTyped
  <2>4. DriveOutcome(u, t, v, w)
    BY <2>1, <2>2
  <2>5. /\ Exchange(v, w, c, i, y, d) /\ Fresh(u, t, v, w, c)
        /\ v.speak = u.speak /\ v.buf = u.buf
    BY <2>3, <2>4, DriveKeeps
  <2> QED BY <2>2, <2>5
<1>5. RxCan(pump[p].rx, rs, pay[p])
  <2>1. CanPoll(x, rs, ts, ctl[p], pay[p], Calm(p)) /\ ~x.pending_completed
    BY <1>0, PollTyped DEF PollOf, Conversation, Orderly
  <2> QED BY <1>3, <2>1 DEF CanPoll
<1>6. PICK u, t, c, i, y, d, s, e, j :
        /\ u = turn[q] /\ t = pump[q].tx /\ c = ctl[q] /\ i = pay[p]
        /\ y = pump[p].rx /\ d = Arrived(q) /\ s = AfterRx(y, rs, i)
        /\ e = (IF rs = "reply" THEN <<y.reply>> ELSE c)
        /\ j = (IF rs = "read" THEN Tail(i) ELSE i)
  OBVIOUS
<1>7. /\ u \in TurnRec /\ t \in TxType /\ c \in Seq(Frame) /\ i \in Seq(Frame)
      /\ Exchange(u, t, c, i, y, d) /\ RxCalm(y) /\ RxCan(y, rs, i)
      /\ ro = RxOutcome(y, rs) /\ g = (IF ro = "Deliver" THEN d + 1 ELSE d)
  BY <1>0, <1>1, <1>2, <1>5, <1>6 DEF SenderTyped
<1>8. RxKept(u, t, c, y, d, ro, e, j, s, g) /\ (rs = "reply" => c = <<>>)
  <2>1. RxStepOf(c, i, y, d, rs, ro, e, j, s, g)
    BY <1>6, <1>7, Zenon DEF RxStepOf
  <2> QED BY <1>7, <2>1, RxKeeps
<1>9. ro # "Aborted"
  BY <1>8 DEF RxKept
<1>10. /\ TxCan(w, ts, ctl[p], Calm(p))
       /\ r.pump.tx = AfterTx(w, ts, ctl[p])
       /\ r.pump.rx = AfterRx(pump[p].rx, rs, pay[p])
  <2>1. PumpAfter(p, rs, ts, w, x, r, ro)
    BY <1>9, PumpOfPoll
  <2> QED BY <2>1 DEF PumpAfter
<1>11. /\ rs = "reply" => y.reply.type \in {"Ack", "Nack"}
       /\ ts = "end" => w.flight.kind \in FlightKinds
  <2>1. rs = "reply" => Replying(y)
    BY <1>7 DEF RxCan
  <2>2. ts = "end" => w.flight.kind \in FlightKinds
    BY <1>3, <1>10 DEF TxCan, SenderTyped, InFlight, TxType, Flight
  <2> QED BY <1>7, <2>1, <2>2, ReplyIsControl
<1>12. PICK a : LineAfter(p, q, rs, ts, y.reply, w, a)
  <2>1. Move(p, x, rs, ts, r)
    BY DEF PollOf
  <2>2. PICK c0, d0, step, c1, d1 : MoveOf(p, x, rs, ts, r, c0, d0, step, c1, d1)
    BY <2>1, MoveParts
  <2>3. y.reply \in Frame
    BY <1>7 DEF RxCalm, RxType
  <2> QED BY <1>2, <1>3, <1>6, <1>11, <2>2, <2>3, LineKeeps
<1>13. Heard(p, q, r, ro, g)
  <2>1. ctl'[q] = e
    <3>1. <<>> \o <<y.reply>> = <<y.reply>>
      OBVIOUS
    <3> QED BY <1>6, <1>8, <1>12, <3>1 DEF LineAfter
  <2>2. pay'[p] = j /\ r.pump.rx = s
    BY <1>6, <1>10, <1>12 DEF LineAfter
  <2> QED BY <1>6, <1>8, <2>1, <2>2 DEF Heard
<1>14. Spoken(p, q, v, w, r)
  <2>1. PICK cp, iq, yq, dp, e2, j2, t2, calm :
          /\ cp = ctl[p] /\ iq = pay[q] /\ yq = pump[q].rx /\ dp = Arrived(p)
          /\ e2 = ctl'[p] /\ j2 = pay'[q] /\ t2 = r.pump.tx /\ calm = Calm(p)
    OBVIOUS
  <2>2. calm => iq = <<>> /\ ~Replying(yq)
    BY <1>0, <2>1 DEF Calm, TurnTaking
  <2>3. /\ e2 = (IF ts = "read" THEN Tail(cp) ELSE cp) /\ j2 = iq \o a
        /\ Arrival(w, a) /\ (ts # "end" => a = <<>>)
    BY <1>12, <2>1 DEF LineAfter
  <2>4. /\ cp \in Seq(Frame) /\ iq \in Seq(Frame) /\ Exchange(v, w, cp, iq, yq, dp)
        /\ TxCan(w, ts, cp, calm) /\ t2 = AfterTx(w, ts, cp)
    BY <1>0, <1>4, <1>10, <2>1
  <2>5. \/ TxKept(v, w, t2, cp, e2, j2, yq, dp)
        \/ ts = "read" /\ Closing(v, w, t2, cp, iq, e2, j2, yq, dp)
    BY <1>3, <2>2, <2>3, <2>4, TxKeeps
  <2> QED BY <2>1, <2>5 DEF Spoken
<1>15. Rings(p, q, rs, ts)
  BY <1>6, <1>7, <1>8, <1>12 DEF LineAfter, Rings, RxCan
<1>16. PumpAfter(p, rs, ts, w, x, r, ro)
  BY <1>9, PumpOfPoll
<1> QED BY <1>4, <1>13, <1>14, <1>15, <1>16

-----------------------------------------------------------------------------
(* A poll, seen from the whole of the conversation. *)

(* What the poll of p leaves of the variables. *)
Changes(p, q, v, r) ==
  /\ turn'[p] = OnEvent(v, r.event) /\ turn'[q] = turn[q]
  /\ pump'[p] = r.pump /\ pump'[q] = pump[q]
  /\ got'[p] = (IF r.event = "Received" THEN Append(got[p], pump[p].rx.reply.pos)
                ELSE got[p])
  /\ got'[q] = got[q] /\ behind'[q] = behind[q]
  /\ pushed' = pushed /\ ~garbled'[q]
  /\ garbled'[p] => r.pump.tx.writing /\ Replying(r.pump.rx)

LEMMA PollChanges ==
  ASSUME TurnType, Conversation, NEW p \in Peers,
         NEW rs \in RxSteps, NEW ts \in TxSteps,
         NEW v, NEW w, NEW x, NEW r, PollOf(p, rs, ts, v, w, x, r), r.torn = FALSE,
         NEW q, q = Other(p)
  PROVE  Changes(p, q, v, r)
<1>0. q \in Peers /\ q # p
  BY PeerFacts
<1>1. x.rx = pump[p].rx
  BY PollTyped
<1>2. turn'[p] = OnEvent(v, r.event) /\ turn'[q] = turn[q]
  BY <1>0 DEF PollOf, TurnType
<1>3. pump'[p] = r.pump /\ pump'[q] = pump[q]
  BY <1>0 DEF PollOf, TurnType
<1>4. /\ got'[p] = (IF r.event = "Received" THEN Append(got[p], pump[p].rx.reply.pos)
                    ELSE got[p])
      /\ got'[q] = got[q]
  <2>1. PICK h : h = (IF r.event = "Received" THEN Append(got[p], x.rx.reply.pos)
                      ELSE got[p])
    OBVIOUS
  <2>2. got' = [got EXCEPT ![p] = IF r.event = "Received"
                                    THEN Append(got[p], x.rx.reply.pos) ELSE got[p]]
    BY Zenon DEF PollOf
  <2>3. got' = [got EXCEPT ![p] = h]
    BY <2>1, <2>2, Zenon
  <2> QED BY <1>0, <1>1, <2>1, <2>3 DEF TurnType
<1>5. behind'[q] = behind[q]
  <2>1. PICK h : behind' = [behind EXCEPT ![p] = h]
    BY Zenon DEF PollOf, InStep
  <2> QED BY <1>0, <2>1 DEF TurnType
<1>6. ~garbled'[q] /\ (garbled'[p] => r.pump.tx.writing /\ Replying(r.pump.rx))
  <2>1. PICK c0, d0, step, c1, d1 : MoveOf(p, x, rs, ts, r, c0, d0, step, c1, d1)
    BY MoveParts DEF PollOf
  <2>2. garbled' = [garbled EXCEPT ![p] =
          (r.torn \/ (r.pump.tx.writing /\ Replying(r.pump.rx)))
          \/ (@ /\ step # "found")]
    BY <2>1, Zenon DEF MoveOf
  <2>3. ~garbled[p] /\ ~garbled[q] /\ garbled \in [Peers -> BOOLEAN]
    BY <1>0 DEF Conversation, Orderly, TurnType
  <2>4. ~garbled'[q]
    BY <1>0, <2>2, <2>3, Zenon
  <2>5. garbled'[p] => r.pump.tx.writing /\ Replying(r.pump.rx)
    BY <2>2, <2>3, Zenon
  <2> QED BY <2>4, <2>5
<1>7. pushed' = pushed
  BY DEF PollOf
<1> QED BY <1>2, <1>3, <1>4, <1>5, <1>6, <1>7 DEF Changes

(* The exchange after a step, from the values of its parts. *)
LEMMA SaysNext ==
  ASSUME NEW l, NEW u, NEW t, NEW c, NEW i, NEW r, NEW d, Exchange(u, t, c, i, r, d),
         turn'[l] = u, pump'[l].tx = t, ctl'[l] = c, pay'[Other(l)] = i,
         pump'[Other(l)].rx = r,
         Len(got'[Other(l)]) - (pushed'[l] - Len(turn'[l].buf)) = d
  PROVE  Says(l)'
BY DEF Says, Arrived, Gone

(* The event of a poll whose sender neither aborts nor completes. *)
EventIs(w, ro, ev) ==
  /\ ev # "Aborted"
  /\ ev = "Err" <=> w.state = "Failed"
  /\ ev = "Received" <=> ro = "Deliver" /\ w.state # "Failed"
  /\ ev = "Completed" <=> ro = "Finished" /\ w.state # "Failed"

LEMMA EventOfQuiet ==
  ASSUME NEW x, NEW w, NEW w2, NEW ro, NEW ev,
         ev = PumpEvent(x, ro, TxOutcome(w, w2)),
         w2.state # "Aborted", w2.state = "Finished" => x.tx_done_seen,
         ro \in {"Pending", "Deliver", "Started", "Finished", "CrcRejected"}
  PROVE  /\ EventIs(w2, ro, ev)
         /\ TxOutcome(w, w2) = "TransferDone" <=> w2.state = "Finished"
         /\ ~DoneEdge(x, TxOutcome(w, w2))
<1>1. /\ TxOutcome(w, w2) = "TransferDone" <=> w2.state = "Finished"
      /\ TxOutcome(w, w2) = "RetriesExhausted" <=> w2.state = "Failed"
      /\ TxOutcome(w, w2) # "Aborted"
  BY DEF TxOutcome
<1>2. ~DoneEdge(x, TxOutcome(w, w2))
  BY <1>1 DEF DoneEdge
<1> QED BY <1>1, <1>2 DEF PumpEvent, EventIs

(* All of this together. *)
Polling(p, q, rs, ts, v, w, x, r, ro, g) ==
  /\ q = Other(p) /\ g = (IF ro = "Deliver" THEN Arrived(q) + 1 ELSE Arrived(q))
  /\ DriveOutcome(turn[p], pump[p].tx, v, w) /\ v \in TurnRec /\ SenderTyped(w)
  /\ v.speak = turn[p].speak /\ v.buf = turn[p].buf
  /\ Exchange(v, w, ctl[p], pay[q], pump[q].rx, Arrived(p))
  /\ Fresh(turn[p], pump[p].tx, v, w, ctl[p])
  /\ Heard(p, q, r, ro, g) /\ PumpAfter(p, rs, ts, w, x, r, ro)
  /\ Rings(p, q, rs, ts) /\ InStep(p, rs, ts, r) /\ Changes(p, q, v, r)
  /\ x.tx_done_seen = pump[p].tx_done_seen /\ PumpTyped(r.pump)
  /\ ro = RxOutcome(pump[p].rx, rs)

Kept(p, q, v, w, r) ==
  TxKept(v, w, r.pump.tx, ctl[p], ctl'[p], pay'[q], pump[q].rx, Arrived(p))

Closes(p, q, v, w, r) ==
  Closing(v, w, r.pump.tx, ctl[p], pay[q], ctl'[p], pay'[q], pump[q].rx, Arrived(p))

LEMMA PollIs ==
  ASSUME TurnType, TurnTaking, Conversation, NEW p \in Peers, NEW q, q = Other(p),
         NEW rs \in RxSteps, NEW ts \in TxSteps, Poll(p, rs, ts)
  PROVE  \E v, w, x, r, ro, g : /\ Polling(p, q, rs, ts, v, w, x, r, ro, g)
                                /\ Kept(p, q, v, w, r) \/ Closes(p, q, v, w, r)
<1>1. PICK v, w, x, r : PollOf(p, rs, ts, v, w, x, r)
  BY PollParts
<1>2. PICK ro, g : /\ ro = RxOutcome(pump[p].rx, rs)
                   /\ g = (IF ro = "Deliver" THEN Arrived(q) + 1 ELSE Arrived(q))
  OBVIOUS
<1>3. /\ Heard(p, q, r, ro, g) /\ Spoken(p, q, v, w, r)
      /\ PumpAfter(p, rs, ts, w, x, r, ro) /\ Rings(p, q, rs, ts)
      /\ Exchange(v, w, ctl[p], pay[q], pump[q].rx, Arrived(p))
      /\ Fresh(turn[p], pump[p].tx, v, w, ctl[p])
      /\ v.speak = turn[p].speak /\ v.buf = turn[p].buf
  BY <1>1, <1>2, PollFacts
<1>4. /\ v \in TurnRec /\ SenderTyped(w) /\ x.tx_done_seen = pump[p].tx_done_seen
      /\ PumpTyped(r.pump)
  BY <1>1, PollTyped
<1>5. r.torn = FALSE
  BY <1>3 DEF PumpAfter
<1>6. Changes(p, q, v, r)
  BY <1>1, <1>5, PollChanges
<1>7. DriveOutcome(turn[p], pump[p].tx, v, w) /\ InStep(p, rs, ts, r)
  BY <1>1 DEF PollOf
<1>8. Polling(p, q, rs, ts, v, w, x, r, ro, g)
  BY <1>2, <1>3, <1>4, <1>6, <1>7, Zenon DEF Polling
<1> QED BY <1>3, <1>8 DEF Spoken, Kept, Closes

(* What the caller of p received before the poll, and what it received in  *)
(* it: the byte after them.                                                *)
LEMMA PolledBytes ==
  ASSUME TurnType, Conversation, NEW p \in Peers, NEW q, NEW rs, NEW ts,
         NEW v, NEW w, NEW x, NEW r, NEW ro, NEW g,
         Polling(p, q, rs, ts, v, w, x, r, ro, g), r.event = "Received" <=> ro = "Deliver"
  PROVE  /\ InOrder(p)' /\ InOrder(q)'
         /\ Len(got'[p]) - (pushed[q] - Len(turn[q].buf)) = g
<1>0. q \in Peers /\ Other(q) = p /\ q = Other(p) /\ q # p
  BY PeerFacts DEF Polling
<1>1. /\ got[p] \in Seq(Nat) /\ Len(got[p]) \in Nat /\ pushed[q] \in Nat
      /\ Len(turn[q].buf) \in Nat
      /\ g = (IF ro = "Deliver" THEN Arrived(q) + 1 ELSE Arrived(q))
      /\ Arrived(q) = Len(got[p]) - (pushed[q] - Len(turn[q].buf))
  BY <1>0, SMTT(30) DEF TurnType, TurnRec, Arrived, Gone, Polling
<1>2. /\ got'[p] = (IF r.event = "Received" THEN Append(got[p], pump[p].rx.reply.pos)
                    ELSE got[p])
      /\ got'[q] = got[q]
  BY DEF Polling, Changes
<1>3. \A j \in 1 .. Len(got[p]) : got[p][j] = j
  BY DEF Conversation, InOrder
<1>4. InOrder(q)'
  BY <1>0, <1>2 DEF Conversation, InOrder
<1>5. CASE ro # "Deliver"
  BY <1>1, <1>2, <1>3, <1>4, <1>5 DEF InOrder
<1>6. CASE ro = "Deliver"
  <2>1. /\ turn[q].index \in 1 .. Len(turn[q].buf)
        /\ pump[p].rx.reply.pos = turn[q].buf[turn[q].index]
        /\ Arrived(q) = turn[q].index - 1
    BY <1>6 DEF Polling, Heard, RxKept
  <2>2. turn[q].buf[turn[q].index] = (pushed[q] - Len(turn[q].buf)) + turn[q].index
    BY <1>0, <2>1 DEF Conversation, Queued, Gone
  <2>3. PICK n, h : n = pump[p].rx.reply.pos /\ h = got[p]
    OBVIOUS
  <2>9. turn[q].index \in Nat
    BY <1>0 DEF TurnType, TurnRec
  <2>10. PICK l, m, b, k, ar :
           /\ l = Len(got[p]) /\ m = pushed[q] /\ b = Len(turn[q].buf)
           /\ k = turn[q].index /\ ar = Arrived(q)
    OBVIOUS
  <2>11. /\ l \in Nat /\ m \in Nat /\ b \in Nat /\ k \in Nat
         /\ ar = l - (m - b) /\ ar = k - 1 /\ n = (m - b) + k /\ g = ar + 1
    BY <1>1, <1>6, <2>1, <2>2, <2>3, <2>9, <2>10
  <2>14. l - (m - b) = k - 1
    BY <2>11
  <2>15. n = l + 1
    BY <2>11, <2>14
  <2>16. (l + 1) - (m - b) = g
    BY <2>11
  <2>4. n = Len(h) + 1 /\ (l + 1) - (m - b) = g
    BY <2>3, <2>10, <2>15, <2>16
  <2>5. got'[p] = Append(h, n)
    BY <1>2, <1>6, <2>3
  <2>6. h \in Seq(Nat) /\ n \in Nat
    BY <1>1, <2>3, <2>4
  <2>7. \A j \in 1 .. Len(Append(h, n)) : Append(h, n)[j] = j
    BY <1>3, <2>3, <2>4, <2>6
  <2>8. Len(Append(h, n)) = Len(h) + 1
    BY <2>6
  <2>12. Len(got'[p]) - (pushed[q] - Len(turn[q].buf)) = g
    BY <2>3, <2>4, <2>5, <2>8, <2>10
  <2>13. InOrder(p)'
    BY <2>5, <2>7 DEF InOrder
  <2> QED BY <1>4, <2>12, <2>13
<1> QED BY <1>5, <1>6

(* A poll whose sender keeps its exchange: the event is the receiver's.    *)
LEMMA QuietPoll ==
  ASSUME TurnType, Conversation, NEW p \in Peers, NEW q, NEW rs, NEW ts,
         NEW v, NEW w, NEW x, NEW r, NEW ro, NEW g,
         Polling(p, q, rs, ts, v, w, x, r, ro, g), Kept(p, q, v, w, r),
         ro = "Deliver" => r.pump.tx.state # "Failed"
  PROVE  /\ EventIs(r.pump.tx, ro, r.event)
         /\ ~r.pump.pending_completed
         /\ r.pump.tx_done_seen <=> r.pump.tx.state = "Finished"
         /\ InOrder(p)' /\ InOrder(q)' /\ Says(q)'
<1>1. /\ TxKept(v, w, r.pump.tx, ctl[p], ctl'[p], pay'[q], pump[q].rx, Arrived(p))
      /\ Fresh(turn[p], pump[p].tx, v, w, ctl[p])
      /\ PumpAfter(p, rs, ts, w, x, r, ro)
      /\ x.tx_done_seen = pump[p].tx_done_seen
      /\ ro \in {"Pending", "Deliver", "Started", "Finished", "CrcRejected"}
      /\ Exchange(turn[q], pump[q].tx, ctl'[q], pay'[p], r.pump.rx, g)
  BY DEF Polling, Kept, Heard, RxKept
<1>2. PICK w2 : w2 = r.pump.tx
  OBVIOUS
<1>3. pump[p].tx_done_seen <=> pump[p].tx.state = "Finished"
  BY DEF Conversation, Orderly
<1>4. /\ x.tx_done_seen \in BOOLEAN /\ r.pump.tx_done_seen \in BOOLEAN
      /\ r.pump.pending_completed \in BOOLEAN
  <2>1. PumpTyped(pump[p]) /\ PumpTyped(r.pump)
    BY DEF TurnType, PumpTyped, Polling
  <2> QED BY <1>1, <2>1, Zenon DEF PumpTyped, PumpType
<1>5. /\ w2.state # "Aborted"
      /\ w2.state = "Finished" => x.tx_done_seen
      /\ w2.state = "Failed" => ~x.tx_done_seen
  <2>1. w2.state # "Aborted"
    BY <1>1, <1>2 DEF TxKept, Exchange, Silent, Between, Stuck, Flying
  <2>2. CASE w = pump[p].tx
    BY <1>1, <1>2, <1>3, <2>1, <2>2 DEF TxKept
  <2>3. CASE WantsWrite(w) /\ w.state = "Sending"
    BY <1>1, <1>2, <2>3 DEF TxKept
  <2> QED BY <1>1, <2>2, <2>3 DEF Fresh
<1>6. PICK ev : ev = r.event
  OBVIOUS
<1>7. /\ ev = PumpEvent(x, ro, TxOutcome(w, w2))
      /\ r.pump.tx_done_seen =
           (IF ev = "Err" THEN x.tx_done_seen
            ELSE TxOutcome(w, w2) = "TransferDone")
      /\ r.pump.pending_completed =
           (ev = "Received" /\ DoneEdge(x, TxOutcome(w, w2)))
  BY <1>1, <1>2, <1>6, Zenon DEF PumpAfter
<1>8. /\ EventIs(w2, ro, ev)
      /\ TxOutcome(w, w2) = "TransferDone" <=> w2.state = "Finished"
      /\ ~DoneEdge(x, TxOutcome(w, w2))
  BY <1>1, <1>5, <1>7, EventOfQuiet
<1>9. ~r.pump.pending_completed
  BY <1>7, <1>8, Zenon
<1>10. r.pump.tx_done_seen <=> w2.state = "Finished"
  <2>1. CASE ev = "Err"
    BY <1>4, <1>5, <1>7, <1>8, <2>1 DEF EventIs
  <2>2. CASE ev # "Err"
    BY <1>7, <1>8, <2>2, Zenon
  <2> QED BY <2>1, <2>2
<1>11. r.event = "Received" <=> ro = "Deliver"
  BY <1>2, <1>6, <1>8 DEF EventIs
<1>12. /\ InOrder(p)' /\ InOrder(q)'
       /\ Len(got'[p]) - (pushed[q] - Len(turn[q].buf)) = g
  BY <1>11, PolledBytes
<1>13. Says(q)'
  <2>1. /\ q = Other(p) /\ turn'[q] = turn[q] /\ pump'[q] = pump[q] /\ pump'[p] = r.pump
        /\ pushed' = pushed
    BY DEF Polling, Changes
  <2>2. Other(q) = p
    BY <2>1, PeerFacts
  <2> QED BY <1>1, <1>12, <2>1, <2>2, SaysNext
<1> QED BY <1>2, <1>6, <1>8, <1>9, <1>10, <1>12, <1>13

(* What is left to say of p itself: the turn, its queue, its pump.         *)
LEMMA OwnTurn ==
  ASSUME TurnType, Conversation, NEW p \in Peers, NEW q, NEW rs, NEW ts,
         NEW v, NEW w, NEW x, NEW r, NEW ro, NEW g,
         Polling(p, q, rs, ts, v, w, x, r, ro, g), turn'[p].buf = v.buf
  PROVE  /\ Queued(p)' /\ Queued(q)'
         /\ Len(got'[q]) - (pushed'[p] - Len(turn'[p].buf)) = Arrived(p)
<1>1. q \in Peers /\ Other(q) = p /\ q = Other(p)
  BY PeerFacts DEF Polling
<1>2. /\ turn'[p].buf = turn[p].buf /\ turn'[q] = turn[q]
      /\ pushed' = pushed /\ got'[q] = got[q]
  BY DEF Polling, Changes
<1>3. Queued(p) /\ Queued(q)
  BY <1>1 DEF Conversation
<1> QED BY <1>1, <1>2, <1>3 DEF Queued, Gone, Arrived

LEMMA OwnPump ==
  ASSUME TurnType, Conversation, NEW p \in Peers, NEW q, NEW rs, NEW ts,
         NEW v, NEW w, NEW x, NEW r, NEW ro, NEW g,
         Polling(p, q, rs, ts, v, w, x, r, ro, g),
         ~r.pump.pending_completed, r.pump.tx_done_seen <=> r.pump.tx.state = "Finished",
         ~(r.pump.tx.writing /\ Replying(r.pump.rx))
  PROVE  Orderly(p)' /\ Orderly(q)'
<1>1. q \in Peers
  BY PeerFacts DEF Polling
<1>2. /\ pump'[p] = r.pump /\ pump'[q] = pump[q] /\ ~garbled'[q] /\ ~garbled'[p]
  BY DEF Polling, Changes
<1>3. r.pump.rx.abort_latched = FALSE /\ r.pump.rx.filled = 0
  BY DEF Polling, Heard, RxKept, RxCalm
<1>4. Orderly(p)'
  BY <1>2, <1>3 DEF Orderly
<1>5. Orderly(q)'
  BY <1>1, <1>2 DEF Conversation, Orderly
<1> QED BY <1>4, <1>5

(* Who writes a frame, or is replied to, speaks and has nothing to read.   *)
LEMMA WhoWrites ==
  ASSUME NEW u, NEW t, NEW c, NEW i, NEW r, NEW d, Exchange(u, t, c, i, r, d),
         t.writing \/ Replying(r)
  PROVE  u.speak /\ c = <<>>
<1>1. Flying(u, t, c, i, r, d)
  BY DEF Exchange, Silent, Between, Stuck, Nothing
<1>2. CASE t.writing
  <2>1. AtHome(u, t, c, i, r, d)
    BY <1>1, <1>2, WhichStage DEF Waits
  <2> QED BY <1>1, <2>1 DEF Flying, AtHome, Nothing
<1>3. CASE Replying(r)
  BY <1>1, <1>3, WhichStage DEF Flying, Rejecting, Accepting
<1> QED BY <1>2, <1>3

LEMMA NobodyTalksOver ==
  ASSUME NEW p \in Peers, NEW q, q = Other(p), Says(p)', Says(q)', Floor'
  PROVE  ~(pump'[p].tx.writing /\ Replying(pump'[p].rx))
<1> SUFFICES ASSUME pump'[p].tx.writing, Replying(pump'[p].rx)
             PROVE  FALSE
  OBVIOUS
<1>0. q \in Peers /\ Other(q) = p /\ Other(p) = q
  BY PeerFacts
<1>1. turn'[p].speak /\ ctl'[p] = <<>>
  <2>1. Exchange(turn'[p], pump'[p].tx, ctl'[p], pay'[q], pump'[q].rx, Arrived(p)')
    BY <1>0 DEF Says
  <2>2. PICK u, t, c, i, r, d :
          /\ u = turn'[p] /\ t = pump'[p].tx /\ c = ctl'[p] /\ i = pay'[q]
          /\ r = pump'[q].rx /\ d = Arrived(p)'
    OBVIOUS
  <2>3. Exchange(u, t, c, i, r, d) /\ t.writing
    BY <2>1, <2>2
  <2>4. u.speak /\ c = <<>>
    BY <2>3, WhoWrites
  <2> QED BY <2>2, <2>4
<1>2. turn'[q].speak /\ ctl'[q] = <<>>
  <2>1. Exchange(turn'[q], pump'[q].tx, ctl'[q], pay'[p], pump'[p].rx, Arrived(q)')
    BY <1>0 DEF Says
  <2>2. PICK u, t, c, i, r, d :
          /\ u = turn'[q] /\ t = pump'[q].tx /\ c = ctl'[q] /\ i = pay'[p]
          /\ r = pump'[p].rx /\ d = Arrived(q)'
    OBVIOUS
  <2>3. Exchange(u, t, c, i, r, d) /\ Replying(r)
    BY <2>1, <2>2
  <2>4. u.speak /\ c = <<>>
    BY <2>3, WhoWrites
  <2> QED BY <2>2, <2>4
<1>3. PICK l \in Peers : Alone(l)' \/ Handing(l)'
  BY DEF Floor
<1>4. l = p \/ l = q
  BY <1>0, <1>3, PeerFacts
<1> QED BY <1>0, <1>1, <1>2, <1>3, <1>4 DEF Alone, Handing, FinishAcked

(* The conversation after a poll, from what is said of each of the roles.  *)
LEMMA PollConverses ==
  ASSUME TurnType, Conversation, NEW p \in Peers, NEW q, NEW rs, NEW ts,
         NEW v, NEW w, NEW x, NEW r, NEW ro, NEW g,
         Polling(p, q, rs, ts, v, w, x, r, ro, g),
         ~r.pump.pending_completed, r.pump.tx_done_seen <=> r.pump.tx.state = "Finished",
         InOrder(p)' /\ InOrder(q)' /\ Says(p)' /\ Says(q)',
         Queued(p)' /\ Queued(q)', Floor'
  PROVE  Conversation'
<1>1. q = Other(p) /\ pump'[p] = r.pump
  BY DEF Polling, Changes
<1>2. ~(r.pump.tx.writing /\ Replying(r.pump.rx))
  BY <1>1, NobodyTalksOver
<1>3. Orderly(p)' /\ Orderly(q)'
  BY <1>2, OwnPump
<1>4. \A l \in Peers : l = p \/ l = q
  BY <1>1, PeerFacts
<1>5. \A l \in Peers : Says(l)' /\ Queued(l)' /\ InOrder(l)' /\ Orderly(l)'
  BY <1>3, <1>4
<1> QED BY <1>5 DEF Conversation

(* A poll that leaves the turn with drive_tx.                              *)
LEMMA TurnStays ==
  ASSUME TurnType, Conversation, NEW p \in Peers, NEW q, NEW rs, NEW ts,
         NEW v, NEW w, NEW x, NEW r, NEW ro, NEW g,
         Polling(p, q, rs, ts, v, w, x, r, ro, g), Kept(p, q, v, w, r),
         ro = "Deliver" => r.pump.tx.state # "Failed", ro # "Finished"
  PROVE  /\ turn'[p] = v
         /\ Floor' => Conversation'
<1>1. /\ EventIs(r.pump.tx, ro, r.event) /\ ~r.pump.pending_completed
      /\ r.pump.tx_done_seen <=> r.pump.tx.state = "Finished"
      /\ InOrder(p)' /\ InOrder(q)' /\ Says(q)'
  BY QuietPoll
<1>2. r.event # "Aborted" /\ r.event # "Completed"
  BY <1>1 DEF EventIs
<1>3. /\ turn'[p] = v /\ q = Other(p) /\ pump'[p] = r.pump /\ pump'[q] = pump[q]
      /\ pushed' = pushed
  BY <1>2 DEF Polling, Changes, OnEvent
<1>4. /\ Queued(p)' /\ Queued(q)'
      /\ Len(got'[q]) - (pushed'[p] - Len(turn'[p].buf)) = Arrived(p)
  BY <1>3, OwnTurn
<1>5. Exchange(v, r.pump.tx, ctl'[p], pay'[q], pump[q].rx, Arrived(p))
  BY DEF Kept, TxKept
<1>6. Says(p)'
  BY <1>3, <1>4, <1>5, SaysNext
<1> QED BY <1>1, <1>3, <1>4, <1>6, PollConverses

(* Who does not speak is silent. *)
LEMMA ListenerIsSilent ==
  ASSUME NEW u, NEW t, NEW c, NEW i, NEW r, NEW d, Exchange(u, t, c, i, r, d), ~u.speak
  PROVE  /\ Silent(u, t, c, i, r, d)
         /\ t.flight.kind = "None" /\ ~t.writing /\ t.state \in {"Idle", "Finished"}
         /\ c = <<>> /\ ~Replying(r)
<1>1. Silent(u, t, c, i, r, d)
  BY DEF Exchange, Between, Stuck, Flying
<1> QED BY <1>1 DEF Silent, Nothing

(* The speaker polls. *)
LEMMA SpeakerPolls ==
  ASSUME TurnType, Conversation, NEW p \in Peers, NEW q, NEW rs, NEW ts,
         NEW v, NEW w, NEW x, NEW r, NEW ro, NEW g,
         Polling(p, q, rs, ts, v, w, x, r, ro, g),
         Kept(p, q, v, w, r) \/ Closes(p, q, v, w, r), Alone(p)
  PROVE  Conversation' /\ turn'[p].speak
<1>0. /\ q = Other(p) /\ q \in Peers /\ Other(q) = p
      /\ turn[p].speak /\ ~turn[q].speak /\ ~FinishAcked(p)
      /\ v.speak = turn[p].speak
      /\ Fresh(turn[p], pump[p].tx, v, w, ctl[p])
      /\ turn'[q] = turn[q] /\ pump'[p] = r.pump
  BY PeerFacts DEF Polling, Alone, Changes
<1>1. pump[q].tx.flight.kind = "None"
  <2>1. Exchange(turn[q], pump[q].tx, ctl[q], pay[p], pump[p].rx, Arrived(q))
    BY <1>0 DEF Conversation, Says
  <2>2. PICK u, t, c, i, y, d :
          /\ u = turn[q] /\ t = pump[q].tx /\ c = ctl[q] /\ i = pay[p]
          /\ y = pump[p].rx /\ d = Arrived(q)
    OBVIOUS
  <2>3. t.flight.kind = "None"
    BY <1>0, <2>1, <2>2, ListenerIsSilent
  <2> QED BY <2>2, <2>3
<1>2. ro # "Deliver" /\ ro # "Finished"
  BY <1>1 DEF Polling, Heard, RxKept
<1>3. Kept(p, q, v, w, r)
  BY <1>0 DEF Closes, Closing, FinishAcked, Fresh
<1>4. turn'[p] = v /\ (Floor' => Conversation')
  BY <1>2, <1>3, TurnStays
<1>5. ~FinishAcked(p)'
  <2> SUFFICES ASSUME r.pump.tx.flight.kind = "Finish", ctl'[p] # <<>>,
                      Head(ctl'[p]).type = "Ack"
               PROVE  FALSE
    BY <1>0 DEF FinishAcked
  <2>1. ctl'[p] = ctl[p] /\ w.flight.kind = "Finish"
    BY <1>3 DEF Kept, TxKept
  <2>2. w = pump[p].tx
    BY <1>0, <2>1 DEF Fresh
  <2> QED BY <1>0, <2>1, <2>2 DEF FinishAcked
<1>6. Alone(p)'
  BY <1>0, <1>4, <1>5 DEF Alone
<1> QED BY <1>0, <1>4, <1>6 DEF Floor

(* A sender without a flight does nothing. *)
LEMMA NothingToSend ==
  ASSUME NEW w, w.flight.kind = "None", ~w.writing, NEW ts \in TxSteps, NEW c, NEW calm,
         TxCan(w, ts, c, calm), NEW w2, w2 = AfterTx(w, ts, c)
  PROVE  w2 = w
<1>1. ts = "none"
  <2>1. ts = "none" \/ ts = "begin" \/ ts = "end" \/ ts = "read" \/ ts = "tick"
    BY DEF TxSteps
  <2>2. ~WantsWrite(w) /\ ~Waits(w)
    BY DEF WantsWrite, Waits, InFlight
  <2>3. ts # "begin"
    BY <2>2 DEF TxCan
  <2>4. ts # "end"
    BY DEF TxCan
  <2>5. ts # "read"
    BY <2>2 DEF TxCan
  <2>6. ts # "tick"
    BY <2>2 DEF TxCan
  <2> QED BY <2>1, <2>3, <2>4, <2>5, <2>6
<1> QED BY <1>1 DEF AfterTx

(* The other one polls while it listens.                                   *)
LEMMA ListenerPolls ==
  ASSUME TurnType, Conversation, NEW p \in Peers, NEW q, NEW rs \in RxSteps, NEW ts \in TxSteps,
         NEW v, NEW w, NEW x, NEW r, NEW ro, NEW g,
         Polling(p, q, rs, ts, v, w, x, r, ro, g),
         Kept(p, q, v, w, r) \/ Closes(p, q, v, w, r), Alone(q)
  PROVE  Conversation'
<1>0. /\ q = Other(p) /\ q \in Peers /\ Other(q) = p
      /\ turn[q].speak /\ ~turn[p].speak /\ ~FinishAcked(q)
      /\ v.speak = turn[p].speak
      /\ turn'[q] = turn[q] /\ pump'[p] = r.pump /\ pump'[q] = pump[q]
      /\ pushed' = pushed
  BY PeerFacts DEF Polling, Alone, Changes
<1>1. v = turn[p] /\ w = pump[p].tx
  BY <1>0 DEF Polling, DriveOutcome, StartOffered, DataOffered, FinishOffered
<1>2. /\ Silent(v, w, ctl[p], pay[q], pump[q].rx, Arrived(p))
      /\ w.flight.kind = "None" /\ ~w.writing /\ w.state \in {"Idle", "Finished"}
      /\ ctl[p] = <<>> /\ ~Replying(pump[q].rx)
  <2>1. PICK c, i, y, d :
          c = ctl[p] /\ i = pay[q] /\ y = pump[q].rx /\ d = Arrived(p)
    OBVIOUS
  <2>2. Exchange(v, w, c, i, y, d) /\ ~v.speak
    BY <1>0, <2>1 DEF Polling
  <2>3. /\ Silent(v, w, c, i, y, d)
        /\ w.flight.kind = "None" /\ ~w.writing /\ w.state \in {"Idle", "Finished"}
        /\ c = <<>> /\ ~Replying(y)
    BY <2>2, ListenerIsSilent
  <2> QED BY <2>1, <2>3
<1>3. Kept(p, q, v, w, r)
  BY <1>0 DEF Closes, Closing
<1>4. r.pump.tx = w
  <2>1. TxCan(w, ts, ctl[p], Calm(p)) /\ r.pump.tx = AfterTx(w, ts, ctl[p])
    BY DEF Polling, PumpAfter
  <2>2. PICK c, calm, w2 : c = ctl[p] /\ calm = Calm(p) /\ w2 = r.pump.tx
    OBVIOUS
  <2>3. w2 = w
    BY <1>2, <2>1, <2>2, NothingToSend
  <2> QED BY <2>2, <2>3
<1>5. CASE ro # "Finished"
  <2>1. turn'[p] = v /\ (Floor' => Conversation')
    BY <1>2, <1>3, <1>4, <1>5, TurnStays
  <2>2. ~FinishAcked(q)'
    <3>1. (/\ pump[q].tx.flight.kind = "Finish" /\ ctl'[q] # <<>>
           /\ Head(ctl'[q]).type = "Ack") => ctl'[q] = ctl[q]
      BY <1>5 DEF Polling, Heard, RxKept
    <3> QED BY <1>0, <3>1 DEF FinishAcked
  <2>3. Alone(q)'
    BY <1>0, <2>1, <2>2 DEF Alone
  <2> QED BY <1>0, <2>1, <2>3 DEF Floor
<1>6. CASE ro = "Finished"
  <2>1. /\ EventIs(r.pump.tx, ro, r.event) /\ ~r.pump.pending_completed
        /\ r.pump.tx_done_seen <=> r.pump.tx.state = "Finished"
        /\ InOrder(p)' /\ InOrder(q)' /\ Says(q)'
    BY <1>3, <1>6, QuietPoll
  <2>2. r.event = "Completed"
    BY <1>2, <1>4, <1>6, <2>1 DEF EventIs
  <2>3. turn'[p] = [Rewind(v) EXCEPT !.speak = TRUE]
    BY <1>0, <2>2 DEF Polling, Changes, OnEvent
  <2>4. /\ turn'[p].speak /\ turn'[p].need_start /\ turn'[p].index = 0
        /\ ~turn'[p].finish_offered /\ turn'[p].buf = v.buf
    <3>1. v \in TurnRec
      BY DEF Polling
    <3>2. PICK n : n = Rewind(v)
      OBVIOUS
    <3>3. n = [v EXCEPT !.need_start = TRUE, !.index = 0, !.finish_offered = FALSE]
      BY <3>2 DEF Rewind
    <3>4. n \in TurnRec /\ n.index = 0 /\ n.buf = v.buf
      BY <3>1, <3>3 DEF TurnRec
    <3>5. n.need_start = TRUE /\ n.finish_offered = FALSE
      BY <3>1, <3>3, Zenon DEF TurnRec
    <3>6. PICK m : m = [n EXCEPT !.speak = TRUE]
      OBVIOUS
    <3>7. m.index = n.index /\ m.buf = n.buf
      BY <3>4, <3>6 DEF TurnRec
    <3>8. /\ m.speak = TRUE /\ m.need_start = n.need_start
          /\ m.finish_offered = n.finish_offered
      BY <3>4, <3>6, Zenon DEF TurnRec
    <3> QED BY <2>3, <3>2, <3>4, <3>5, <3>6, <3>7, <3>8
  <2>5. /\ Queued(p)' /\ Queued(q)'
        /\ Len(got'[q]) - (pushed'[p] - Len(turn'[p].buf)) = Arrived(p)
    BY <2>4, OwnTurn
  <2>6. Exchange(v, w, ctl'[p], pay'[q], pump[q].rx, Arrived(p))
    BY <1>3, <1>4 DEF Kept, TxKept
  <2>7. Exchange(turn'[p], w, ctl'[p], pay'[q], pump[q].rx, Arrived(p))
    <3>1. PICK m, c, i, y, d : /\ m = turn'[p] /\ c = ctl'[p] /\ i = pay'[q]
                               /\ y = pump[q].rx /\ d = Arrived(p)
      OBVIOUS
    <3>2. Silent(v, w, c, i, y, d)
      BY <1>0, <2>6, <3>1, ListenerIsSilent
    <3>3. Silent(m, w, c, i, y, d)
      BY <2>4, <3>1, <3>2 DEF Silent
    <3> QED BY <3>1, <3>3 DEF Exchange
  <2>8. Says(p)'
    BY <1>0, <1>4, <2>5, <2>7, SaysNext
  <2>9. Handing(q)'
    <3>1. /\ pump[q].tx.flight.kind = "Finish" /\ ctl'[q] # <<>>
          /\ Head(ctl'[q]).type = "Ack"
      BY <1>6 DEF Polling, Heard, RxKept
    <3>2. FinishAcked(q)'
      BY <1>0, <3>1 DEF FinishAcked
    <3>3. ctl'[p] = <<>>
      BY <1>2, <1>3 DEF Kept, TxKept
    <3> QED BY <1>0, <1>2, <2>4, <3>2, <3>3 DEF Handing
  <2>10. Floor'
    BY <1>0, <2>9 DEF Floor
  <2> QED BY <2>1, <2>5, <2>8, <2>10, PollConverses
<1> QED BY <1>5, <1>6

(* A FINISH whose ACK has come back: the sender can only wait or read it.  *)
LEMMA LastAck ==
  ASSUME NEW u, NEW t \in TxType, NEW c \in Seq(Frame), NEW i, NEW r, NEW d,
         Exchange(u, t, c, i, r, d), t.flight.kind = "Finish",
         c # <<>>, Head(c).type = "Ack"
  PROVE  /\ Waits(t) /\ ~Replying(r) /\ t.state # "Finished" /\ u.finish_offered
         /\ Head(c) \in Frame /\ Head(c).seq = t.flight.seq
<1>1. Flying(u, t, c, i, r, d)
  BY DEF Exchange, Silent, Between, Stuck
<1>2. Answered(u, t, c, i, r, d)
  <2>1. Rejected(u, t, c, i, r, d) \/ Answered(u, t, c, i, r, d)
    BY <1>1, WhichStage
  <2>2. CASE Rejected(u, t, c, i, r, d)
    <3>1. Len(c) = 1 /\ c[1].type = "Nack"
      BY <2>2 DEF Rejected
    <3>2. Head(c) = c[1]
      BY <3>1, OneLong
    <3> QED BY <3>1, <3>2
  <2> QED BY <2>1, <2>2
<1>3. /\ Waits(t) /\ ~Replying(r)
      /\ c = <<MkFrame("Ack", t.flight.seq, t.flight.sess, t.flight.pos)>>
  BY <1>2 DEF Answered
<1>4. Head(c) \in Frame /\ Head(c).seq = t.flight.seq
  BY <1>3, TailFacts DEF MkFrame
<1> QED BY <1>1, <1>3, <1>4 DEF Flying, Offered

LEMMA LastAckRead ==
  ASSUME NEW t \in TxType, Waits(t), t.flight.kind = "Finish", NEW c,
         Head(c).type = "Ack", Head(c).seq = t.flight.seq, c # <<>>,
         NEW ts \in TxSteps, NEW calm, TxCan(t, ts, c, calm),
         NEW w, w = AfterTx(t, ts, c)
  PROVE  \/ ts = "none" /\ w = t
         \/ ts = "read" /\ w.state = "Finished" /\ w.flight.kind = "None"
<1>1. ~WantsWrite(t) /\ ~t.writing
  BY DEF WantsWrite, Waits
<1>2. ts = "none" \/ ts = "read"
  <2>1. ts = "none" \/ ts = "begin" \/ ts = "end" \/ ts = "read" \/ ts = "tick"
    BY DEF TxSteps
  <2>2. ts # "begin"
    BY <1>1 DEF TxCan
  <2>3. ts # "end"
    BY <1>1 DEF TxCan
  <2>4. ts # "tick"
    BY DEF TxCan
  <2> QED BY <2>1, <2>2, <2>3, <2>4
<1>3. CASE ts = "none"
  BY <1>3 DEF AfterTx
<1>4. CASE ts = "read"
  <2>1. w = OnControl(t, Head(c))
    BY <1>4 DEF AfterTx
  <2>2. w = OnAck(t)
    BY <2>1 DEF OnControl, Answers
  <2> QED BY <1>4, <2>2, AckFields
<1> QED BY <1>2, <1>3, <1>4

(* While the turn changes hands, the other peer has said nothing yet but   *)
(* START.                                                                  *)
LEMMA OnlyStart ==
  ASSUME NEW u, NEW t, NEW c, NEW i, NEW r, NEW d, Exchange(u, t, c, i, r, d),
         u.need_start \/ t.state = "Failed" \/ t.flight.kind = "Start"
  PROVE  t.flight.kind = "None" \/ t.flight.kind = "Start"
BY DEF Exchange, Silent, Between, Stuck, Flying

(* The exchanges of the two peers when p's FINISH is accepted.             *)
LEMMA HandingFacts ==
  ASSUME TurnType, Conversation, NEW p \in Peers, NEW q, q = Other(p), Handing(p)
  PROVE  /\ Waits(pump[p].tx) /\ ~Replying(pump[q].rx)
         /\ pump[p].tx.state # "Finished" /\ turn[p].finish_offered
         /\ pump[p].tx.flight.kind = "Finish" /\ ctl[p] # <<>>
         /\ Head(ctl[p]) \in Frame /\ Head(ctl[p]).type = "Ack"
         /\ Head(ctl[p]).seq = pump[p].tx.flight.seq
         /\ pump[q].tx.flight.kind \in {"None", "Start"}
<1>0. q \in Peers /\ Other(q) = p
  BY PeerFacts
<1>1. /\ pump[p].tx.flight.kind = "Finish" /\ ctl[p] # <<>>
      /\ Head(ctl[p]).type = "Ack"
      /\ turn[q].need_start \/ pump[q].tx.state = "Failed"
           \/ pump[q].tx.flight.kind = "Start"
  BY DEF Handing, FinishAcked
<1>2. /\ Waits(pump[p].tx) /\ ~Replying(pump[q].rx)
      /\ pump[p].tx.state # "Finished" /\ turn[p].finish_offered
      /\ Head(ctl[p]) \in Frame /\ Head(ctl[p]).seq = pump[p].tx.flight.seq
  <2>1. PICK u, t, c, i, r, d :
          /\ u = turn[p] /\ t = pump[p].tx /\ c = ctl[p] /\ i = pay[q]
          /\ r = pump[q].rx /\ d = Arrived(p)
    OBVIOUS
  <2>2. t \in TxType /\ c \in Seq(Frame)
    BY <2>1, PumpFields DEF TurnType
  <2>3. Exchange(u, t, c, i, r, d)
    BY <2>1 DEF Conversation, Says
  <2> QED BY <1>1, <2>1, <2>2, <2>3, LastAck
<1>3. pump[q].tx.flight.kind = "None" \/ pump[q].tx.flight.kind = "Start"
  <2>1. PICK u, t, c, i, r, d :
          /\ u = turn[q] /\ t = pump[q].tx /\ c = ctl[q] /\ i = pay[p]
          /\ r = pump[p].rx /\ d = Arrived(q)
    OBVIOUS
  <2>2. Exchange(u, t, c, i, r, d)
    BY <1>0, <2>1 DEF Conversation, Says
  <2> QED BY <1>1, <2>1, <2>2, OnlyStart
<1> QED BY <1>1, <1>2, <1>3

(* The peer that hands over polls: its sender waits, and it writes no      *)
(* reply before its sender has moved.                                      *)
LEMMA HanderWaits ==
  ASSUME TurnType, Conversation, NEW p \in Peers, NEW q,
         NEW rs \in RxSteps, NEW ts \in TxSteps,
         NEW v, NEW w, NEW x, NEW r, NEW ro, NEW g,
         Polling(p, q, rs, ts, v, w, x, r, ro, g), Kept(p, q, v, w, r), Handing(p)
  PROVE  Conversation' /\ turn'[p].speak
<1>0. /\ q = Other(p) /\ q \in Peers /\ Other(q) = p /\ q # p
      /\ turn[p].speak /\ turn[q].speak /\ FinishAcked(p)
      /\ turn[q].index = 0 /\ ctl[q] = <<>>
      /\ turn[q].need_start \/ pump[q].tx.state = "Failed"
           \/ pump[q].tx.flight.kind = "Start"
      /\ Replying(pump[p].rx) => behind[p]
  BY PeerFacts DEF Polling, Handing
<1>1. /\ Waits(pump[p].tx) /\ pump[p].tx.state # "Finished"
      /\ pump[p].tx.flight.kind = "Finish" /\ ctl[p] # <<>>
      /\ Head(ctl[p]).type = "Ack"
      /\ Head(ctl[p]).seq = pump[p].tx.flight.seq
      /\ pump[q].tx.flight.kind \in {"None", "Start"}
  BY <1>0, HandingFacts
<1>2. w = pump[p].tx /\ v.speak = turn[p].speak
  BY <1>1 DEF Polling, Fresh
<1>3. ts = "none" /\ r.pump.tx = pump[p].tx
  <2>1. PICK t, c, calm, w2 : /\ t = pump[p].tx /\ c = ctl[p] /\ calm = Calm(p)
                              /\ w2 = r.pump.tx
    OBVIOUS
  <2>2. t \in TxType /\ TxCan(t, ts, c, calm) /\ w2 = AfterTx(t, ts, c)
    BY <1>2, <2>1 DEF Polling, PumpAfter, SenderTyped
  <2>3. \/ ts = "none" /\ w2 = t
        \/ ts = "read" /\ w2.state = "Finished" /\ w2.flight.kind = "None"
    BY <1>1, <2>1, <2>2, LastAckRead
  <2>4. w2.state # "Finished"
    BY <1>1, <1>2, <2>1 DEF Kept, TxKept
  <2> QED BY <2>1, <2>3, <2>4
<1>4. /\ rs = "reply" => ~behind[p] \/ ts # "none"
      /\ behind' = [behind EXCEPT ![p] =
           IF rs = "read"
             THEN /\ Replying(r.pump.rx)
                  /\ \/ r.pump.tx.writing
                     \/ Waits(r.pump.tx) /\ ts # "read" /\ ctl[p] # <<>>
             ELSE @ /\ ts = "none" /\ rs # "reply"]
  BY Zenon DEF Polling, InStep
<1>5. /\ ctl'[p] = ctl[p] /\ (rs = "reply" => Replying(pump[p].rx))
      /\ rs # "reply" => ctl'[q] = ctl[q]
  BY <1>3 DEF Polling, Rings
<1>6. rs # "reply" /\ ro = "Pending" /\ ctl'[q] = <<>>
  <2>1. rs # "reply"
    BY <1>0, <1>3, <1>4, <1>5
  <2> QED BY <1>0, <1>5, <2>1 DEF Polling, RxOutcome
<1>7. turn'[p] = v /\ (Floor' => Conversation')
  BY <1>6, TurnStays
<1>8. Replying(r.pump.rx) => behind'[p]
  <2>1. behind \in [Peers -> BOOLEAN]
    BY DEF TurnType
  <2>2. CASE rs = "read"
    <3>1. behind'[p] <=> /\ Replying(r.pump.rx)
                         /\ \/ r.pump.tx.writing
                            \/ Waits(r.pump.tx) /\ ts # "read" /\ ctl[p] # <<>>
      <4>1. behind' = [behind EXCEPT ![p] =
               /\ Replying(r.pump.rx)
               /\ \/ r.pump.tx.writing
                  \/ Waits(r.pump.tx) /\ ts # "read" /\ ctl[p] # <<>>]
        BY <1>4, <2>2, Zenon
      <4> QED BY <2>1, <4>1, Zenon
    <3> QED BY <1>1, <1>3, <3>1
  <2>3. CASE rs # "read"
    <3>1. rs = "none"
      BY <1>6, <2>3 DEF RxSteps
    <3>2. r.pump.rx = pump[p].rx
      BY <3>1 DEF Polling, PumpAfter, AfterRx
    <3>3. behind'[p] <=> behind[p] /\ ts = "none" /\ rs # "reply"
      <4>1. behind' = [behind EXCEPT ![p] = @ /\ ts = "none" /\ rs # "reply"]
        BY <1>4, <2>3, Zenon
      <4> QED BY <2>1, <4>1, Zenon
    <3> QED BY <1>0, <1>3, <3>1, <3>2, <3>3
  <2> QED BY <2>2, <2>3
<1>9. /\ turn'[q] = turn[q] /\ pump'[p] = r.pump /\ pump'[q] = pump[q]
  BY DEF Polling, Changes
<1>10. FinishAcked(p)'
  BY <1>1, <1>3, <1>5, <1>9 DEF FinishAcked
<1>11. Handing(p)'
  BY <1>0, <1>2, <1>6, <1>7, <1>8, <1>9, <1>10 DEF Handing
<1> QED BY <1>0, <1>2, <1>7, <1>11 DEF Floor

(* Or its sender reads the ACK, and the turn is the other's.               *)
LEMMA HanderYields ==
  ASSUME TurnType, Conversation, NEW p \in Peers, NEW q,
         NEW rs \in RxSteps, NEW ts \in TxSteps,
         NEW v, NEW w, NEW x, NEW r, NEW ro, NEW g,
         Polling(p, q, rs, ts, v, w, x, r, ro, g), Closes(p, q, v, w, r), Handing(p)
  PROVE  Conversation' /\ turn[p].finish_offered
<1>0. /\ q = Other(p) /\ q \in Peers /\ Other(q) = p /\ q # p
      /\ turn[p].speak /\ turn[q].speak
      /\ turn'[q] = turn[q] /\ pump'[p] = r.pump /\ pump'[q] = pump[q]
      /\ pushed' = pushed /\ got'[q] = got[q]
      /\ turn'[p] = OnEvent(v, r.event)
  BY PeerFacts DEF Polling, Handing, Changes
<1>1. /\ pump[p].tx.state # "Finished" /\ turn[p].finish_offered
      /\ ctl[p] # <<>> /\ pump[q].tx.flight.kind \in {"None", "Start"}
  BY <1>0, HandingFacts
<1>2. w = pump[p].tx /\ v.speak = turn[p].speak /\ v.buf = turn[p].buf /\ v \in TurnRec
  BY <1>1 DEF Polling, Fresh
<1>3. /\ ctl'[p] = <<>> /\ pay'[q] = pay[q] /\ Nothing(ctl'[p], pay'[q], pump[q].rx)
      /\ r.pump.tx.flight.kind = "None" /\ ~r.pump.tx.writing
      /\ r.pump.tx.state = "Finished" /\ Arrived(p) = Len(v.buf)
  BY DEF Closes, Closing
<1>4. ro \in {"Pending", "Started", "CrcRejected"}
  BY <1>1 DEF Polling, Heard, RxKept
<1>5. /\ r.event = "Completed" /\ r.pump.tx_done_seen /\ ~r.pump.pending_completed
  <2>1. ~x.tx_done_seen
    BY <1>1 DEF Polling, Conversation, Orderly
  <2>2. PICK ev, to : ev = r.event /\ to = TxOutcome(w, r.pump.tx)
    OBVIOUS
  <2>3. to = "TransferDone"
    BY <1>3, <2>2 DEF TxOutcome
  <2>4. /\ ev = PumpEvent(x, ro, to)
        /\ r.pump.tx_done_seen = (IF ev = "Err" THEN x.tx_done_seen
                                  ELSE to = "TransferDone")
        /\ r.pump.pending_completed = (ev = "Received" /\ DoneEdge(x, to))
    BY <2>2, Zenon DEF Polling, PumpAfter
  <2>5. ev = "Completed"
    BY <1>4, <2>1, <2>3, <2>4 DEF PumpEvent, DoneEdge
  <2>6. ev # "Err" /\ ev # "Received"
    BY <2>5
  <2> QED BY <2>2, <2>3, <2>4, <2>5, <2>6, Zenon
<1>6. /\ ~turn'[p].speak /\ turn'[p].need_start /\ turn'[p].index = 0
      /\ ~turn'[p].finish_offered /\ turn'[p].buf = <<>>
  <2>1. turn'[p] = [Rewind(v) EXCEPT !.speak = FALSE, !.buf = <<>>]
    BY <1>0, <1>2, <1>5 DEF OnEvent
  <2>2. PICK n : n = Rewind(v)
    OBVIOUS
  <2>3. n = [v EXCEPT !.need_start = TRUE, !.index = 0, !.finish_offered = FALSE]
    BY <2>2 DEF Rewind
  <2>4. n \in TurnRec /\ n.index = 0
    BY <1>2, <2>3 DEF TurnRec
  <2>5. n.need_start = TRUE /\ n.finish_offered = FALSE
    BY <1>2, <2>3, Zenon DEF TurnRec
  <2>6. PICK m : m = [n EXCEPT !.speak = FALSE, !.buf = <<>>]
    OBVIOUS
  <2>7. m.index = n.index /\ m.buf = <<>>
    BY <2>4, <2>6 DEF TurnRec
  <2>8. /\ m.speak = FALSE /\ m.need_start = n.need_start
        /\ m.finish_offered = n.finish_offered
    BY <2>4, <2>6, Zenon DEF TurnRec
  <2> QED BY <2>1, <2>2, <2>4, <2>5, <2>6, <2>7, <2>8
<1>7. Queued(p)' /\ Queued(q)'
  <2>1. Queued(q)'
    BY <1>0 DEF Conversation, Queued, Gone
  <2>2. pushed[p] \in Nat
    BY DEF TurnType
  <2>3. Len(turn'[p].buf) = 0
    BY <1>6
  <2>4. Queued(p)'
    BY <1>0, <2>2, <2>3 DEF Queued, Gone
  <2> QED BY <2>1, <2>4
<1>8. Says(p)'
  <2>1. Len(got'[q]) - (pushed'[p] - Len(turn'[p].buf)) = 0
    <3>1. /\ Len(got[q]) \in Nat /\ pushed[p] \in Nat /\ Len(turn[p].buf) \in Nat
          /\ Len(got[q]) - (pushed[p] - Len(turn[p].buf)) = Len(turn[p].buf)
      BY <1>0, <1>2, <1>3, SMTT(30) DEF TurnType, TurnRec, Arrived, Gone
    <3>2. Len(turn'[p].buf) = 0
      BY <1>6
    <3>3. Len(got[q]) - (pushed[p] - 0) = 0
      BY <3>1
    <3> QED BY <1>0, <3>2, <3>3
  <2>2. PICK m, t, c, i, y : /\ m = turn'[p] /\ t = r.pump.tx /\ c = ctl'[p]
                             /\ i = pay'[q] /\ y = pump[q].rx
    OBVIOUS
  <2>3. Silent(m, t, c, i, y, 0)
    BY <1>3, <1>6, <2>2 DEF Silent
  <2>4. Exchange(m, t, c, i, y, 0)
    BY <2>3 DEF Exchange
  <2> QED BY <1>0, <2>1, <2>2, <2>4, SaysNext
<1>9. /\ InOrder(p)' /\ InOrder(q)'
      /\ Len(got'[p]) - (pushed[q] - Len(turn[q].buf)) = g
  BY <1>4, <1>5, PolledBytes
<1>10. Says(q)'
  <2>1. Exchange(turn[q], pump[q].tx, ctl'[q], pay'[p], r.pump.rx, g)
    BY DEF Polling, Heard, RxKept
  <2> QED BY <1>0, <1>9, <2>1, SaysNext
<1>11. Alone(q)'
  BY <1>0, <1>1, <1>6 DEF Alone, FinishAcked
<1>12. Floor'
  BY <1>0, <1>11 DEF Floor
<1> QED BY <1>1, <1>3, <1>5, <1>7, <1>8, <1>9, <1>10, <1>12, PollConverses

(* The other one polls meanwhile: all it can say is START.                 *)
LEMMA StarterDrives ==
  ASSUME NEW u \in TurnRec, NEW t \in TxType, NEW c, NEW i, NEW r, NEW d, NEW v, NEW w,
         Exchange(u, t, c, i, r, d), DriveOutcome(u, t, v, w), u.index = 0,
         u.need_start \/ t.state = "Failed" \/ t.flight.kind = "Start"
  PROVE  /\ v.index = 0
         /\ (v.need_start /\ w = t /\ v = u) \/ w.flight.kind = "Start"
              \/ (w.state = "Failed" /\ w.flight.kind = "None" /\ ~w.writing)
<1>1. CASE v = u /\ w = t
  <2>1. t.state = "Failed" => t.flight.kind = "None" /\ ~t.writing
    BY DEF Exchange, Silent, Between, Stuck, Flying
  <2> QED BY <1>1, <2>1
<1>2. CASE StartOffered(u, t, v, w)
  <2>1. v.index = 0
    BY <1>2, DriveFields
  <2>2. w.flight.kind = "Start"
    BY <1>2 DEF StartOffered, OfferStart, Begin, TxType
  <2> QED BY <2>1, <2>2
<1>3. CASE DataOffered(u, t, v, w) \/ FinishOffered(u, t, v, w)
  BY <1>3 DEF DataOffered, FinishOffered, CanOfferData, InFlight
<1> QED BY <1>1, <1>2, <1>3 DEF DriveOutcome

LEMMA StarterPolls ==
  ASSUME TurnType, Conversation, NEW p \in Peers, NEW q,
         NEW rs \in RxSteps, NEW ts \in TxSteps,
         NEW v, NEW w, NEW x, NEW r, NEW ro, NEW g,
         Polling(p, q, rs, ts, v, w, x, r, ro, g),
         Kept(p, q, v, w, r) \/ Closes(p, q, v, w, r), Handing(q)
  PROVE  Conversation' /\ turn'[p].speak
<1>0. /\ q = Other(p) /\ q \in Peers /\ Other(q) = p /\ q # p
      /\ turn[p].speak /\ turn[q].speak /\ FinishAcked(q)
      /\ turn[p].index = 0 /\ ctl[p] = <<>>
      /\ turn[p].need_start \/ pump[p].tx.state = "Failed"
           \/ pump[p].tx.flight.kind = "Start"
      /\ Replying(pump[q].rx) => behind[q]
  BY PeerFacts DEF Polling, Handing
<1>1. ~Replying(pump[p].rx)
  BY <1>0, HandingFacts
<1>2. Kept(p, q, v, w, r)
  BY <1>0 DEF Closes, Closing
<1>3. rs # "reply" /\ ro = "Pending" /\ ctl'[q] = ctl[q]
  BY <1>1 DEF Polling, Rings, RxOutcome
<1>4. turn'[p] = v /\ (Floor' => Conversation')
  BY <1>2, <1>3, TurnStays
<1>5. /\ v.index = 0 /\ v.speak = turn[p].speak
      /\ (v.need_start /\ w = pump[p].tx) \/ w.flight.kind = "Start"
           \/ (w.state = "Failed" /\ w.flight.kind = "None" /\ ~w.writing)
  <2>1. PICK u, t, c, i, y, d :
          /\ u = turn[p] /\ t = pump[p].tx /\ c = ctl[p] /\ i = pay[q]
          /\ y = pump[q].rx /\ d = Arrived(p)
    OBVIOUS
  <2>2. u \in TurnRec /\ t \in TxType
    BY <2>1, PumpFields DEF TurnType
  <2>3. Exchange(u, t, c, i, y, d) /\ DriveOutcome(u, t, v, w)
    BY <1>0, <2>1 DEF Conversation, Says, Polling
  <2>4. /\ v.index = 0
        /\ (v.need_start /\ w = t /\ v = u) \/ w.flight.kind = "Start"
              \/ (w.state = "Failed" /\ w.flight.kind = "None" /\ ~w.writing)
    BY <1>0, <2>1, <2>2, <2>3, StarterDrives
  <2> QED BY <2>1, <2>4 DEF Polling
<1>6. v.need_start \/ r.pump.tx.state = "Failed" \/ r.pump.tx.flight.kind = "Start"
  <2>1. CASE w.flight.kind = "Start"
    BY <1>0, <1>2, <2>1 DEF Kept, TxKept
  <2>2. CASE w.state = "Failed" /\ w.flight.kind = "None" /\ ~w.writing
    <3>1. PICK c, calm, w2 : c = ctl[p] /\ calm = Calm(p) /\ w2 = r.pump.tx
      OBVIOUS
    <3>2. TxCan(w, ts, c, calm) /\ w2 = AfterTx(w, ts, c)
      BY <3>1 DEF Polling, PumpAfter
    <3>3. w2 = w
      BY <2>2, <3>2, NothingToSend
    <3> QED BY <2>2, <3>1, <3>3
  <2> QED BY <1>5, <2>1, <2>2
<1>7. ctl'[p] = <<>>
  BY <1>0, <1>2 DEF Kept, TxKept
<1>8. /\ turn'[q] = turn[q] /\ pump'[p] = r.pump /\ pump'[q] = pump[q]
      /\ behind'[q] = behind[q]
  BY DEF Polling, Changes
<1>9. FinishAcked(q)'
  BY <1>0, <1>3, <1>8 DEF FinishAcked
<1>10. Handing(q)'
  BY <1>0, <1>4, <1>5, <1>6, <1>7, <1>8, <1>9 DEF Handing
<1> QED BY <1>0, <1>4, <1>5, <1>10 DEF Floor

(* Every poll. *)
LEMMA PollKeeps ==
  ASSUME TurnType, TurnTaking, Conversation, NEW p \in Peers,
         NEW rs \in RxSteps, NEW ts \in TxSteps, Poll(p, rs, ts)
  PROVE  /\ Conversation'
         /\ \A l \in Peers : turn[l].speak /\ ~turn'[l].speak => turn[l].finish_offered
<1>1. PICK q : q = Other(p)
  OBVIOUS
<1>2. PICK v, w, x, r, ro, g : /\ Polling(p, q, rs, ts, v, w, x, r, ro, g)
                               /\ Kept(p, q, v, w, r) \/ Closes(p, q, v, w, r)
  BY <1>1, PollIs
<1>3. /\ Conversation'
      /\ turn[p].speak /\ ~turn'[p].speak => turn[p].finish_offered
  <2>1. Alone(p) \/ Alone(q) \/ Handing(p) \/ Handing(q)
    BY <1>1, PeerFacts DEF Conversation, Floor
  <2>2. CASE Alone(p)
    BY <1>2, <2>2, SpeakerPolls
  <2>3. CASE Alone(q)
    <3>1. ~turn[p].speak
      BY <1>1, <2>3, PeerFacts DEF Alone
    <3> QED BY <1>2, <2>3, <3>1, ListenerPolls
  <2>4. CASE Handing(p)
    BY <1>2, <2>4, HanderWaits, HanderYields
  <2>5. CASE Handing(q)
    BY <1>2, <2>5, StarterPolls
  <2> QED BY <2>1, <2>2, <2>3, <2>4, <2>5
<1>4. \A l \in Peers : l = p \/ turn'[l] = turn[l]
  BY <1>1, <1>2, PeerFacts DEF Polling, Changes
<1> QED BY <1>3, <1>4

(* The other steps. *)
LEMMA PushKeeps ==
  ASSUME TurnType, Conversation, NEW p \in Peers, Push(p)
  PROVE  /\ Conversation'
         /\ \A l \in Peers : turn[l].speak /\ ~turn'[l].speak => turn[l].finish_offered
<1>0. /\ turn[p] \in TurnRec /\ pushed[p] \in Nat
      /\ UNCHANGED <<pump, ctl, pay, garbled, behind, got, faults, aborts>>
      /\ ~turn[p].finish_offered /\ turn[p].buf \in Seq(Nat)
  BY DEF TurnType, TurnRec, Push
<1>1. PICK n \in Nat : n = pushed[p] + 1
  BY <1>0
<1>2. PICK b : b = Append(turn[p].buf, n)
  OBVIOUS
<1>3. /\ b \in Seq(Nat) /\ Len(b) = Len(turn[p].buf) + 1 /\ b # <<>>
      /\ \A k \in 1 .. Len(turn[p].buf) : b[k] = turn[p].buf[k]
      /\ b[Len(turn[p].buf) + 1] = n
  BY <1>0, <1>2
<1>4. PICK u : u = [turn[p] EXCEPT !.buf = b]
  OBVIOUS
<1>5. /\ u.buf = b /\ u.index = turn[p].index
      /\ u.speak = turn[p].speak /\ u.need_start = turn[p].need_start
      /\ u.finish_offered = turn[p].finish_offered
  <2>1. u.buf = b /\ u.index = turn[p].index
    BY <1>0, <1>4 DEF TurnRec
  <2>2. /\ u.speak = turn[p].speak /\ u.need_start = turn[p].need_start
        /\ u.finish_offered = turn[p].finish_offered
    BY <1>0, <1>4, Zenon DEF TurnRec
  <2> QED BY <2>1, <2>2
<1>6. turn'[p] = u /\ \A l \in Peers : l # p => turn'[l] = turn[l]
  <2>1. turn' = [turn EXCEPT ![p] = u]
    BY <1>1, <1>2, <1>4, Zenon DEF Push
  <2> QED BY <2>1 DEF TurnType
<1>7. pushed'[p] = n /\ \A l \in Peers : l # p => pushed'[l] = pushed[l]
  BY <1>1 DEF Push, TurnType
<1>8. /\ Gone(p)' = Gone(p) /\ Arrived(p)' = Arrived(p)
      /\ \A l \in Peers : l # p => Gone(l)' = Gone(l) /\ Arrived(l)' = Arrived(l)
  <2>1. pushed'[p] - Len(turn'[p].buf) = pushed[p] - Len(turn[p].buf)
    <3>1. PICK m, k : m = pushed[p] /\ k = Len(turn[p].buf)
      OBVIOUS
    <3>4. m \in Nat /\ k \in Nat
      BY <1>0, <3>1
    <3>2. (m + 1) - (k + 1) = m - k
      BY <3>4
    <3>3. pushed'[p] = m + 1 /\ Len(turn'[p].buf) = k + 1
      BY <1>1, <1>3, <1>5, <1>6, <1>7, <3>1
    <3> QED BY <3>1, <3>2, <3>3
  <2> QED BY <1>0, <1>6, <1>7, <2>1 DEF Gone, Arrived
<1>9. \A l \in Peers : Says(l)'
  <2> TAKE l \in Peers
  <2>1. CASE l = p
    <3>1. PICK v, t, c, i, r, d :
            /\ v = turn[p] /\ t = pump[p].tx /\ c = ctl[p] /\ i = pay[Other(p)]
            /\ r = pump[Other(p)].rx /\ d = Arrived(p)
      OBVIOUS
    <3>2. /\ Exchange(v, t, c, i, r, d) /\ v.index \in Nat /\ Len(v.buf) \in Nat
          /\ ~v.finish_offered
      BY <1>0, <3>1 DEF Conversation, Says, TurnRec
    <3>3. /\ u.index = v.index /\ u.need_start = v.need_start
          /\ u.speak = v.speak /\ u.finish_offered = v.finish_offered
          /\ u.buf # <<>> /\ Len(u.buf) = Len(v.buf) + 1
          /\ \A k \in 1 .. Len(v.buf) : u.buf[k] = v.buf[k]
      BY <1>3, <1>5, <3>1
    <3>4. Exchange(u, t, c, i, r, d)
      <4>1. CASE Silent(v, t, c, i, r, d)
        BY <3>3, <4>1 DEF Silent, Exchange
      <4>2. CASE Between(v, t, c, i, r, d)
        BY <3>2, <3>3, <4>2 DEF Between, Exchange
      <4>3. CASE Stuck(v, t, c, i, r, d)
        BY <3>2, <3>3, <4>3 DEF Stuck, Exchange
      <4>4. CASE Flying(v, t, c, i, r, d)
        <5>1. Offered(u, t) /\ t.flight.kind # "Finish"
          BY <3>2, <3>3, <4>4 DEF Flying, Offered
        <5>2. Stage(u, t, c, i, r, d)
          <6>1. /\ Ready(v, t, r, d) => Ready(u, t, r, d)
                /\ Accepts(v, t, r, d) => Accepts(u, t, r, d)
                /\ Taken(v, t, r, d) => Taken(u, t, r, d)
            BY <3>3 DEF Ready, Accepts, Taken
          <6> QED BY <4>4, <6>1 DEF Flying, Stage, AtHome, OnTheWay, Rejecting,
                                    Rejected, Accepting, Answered
        <5> QED BY <3>3, <4>4, <5>1, <5>2 DEF Flying, Exchange
      <4> QED BY <3>2, <4>1, <4>2, <4>3, <4>4 DEF Exchange
    <3> QED BY <1>0, <1>6, <1>8, <2>1, <3>1, <3>4 DEF Says
  <2>2. CASE l # p
    BY <1>0, <1>6, <1>8, <2>2 DEF Conversation, Says
  <2> QED BY <2>1, <2>2
<1>10. \A l \in Peers : Queued(l)'
  <2> TAKE l \in Peers
  <2>1. CASE l = p
    <3>1. Queued(p)
      BY DEF Conversation
    <3>2. /\ Len(turn'[p].buf) = Len(turn[p].buf) + 1 /\ pushed'[p] = pushed[p] + 1
          /\ turn'[p].buf = b
      BY <1>1, <1>3, <1>5, <1>6, <1>7
    <3>3. Len(turn'[p].buf) <= pushed'[p]
      BY <1>0, <3>1, <3>2 DEF Queued
    <3>4. PICK m, k0, gone : m = pushed[p] /\ k0 = Len(turn[p].buf) /\ gone = Gone(p)
      OBVIOUS
    <3>5. m \in Nat /\ k0 \in Nat /\ gone = m - k0 /\ n = gone + (k0 + 1)
      BY <1>0, <1>1, <3>4, SMTT(30) DEF Gone
    <3>6. \A k \in 1 .. k0 + 1 : b[k] = gone + k
      <4>1. \A k \in 1 .. k0 : b[k] = gone + k
        BY <1>3, <3>1, <3>4 DEF Queued
      <4>2. b[k0 + 1] = gone + (k0 + 1)
        BY <1>3, <3>4, <3>5
      <4> QED BY <3>5, <4>1, <4>2
    <3>7. Len(turn'[p].buf) = k0 + 1
      BY <3>2, <3>4
    <3> QED BY <1>8, <2>1, <3>2, <3>3, <3>4, <3>6, <3>7 DEF Queued
  <2>2. CASE l # p
    BY <1>6, <1>7, <1>8, <2>2 DEF Conversation, Queued
  <2> QED BY <2>1, <2>2
<1>11. \A l \in Peers : InOrder(l)' /\ Orderly(l)'
  BY <1>0 DEF Conversation, InOrder, Orderly
<1>12. Floor'
  <2>1. \A l \in Peers : /\ turn'[l].speak = turn[l].speak
                         /\ turn'[l].index = turn[l].index
                         /\ turn'[l].need_start = turn[l].need_start
    BY <1>5, <1>6
  <2>2. PICK l \in Peers : Alone(l) \/ Handing(l)
    BY DEF Conversation, Floor
  <2>3. FinishAcked(l)' <=> FinishAcked(l)
    BY <1>0 DEF FinishAcked
  <2>4. Alone(l)' \/ Handing(l)'
    BY <1>0, <2>1, <2>2, <2>3, PeerFacts DEF Alone, Handing
  <2> QED BY <2>4 DEF Floor
<1>13. \A l \in Peers : turn'[l].speak = turn[l].speak
  BY <1>5, <1>6
<1> QED BY <1>9, <1>10, <1>11, <1>12, <1>13 DEF Conversation

LEMMA TurnStarts ==
  ASSUME Init
  PROVE  Conversation
<1>1. \A l \in Peers : /\ turn[l] = TurnInit(l = 1) /\ pump[l] = PumpInit
                       /\ pump[Other(l)] = PumpInit
                       /\ ctl[l] = <<>> /\ pay[l] = <<>> /\ pay[Other(l)] = <<>>
                       /\ got[l] = <<>> /\ got[Other(l)] = <<>> /\ pushed[l] = 0
                       /\ garbled[l] = FALSE
  BY PeerFacts DEF Init
<1>2. \A l \in Peers : /\ turn[l].buf = <<>> /\ turn[l].index = 0
                       /\ turn[l].need_start = TRUE /\ turn[l].finish_offered = FALSE
                       /\ turn[l].speak = (l = 1)
  <2> TAKE l \in Peers
  <2>1. turn[l] = [speak |-> (l = 1), buf |-> <<>>, index |-> 0,
                   need_start |-> TRUE, finish_offered |-> FALSE]
    BY <1>1 DEF TurnInit
  <2>2. turn[l].buf = <<>> /\ turn[l].index = 0
    BY <2>1
  <2>3. PICK b : b = (l = 1)
    OBVIOUS
  <2>4. PICK u : u = [speak |-> b, buf |-> <<>>, index |-> 0,
                      need_start |-> TRUE, finish_offered |-> FALSE]
    OBVIOUS
  <2>5. u.need_start = TRUE /\ u.finish_offered = FALSE /\ u.speak = b
    BY <2>4, Zenon
  <2>6. turn[l] = u
    BY <2>1, <2>3, <2>4, Zenon
  <2>7. /\ turn[l].need_start = TRUE /\ turn[l].finish_offered = FALSE
        /\ turn[l].speak = (l = 1)
    BY <2>3, <2>5, <2>6, Zenon
  <2> QED BY <2>2, <2>7
<1>3. /\ PumpInit.tx.flight.kind = "None" /\ PumpInit.tx.writing = FALSE
      /\ PumpInit.tx.state = "Idle" /\ ~Replying(PumpInit.rx)
      /\ PumpInit.pending_completed = FALSE /\ PumpInit.tx_done_seen = FALSE
      /\ PumpInit.rx.abort_latched = FALSE /\ PumpInit.rx.filled = 0
  BY DEF PumpInit, TxInit, NoFlight, RxInit, Replying
<1>4. \A l \in Peers : Gone(l) = 0 /\ Arrived(l) = 0 /\ Len(turn[l].buf) = 0
  BY <1>1, <1>2 DEF Gone, Arrived
<1>5. \A l \in Peers : Says(l)
  BY <1>1, <1>2, <1>3, <1>4 DEF Says, Exchange, Silent, Nothing
<1>6. \A l \in Peers : Queued(l)
  BY <1>1, <1>4 DEF Queued
<1>7. \A l \in Peers : InOrder(l) /\ Orderly(l)
  BY <1>1, <1>3 DEF InOrder, Orderly
<1>8. Floor
  <2>1. Alone(1)
    BY <1>1, <1>2, PeerFacts DEF Alone, FinishAcked
  <2> QED BY <2>1, PeerFacts DEF Floor
<1> QED BY <1>5, <1>6, <1>7, <1>8 DEF Conversation

-----------------------------------------------------------------------------
(* The theorems. *)

(* A peer that stops speaking had offered FINISH. *)
YieldStep ==
  \A p \in Peers : turn[p].speak /\ ~turn'[p].speak => turn[p].finish_offered

LEMMA NextKeeps ==
  ASSUME TurnTaking, TurnType, TurnInv, [Next]_vars
  PROVE  TurnInv' /\ (aborts = 0 => YieldStep)
<1>1. CASE UNCHANGED vars
  <2>1. TurnInv'
    BY <1>1 DEF TurnInv, Conversation, Floor, Alone, Handing, FinishAcked, Says, Queued,
                InOrder, Orderly, Gone, Arrived, vars
  <2>2. YieldStep
    BY <1>1 DEF YieldStep, vars
  <2> QED BY <2>1, <2>2
<1>2. CASE Next
  <2>1. PICK p \in Peers : \/ Push(p) \/ Abort(p)
                           \/ \E rs \in RxSteps, ts \in TxSteps : Poll(p, rs, ts)
    BY <1>2 DEF Next
  <2>2. CASE aborts # 0
    <3>1. aborts' = aborts \/ aborts' = aborts + 1
      BY <2>1 DEF Push, Abort, Poll
    <3>2. aborts' # 0
      BY <2>2, <3>1 DEF TurnType
    <3> QED BY <2>2, <3>2 DEF TurnInv
  <2>3. CASE aborts = 0 /\ Abort(p)
    <3>1. aborts' # 0
      BY <2>3 DEF Abort
    <3>2. \A l \in Peers : turn'[l].speak = turn[l].speak
      <4>1. turn[p] \in TurnRec /\ turn' = [turn EXCEPT ![p] = Rewind(turn[p])]
        BY <2>3, Zenon DEF Abort, TurnType
      <4>2. Rewind(turn[p]).speak = turn[p].speak
        BY <4>1, Zenon DEF Rewind, TurnRec
      <4> QED BY <4>1, <4>2 DEF TurnType
    <3> QED BY <3>1, <3>2 DEF TurnInv, YieldStep
  <2>4. CASE aborts = 0 /\ ~Abort(p)
    <3>1. Conversation
      BY <2>4 DEF TurnInv
    <3>2. Conversation' /\ YieldStep
      BY <2>1, <2>4, <3>1, PushKeeps, PollKeeps DEF YieldStep
    <3> QED BY <3>2 DEF TurnInv
  <2> QED BY <2>2, <2>3, <2>4
<1> QED BY <1>1, <1>2

(* Until the first abort, with replies that are not hit and a timeout that *)
(* outlasts every round trip, the two turns, the two pumps and the line    *)
(* are always at one of the stages of TurnInv: the protocol of turn.rs     *)
(* never leaves them.                                                      *)
THEOREM TurnsAreTaken ==
  ASSUME TurnTaking
  PROVE  Spec => []TurnInv
<1>1. Init => TurnInv
  BY TurnStarts DEF TurnInv
<1>2. TurnType /\ TurnInv /\ [Next]_vars => TurnInv'
  BY NextKeeps
<1> QED BY <1>1, <1>2, TurnTypeCorrect, PTL DEF Spec

(* "ACK and DATA never share the wire from two speakers at once"           *)
(* (turn.rs:5), also while the turn changes hands.                         *)
THEOREM TurnTalksAlone ==
  ASSUME TurnTaking
  PROVE  Spec => [](aborts = 0 => NoTalkOver)
<1>1. TurnInv => (aborts = 0 => NoTalkOver)
  <2> SUFFICES ASSUME Conversation, NEW p \in Peers,
                      pump[p].tx.writing, Replying(pump[p].rx)
               PROVE  FALSE
    BY DEF TurnInv, NoTalkOver
  <2>0. PICK q : q = Other(p) /\ q \in Peers /\ Other(q) = p
    BY PeerFacts
  <2>1. turn[p].speak /\ ctl[p] = <<>>
    <3>1. PICK u, t, c, i, r, d :
            /\ u = turn[p] /\ t = pump[p].tx /\ c = ctl[p] /\ i = pay[q]
            /\ r = pump[q].rx /\ d = Arrived(p)
      OBVIOUS
    <3>2. Exchange(u, t, c, i, r, d) /\ t.writing
      BY <2>0, <3>1 DEF Conversation, Says
    <3> QED BY <3>1, <3>2, WhoWrites
  <2>2. turn[q].speak /\ ctl[q] = <<>>
    <3>1. PICK u, t, c, i, r, d :
            /\ u = turn[q] /\ t = pump[q].tx /\ c = ctl[q] /\ i = pay[p]
            /\ r = pump[p].rx /\ d = Arrived(q)
      OBVIOUS
    <3>2. Exchange(u, t, c, i, r, d) /\ Replying(r)
      BY <2>0, <3>1 DEF Conversation, Says
    <3> QED BY <3>1, <3>2, WhoWrites
  <2>3. PICK l \in Peers : Alone(l) \/ Handing(l)
    BY DEF Conversation, Floor
  <2>4. l = p \/ l = q
    BY <2>0, PeerFacts
  <2> QED BY <2>0, <2>1, <2>2, <2>3, <2>4 DEF Alone, Handing, FinishAcked
<1> QED BY <1>1, TurnsAreTaken, PTL

(* The turn is never lost: Yielded at one peer and Granted at the other    *)
(* (turn.rs:26) leave a speaker between them.                              *)
THEOREM TurnIsHeld ==
  ASSUME TurnTaking
  PROVE  Spec => [](aborts = 0 => SomeoneSpeaks)
<1>1. TurnInv => (aborts = 0 => SomeoneSpeaks)
  BY DEF TurnInv, Conversation, Floor, Alone, Handing, SomeoneSpeaks
<1> QED BY <1>1, TurnsAreTaken, PTL

(* What has arrived of a session is a part of what its queue holds. *)
LEMMA ArrivedBounds ==
  ASSUME NEW u \in TurnRec, NEW t, NEW c, NEW i, NEW r, NEW d, Exchange(u, t, c, i, r, d)
  PROVE  d \in 0 .. Len(u.buf)
<1>0. Len(u.buf) \in Nat /\ u.index \in Nat
  BY DEF TurnRec
<1>1. CASE Silent(u, t, c, i, r, d)
  BY <1>0, <1>1 DEF Silent
<1>2. CASE Between(u, t, c, i, r, d)
  BY <1>2 DEF Between
<1>3. CASE Stuck(u, t, c, i, r, d)
  BY <1>3 DEF Stuck
<1>4. CASE Flying(u, t, c, i, r, d)
  <2>1. Offered(u, t) /\ Stage(u, t, c, i, r, d)
    BY <1>4 DEF Flying
  <2>2. CASE Ready(u, t, r, d)
    BY <2>1, <2>2, ReadyBounds
  <2>3. CASE Accepts(u, t, r, d)
    BY <1>0, <2>1, <2>3 DEF Accepts, Offered
  <2>4. CASE Taken(u, t, r, d)
    BY <1>0, <2>1, <2>4 DEF Taken, Offered
  <2> QED BY <2>1, <2>2, <2>3, <2>4
          DEF Stage, AtHome, OnTheWay, Rejecting, Rejected, Accepting, Answered
<1> QED BY <1>1, <1>2, <1>3, <1>4 DEF Exchange

(* A queue that is emptied was received, whole and in order, over any      *)
(* number of turns: what was pushed is still queued or has arrived, however*)
(* often DATA, START or FINISH was hit and sent again.  Under TurnTaking a *)
(* frame that was taken is never sent again, so this says nothing of the   *)
(* duplicate after a lost ACK (for that, StopWaitSafety!DeliversInOrder).  *)
(* The hypothesis is needed: one ACK of FINISH that is hit, or late, loses *)
(* a queue (turn.rs:115).                                                  *)
THEOREM TurnDelivers ==
  ASSUME TurnTaking
  PROVE  Spec => [](aborts = 0 => YieldedIsReceived)
<1>1. TurnType /\ TurnInv => (aborts = 0 => YieldedIsReceived)
  <2> SUFFICES ASSUME TurnType, Conversation, NEW p \in Peers
               PROVE  LET theirs == got[Other(p)]
                          gone == pushed[p] - Len(turn[p].buf)
                      IN /\ \/ Deaf(Other(p))
                            \/ \A b \in 1 .. gone : \E j \in 1 .. Len(theirs) : theirs[j] = b
                         /\ aborts = 0 => /\ Len(theirs) <= pushed[p]
                                          /\ \A i \in 1 .. Len(theirs) : theirs[i] = i
    BY DEF TurnInv, YieldedIsReceived
  <2>0. PICK q : q = Other(p) /\ q \in Peers
    BY PeerFacts
  <2>1. PICK l, m, k : l = Len(got[q]) /\ m = pushed[p] /\ k = Len(turn[p].buf)
    OBVIOUS
  <2>2. l \in Nat /\ m \in Nat /\ k \in Nat
    BY <2>0, <2>1 DEF TurnType, TurnRec
  <2>3. l - (m - k) \in 0 .. k
    <3>1. PICK u, t, c, i, r, d :
            /\ u = turn[p] /\ t = pump[p].tx /\ c = ctl[p] /\ i = pay[q]
            /\ r = pump[q].rx /\ d = Arrived(p)
      OBVIOUS
    <3>2. Exchange(u, t, c, i, r, d) /\ u \in TurnRec
      BY <2>0, <3>1 DEF Conversation, Says, TurnType
    <3>3. d \in 0 .. Len(u.buf)
      BY <3>2, ArrivedBounds
    <3> QED BY <2>0, <2>1, <3>1, <3>3 DEF Arrived, Gone
  <2>4. m - k <= l /\ l <= m
    BY <2>2, <2>3
  <2>5. \A j \in 1 .. l : got[q][j] = j
    BY <2>0, <2>1 DEF Conversation, InOrder
  <2>6. \A b \in 1 .. m - k : b \in 1 .. l
    BY <2>2, <2>4
  <2>7. \A b \in 1 .. m - k : \E j \in 1 .. l : got[q][j] = b
    BY <2>5, <2>6
  <2> QED BY <2>0, <2>1, <2>4, <2>5, <2>7
<1> QED BY <1>1, TurnsAreTaken, TurnTypeCorrect, PTL

(* Until the first abort, a peer yields for its own FINISH only: Pump::poll*)
(* does not say whose session a Completed ends, and on_event (turn.rs) does*)
(* not ask.                                                                *)
THEOREM TurnYieldsForOwn ==
  ASSUME TurnTaking
  PROVE  Spec => [][aborts = 0 => YieldStep]_vars
<1>1. TurnType /\ TurnInv /\ [Next]_vars => [aborts = 0 => YieldStep]_vars
  BY NextKeeps
<1> QED BY <1>1, TurnsAreTaken, TurnTypeCorrect, PTL DEF Spec

(* The same as the runs check it, for two peers that never abort.          *)
THEOREM YieldsWithoutAborts ==
  ASSUME TurnTaking, MaxAborts = 0
  PROVE  Spec => YieldsForOwnFinish
<1> DEFINE NoAborts == aborts = 0
<1>1. Init => NoAborts
  BY DEF Init
<1>2. NoAborts /\ [Next]_vars => NoAborts'
  <2> SUFFICES ASSUME NoAborts, [Next]_vars PROVE NoAborts'
    OBVIOUS
  <2>1. CASE UNCHANGED vars
    BY <2>1 DEF vars
  <2>2. CASE Next
    <3>1. PICK p \in Peers : \/ Push(p) \/ Abort(p)
                             \/ \E rs \in RxSteps, ts \in TxSteps : Poll(p, rs, ts)
      BY <2>2 DEF Next
    <3>2. ~Abort(p)
      BY DEF Abort
    <3> QED BY <3>1, <3>2 DEF Push, Poll
  <2> QED BY <2>1, <2>2
<1>3. TurnType /\ TurnInv /\ NoAborts /\ [Next]_vars => [YieldStep]_vars
  BY NextKeeps
<1> HIDE DEF NoAborts
<1> QED BY <1>1, <1>2, <1>3, TurnsAreTaken, TurnTypeCorrect, PTL
        DEF Spec, YieldsForOwnFinish, YieldStep
=============================================================================
