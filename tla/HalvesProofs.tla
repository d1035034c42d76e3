---------------------------- MODULE HalvesProofs ----------------------------
(***************************************************************************)
(* Facts about wrapping sequence numbers (protocol/sequence.rs), for every *)
(* modulus SeqMod >= 3, about frames and wires, and the least-number       *)
(* principle, which stands in for induction in the other proof modules;    *)
(* what each operation of the stop-and-wait sender and receiver does to    *)
(* their fields; and what one poll of the pump does to its two halves, for *)
(* every modulus and retry policy.                                         *)
(***************************************************************************)
EXTENDS Pump, WellFoundedInduction, TLAPS

(* A set of numbers that is not empty has a least element. *)
LEMMA LeastExists ==
  ASSUME NEW S, S \subseteq Nat, S # {}
  PROVE  \E i \in S : \A j \in S : i <= j
<1> DEFINE R == {ss \in Nat \X Nat : ss[1] < ss[2]}
<1>1. R = OpToRel(<, Nat)
  BY DEF OpToRel
<1>2. IsWellFoundedOn(R, Nat)
  BY <1>1, NatLessThanWellFounded, Zenon
<1>3. PICK x \in S : \A y \in S : ~(<<y, x>> \in R)
  <2> HIDE DEF R
  <2> QED BY <1>2, WFMin
<1>4. ASSUME NEW y \in S, y < x
      PROVE  FALSE
  <2>1. <<y, x>> \in R
    BY <1>4
  <2> QED BY <1>3, <2>1
<1>5. \A y \in S : x <= y
  BY <1>4
<1> QED BY <1>5

LEMMA SeqElement ==
  ASSUME NEW S, NEW s \in Seq(S), NEW i \in 1 .. Len(s)
  PROVE  s[i] \in S
OBVIOUS

(* A multiple of SeqMod smaller than SeqMod in absolute value is zero. *)
LEMMA SmallMultiple ==
  ASSUME NEW d \in Int, NEW r \in Int, -SeqMod < r, r < SeqMod, d * SeqMod = r
  PROVE  r = 0
BY SeqModAssumption

(* Division with remainder. *)
LEMMA DivMod ==
  ASSUME NEW a \in Nat
  PROVE  /\ a % SeqMod \in Seqs
         /\ a \div SeqMod \in Int
         /\ a = SeqMod * (a \div SeqMod) + (a % SeqMod)
BY SeqModAssumption DEF Seqs

(* Numbers less than SeqMod apart with one remainder are equal: SEQ tells  *)
(* neighbouring positions apart.                                           *)
LEMMA ModInjective ==
  ASSUME NEW a \in Nat, NEW b \in Nat, a % SeqMod = b % SeqMod,
         a - b < SeqMod, b - a < SeqMod
  PROVE  a = b
<1> DEFINE d == (a \div SeqMod) - (b \div SeqMod)
<1>1. d \in Int /\ a - b \in Int
  BY DivMod
<1>2. d * SeqMod = a - b
  BY DivMod, SeqModAssumption
<1>3. a - b = 0
  <2> HIDE DEF d
  <2> QED BY <1>1, <1>2, SmallMultiple, SeqModAssumption
<1> QED BY <1>3

(* A remainder is determined by any decomposition. *)
LEMMA ModUnique ==
  ASSUME NEW a \in Nat, NEW q \in Int, NEW r \in Seqs, a = SeqMod * q + r
  PROVE  a % SeqMod = r
<1> DEFINE d == q - (a \div SeqMod)
           e == (a % SeqMod) - r
<1>1. d \in Int /\ e \in Int /\ -SeqMod < e /\ e < SeqMod
  BY DivMod, SeqModAssumption DEF Seqs
<1>2. d * SeqMod = e
  BY DivMod, SeqModAssumption DEF Seqs
<1>3. e = 0
  <2> HIDE DEF d, e
  <2> QED BY <1>1, <1>2, SmallMultiple
<1> QED BY <1>3, DivMod, SeqModAssumption DEF Seqs

(* Small numbers are their own remainder. *)
LEMMA ModSmall ==
  ASSUME NEW a \in Seqs
  PROVE  a % SeqMod = a
BY SeqModAssumption DEF Seqs

(* Sequence::advance follows the count of bytes across the wrap. *)
LEMMA AdvanceMod ==
  ASSUME NEW a \in Nat
  PROVE  Advance(a % SeqMod) = (a + 1) % SeqMod
<1> DEFINE q == a \div SeqMod
           r == a % SeqMod
<1>1. q \in Int /\ r \in Seqs /\ a = SeqMod * q + r
  BY DivMod
<1>2. CASE r + 1 \in Seqs
  <2>1. (r + 1) % SeqMod = r + 1
    BY <1>2, ModSmall
  <2>2. a + 1 \in Nat /\ a + 1 = SeqMod * q + (r + 1)
    BY <1>1, SeqModAssumption DEF Seqs
  <2>3. (a + 1) % SeqMod = r + 1
    <3> HIDE DEF q, r
    <3> QED BY <1>1, <1>2, <2>2, ModUnique
  <2> QED BY <2>1, <2>3 DEF Advance
<1>3. CASE r + 1 \notin Seqs
  <2>1. r + 1 = SeqMod /\ 0 \in Seqs
    BY <1>1, <1>3, SeqModAssumption DEF Seqs
  <2>2. (r + 1) % SeqMod = 0
    BY <2>1, SeqModAssumption
  <2>3. a + 1 \in Nat /\ q + 1 \in Int /\ a + 1 = SeqMod * (q + 1) + 0
    BY <1>1, <2>1, SeqModAssumption DEF Seqs
  <2>4. (a + 1) % SeqMod = 0
    <3> HIDE DEF q, r
    <3> QED BY <2>1, <2>3, ModUnique
  <2> QED BY <2>2, <2>4 DEF Advance
<1> QED BY <1>2, <1>3

(* Sequence::previous undoes Sequence::advance. *)
LEMMA PreviousMod ==
  ASSUME NEW a \in Nat
  PROVE  Previous((a + 1) % SeqMod) = a % SeqMod
<1> DEFINE q == (a + 1) \div SeqMod
           s == (a + 1) % SeqMod
<1>1. q \in Int /\ s \in Seqs /\ a + 1 = SeqMod * q + s
  BY DivMod
<1>2. CASE s = 0
  <2>1. SeqMod - 1 \in Seqs /\ q - 1 \in Int /\ a = SeqMod * (q - 1) + (SeqMod - 1)
    BY <1>1, <1>2, SeqModAssumption DEF Seqs
  <2>2. a % SeqMod = SeqMod - 1
    <3> HIDE DEF q, s
    <3> QED BY <2>1, ModUnique
  <2>3. (s + SeqMod - 1) % SeqMod = SeqMod - 1
    BY <1>2, <2>1, ModSmall, SeqModAssumption
  <2> QED BY <2>2, <2>3 DEF Previous
<1>3. CASE s # 0
  <2>1. s - 1 \in Seqs /\ a = SeqMod * q + (s - 1)
    BY <1>1, <1>3, SeqModAssumption DEF Seqs
  <2>2. a % SeqMod = s - 1
    <3> HIDE DEF q, s
    <3> QED BY <1>1, <2>1, ModUnique
  <2>3. s + SeqMod - 1 \in Nat /\ s + SeqMod - 1 = SeqMod * 1 + (s - 1)
    BY <1>1, <1>3, SeqModAssumption DEF Seqs
  <2>4. (s + SeqMod - 1) % SeqMod = s - 1
    <3> HIDE DEF q, s
    <3> QED BY <2>1, <2>3, ModUnique
  <2> QED BY <2>2, <2>4 DEF Previous
<1> QED BY <1>2, <1>3

(* Every result of the sequence arithmetic is a sequence number. *)
LEMMA SeqTypes ==
  /\ 0 \in Seqs
  /\ \A a \in Nat : a % SeqMod \in Seqs
  /\ \A q \in Seqs : Advance(q) \in Seqs /\ Previous(q) \in Seqs
  /\ \A p \in Nat \ {0} : SeqOf(p) \in Seqs
<1>1. \A a \in Nat : a % SeqMod \in Seqs
  BY DivMod
<1>2. \A q \in Seqs : q + 1 \in Nat /\ q + SeqMod - 1 \in Nat
  BY SeqModAssumption DEF Seqs
<1>3. \A p \in Nat \ {0} : p - 1 \in Nat
  OBVIOUS
<1> QED BY <1>1, <1>2, <1>3, SeqModAssumption DEF Advance, Previous, SeqOf, Seqs

-----------------------------------------------------------------------------
(* The frame constructors yield frames, and what the fields of a frame are. *)
LEMMA FrameType ==
  /\ \A t \in FrameTypes, q \in Seqs, s, p \in Nat : MkFrame(t, q, s, p) \in Frame
  /\ BadFrame \in Frame
  /\ \A k \in 1 .. FrameLen - 1 : TornFrame(k) \in Frame
BY SeqTypes DEF MkFrame, Frame, BadFrame, TornFrame, FrameTypes

LEMMA FrameFields ==
  ASSUME NEW f \in Frame
  PROVE  /\ f.seq \in Nat /\ f.sess \in Nat /\ f.pos \in Nat
         /\ f.type \in FrameTypes \cup {"Bad", "Torn"}
         /\ f.type \in FrameTypes => f.seq \in Seqs
         /\ f.type = "Torn" => f.seq \in 1 .. FrameLen - 1
BY SeqModAssumption
   DEF Frame, BadFrame, TornFrame, MkFrame, FrameTypes, Seqs, FrameLen

(* Wires. *)

LEMMA AppendFacts ==
  ASSUME NEW S, NEW w \in Seq(S), NEW f \in S
  PROVE  /\ Append(w, f) \in Seq(S)
         /\ Len(Append(w, f)) = Len(w) + 1
         /\ Len(w) \in Nat
         /\ \A k \in 1 .. Len(w) : Append(w, f)[k] = w[k]
         /\ Append(w, f)[Len(w) + 1] = f
OBVIOUS

LEMMA TailFacts ==
  ASSUME NEW S, NEW w \in Seq(S), w # <<>>
  PROVE  /\ Tail(w) \in Seq(S) /\ Head(w) \in S
         /\ Len(w) \in Nat /\ Len(w) >= 1
         /\ Len(Tail(w)) = Len(w) - 1
         /\ Head(w) = w[1]
         /\ \A k \in 1 .. Len(Tail(w)) : k + 1 \in 1 .. Len(w) /\ Tail(w)[k] = w[k + 1]
OBVIOUS

-----------------------------------------------------------------------------
(* The types of the two halves. *)

LEMMA NoReplyType == NoReply \in Frame
BY FrameType, SeqTypes DEF NoReply, FrameTypes

LEMMA FlightType ==
  /\ NoFlight \in Flight
  /\ \A k \in FlightKinds, q \in Seqs, s, p \in Nat, t \in TxType :
       Begin(t, k, q, s, p) \in TxType
<1>1. NoFlight \in Flight
  BY SeqTypes, PolicyAssumption DEF NoFlight, Flight, FlightKinds
<1>2. ASSUME NEW k \in FlightKinds, NEW q \in Seqs, NEW s \in Nat, NEW p \in Nat,
             NEW t \in TxType
      PROVE  Begin(t, k, q, s, p) \in TxType
  <2> DEFINE fl == [kind |-> k, seq |-> q, sess |-> s, pos |-> p,
                    retries_left |-> MaxRetries, waiting |-> FALSE,
                    empty_ticks |-> 0]
  <2>1. fl \in Flight
    BY PolicyAssumption DEF Flight
  <2>2. [t EXCEPT !.flight = fl, !.state = "Sending"] \in TxType
    <3> HIDE DEF fl
    <3> QED BY <2>1 DEF TxType, TxStates
  <2> QED BY <2>2 DEF Begin
<1> QED BY <1>1, <1>2

(* The updates of a flight record. *)
LEMMA FlightUpdates ==
  ASSUME NEW fl \in Flight
  PROVE  /\ [fl EXCEPT !.waiting = TRUE, !.empty_ticks = 0] \in Flight
         /\ [fl EXCEPT !.empty_ticks = 0] \in Flight
         /\ fl.retries_left # 0 =>
              [fl EXCEPT !.retries_left = @ - 1, !.waiting = FALSE,
                         !.empty_ticks = 0] \in Flight
         /\ ~(fl.empty_ticks + 1 >= TimeoutTicks) =>
              [fl EXCEPT !.empty_ticks = @ + 1] \in Flight
<1> USE PolicyAssumption
<1>1. /\ 0 \in 0 .. TimeoutTicks
      /\ fl.retries_left # 0 => fl.retries_left - 1 \in 0 .. MaxRetries
      /\ ~(fl.empty_ticks + 1 >= TimeoutTicks) =>
           fl.empty_ticks + 1 \in 0 .. TimeoutTicks
  BY DEF Flight
<1>2. /\ [fl EXCEPT !.waiting = TRUE, !.empty_ticks = 0] \in Flight
      /\ [fl EXCEPT !.empty_ticks = 0] \in Flight
  BY <1>1, Zenon DEF Flight
<1>3. fl.retries_left # 0 =>
        [fl EXCEPT !.retries_left = @ - 1, !.waiting = FALSE,
                   !.empty_ticks = 0] \in Flight
  BY <1>1, Zenon DEF Flight
<1>4. ~(fl.empty_ticks + 1 >= TimeoutTicks) =>
        [fl EXCEPT !.empty_ticks = @ + 1] \in Flight
  BY <1>1, Zenon DEF Flight
<1> QED BY <1>2, <1>3, <1>4

(* Sequences of frames: what Append and Tail keep. *)
LEMMA FrameSeq ==
  ASSUME NEW w \in Seq(Frame)
  PROVE  /\ \A f \in Frame : Append(w, f) \in Seq(Frame)
         /\ w # <<>> => Tail(w) \in Seq(Frame) /\ Head(w) \in Frame
OBVIOUS

(* Every operation on a sender yields a sender. *)
LEMMA TxOpsType ==
  ASSUME NEW t \in TxType
  PROVE  /\ \A s \in Nat : OfferStart(t, s) \in TxType
         /\ \A s, p \in Nat : /\ Offer(t, s, p) \in TxType
                              /\ OfferFinish(t, s, p) \in TxType
                              /\ OfferAbort(t, s, p) \in TxType
         /\ ForceAbort(t) \in TxType
         /\ BeginWrite(t) \in TxType
         /\ EndWrite(t) \in TxType
         /\ OnAck(t) \in TxType
         /\ OnAttemptFailed(t) \in TxType
         /\ OnEmptyRead(t) \in TxType
         /\ \A f \in Frame : OnControl(t, f) \in TxType
<1> USE SeqTypes, PolicyAssumption, FlightType
<1>1. \A s \in Nat : OfferStart(t, s) \in TxType
  <2>1. [t EXCEPT !.seq = 0] \in TxType
    BY DEF TxType
  <2> QED BY <2>1 DEF OfferStart, FlightKinds
<1>2. \A s, p \in Nat : Offer(t, s, p) \in TxType /\ OfferFinish(t, s, p) \in TxType
  <2>1. t.seq \in Seqs
    BY DEF TxType
  <2> QED BY <2>1 DEF Offer, OfferFinish, FlightKinds
<1>3. \A s, p \in Nat : OfferAbort(t, s, p) \in TxType
  <2>1. [t EXCEPT !.writing = FALSE, !.seq = 0] \in TxType
    BY DEF TxType
  <2> QED BY <2>1 DEF OfferAbort, FlightKinds
<1>4. ForceAbort(t) \in TxType /\ BeginWrite(t) \in TxType
  BY DEF ForceAbort, BeginWrite, TxType, TxStates
<1>5. EndWrite(t) \in TxType
  BY FlightUpdates DEF EndWrite, TxType, TxStates
<1>6. OnAck(t) \in TxType
  BY DEF OnAck, TxType, TxStates
<1>7. OnAttemptFailed(t) \in TxType
  <2> DEFINE fl == [t.flight EXCEPT !.retries_left = @ - 1, !.waiting = FALSE,
                                    !.empty_ticks = 0]
  <2>1. t.flight \in Flight
    BY DEF TxType
  <2>2. CASE t.flight.retries_left = 0
    BY <2>2 DEF OnAttemptFailed, TxType, TxStates
  <2>3. CASE t.flight.retries_left # 0
    <3>1. fl \in Flight
      BY <2>1, <2>3, FlightUpdates
    <3>2. OnAttemptFailed(t) = [t EXCEPT !.flight = fl, !.state = "Retrying"]
      BY <2>3 DEF OnAttemptFailed
    <3> HIDE DEF fl
    <3> QED BY <3>1, <3>2 DEF TxType, TxStates
  <2> QED BY <2>2, <2>3
<1>8. OnEmptyRead(t) \in TxType
  <2> DEFINE fl == [t.flight EXCEPT !.empty_ticks = @ + 1]
  <2>1. t.flight \in Flight
    BY DEF TxType
  <2>2. CASE t.flight.empty_ticks + 1 >= TimeoutTicks
    BY <1>7, <2>2 DEF OnEmptyRead
  <2>3. CASE ~(t.flight.empty_ticks + 1 >= TimeoutTicks)
    <3>1. fl \in Flight
      BY <2>1, <2>3, FlightUpdates
    <3>2. OnEmptyRead(t) = [t EXCEPT !.flight = fl]
      BY <2>3 DEF OnEmptyRead
    <3> HIDE DEF fl
    <3> QED BY <3>1, <3>2 DEF TxType
  <2> QED BY <2>2, <2>3
<1>9. \A f \in Frame : OnControl(t, f) \in TxType
  <2>1. [t EXCEPT !.flight = [t.flight EXCEPT !.empty_ticks = 0]] \in TxType
    BY FlightUpdates DEF TxType
  <2> QED BY <1>4, <1>6, <1>7, <2>1 DEF OnControl
<1> QED BY <1>1, <1>2, <1>3, <1>4, <1>5, <1>6, <1>7, <1>8, <1>9

(* Every operation on a receiver yields a receiver. *)
LEMMA RxOpsType ==
  ASSUME NEW r \in RxType
  PROVE  /\ TakePending(r) \in RxType
         /\ \A f \in Frame : TakeFrame(r, f) \in RxType
<1> USE SeqTypes, SeqModAssumption
<1>1. ASSUME NEW x \in RxType, NEW f \in Frame, NEW q \in Seqs,
             NEW ty \in {"Ack", "Nack"}, NEW a \in Actions
      PROVE  BeginReply(x, ty, q, f, a) \in RxType
  <2>1. MkFrame(ty, q, f.sess, f.pos) \in Frame
    <3>1. ty \in FrameTypes /\ f.sess \in Nat /\ f.pos \in Nat
      BY FrameFields DEF FrameTypes
    <3> QED BY <3>1, FrameType
  <2> QED BY <2>1 DEF BeginReply, RxType
<1>2. TakePending(r) \in RxType
  BY NoReplyType DEF TakePending, RxType
<1>3. ASSUME NEW x \in RxType PROVE HandleError(x) \in RxType
  <2>1. x.expected \in Seqs
    BY DEF RxType
  <2> QED BY <1>1, <2>1, FrameType DEF HandleError, Actions
<1>4. ASSUME NEW f \in Frame
      PROVE  HandleFrame(r, f) \in RxType
  <2>0. f.type \in {"Data", "Finish"} => f.seq \in Seqs
    BY FrameFields DEF FrameTypes
  <2>1. f.type = "Data" => HandleData(r, f) \in RxType
    BY <1>1, <2>0 DEF HandleData, Actions
  <2>2. HandleStart(r, f) \in RxType
    <3>1. [r EXCEPT !.expected = 0, !.finish_seq = NoSeq, !.abort_latched = FALSE]
            \in RxType
      BY DEF RxType
    <3> QED BY <1>1, <3>1 DEF HandleStart, Actions
  <2>3. HandleAbort(r, f) \in RxType
    <3>1. [r EXCEPT !.abort_latched = TRUE, !.expected = 0] \in RxType
      BY DEF RxType
    <3> QED BY <1>1, <3>1 DEF HandleAbort, Actions
  <2>4. f.type = "Finish" => HandleFinish(r, f) \in RxType
    <3>1. f.seq \in Seqs => [r EXCEPT !.finish_seq = f.seq] \in RxType
      BY DEF RxType
    <3> QED BY <1>1, <2>0, <3>1 DEF HandleFinish, Actions
  <2> QED BY <1>3, <2>1, <2>2, <2>3, <2>4 DEF HandleFrame
<1>5. ASSUME NEW f \in Frame
      PROVE  TakeFrame(r, f) \in RxType
  <2>1. CASE f.type = "Torn"
    <3>1. r.filled + f.seq < FrameLen =>
            [r EXCEPT !.filled = @ + f.seq] \in RxType
      BY <2>1, FrameFields DEF RxType, FrameLen
    <3>2. ~(r.filled + f.seq < FrameLen) =>
            [r EXCEPT !.filled = @ + f.seq - FrameLen] \in RxType
      BY <2>1, FrameFields DEF RxType, FrameLen
    <3> QED BY <1>3, <2>1, <3>1, <3>2 DEF TakeFrame
  <2>2. CASE f.type # "Torn"
    BY <1>3, <1>4, <2>2 DEF TakeFrame
  <2> QED BY <2>1, <2>2
<1> QED BY <1>2, <1>5
-----------------------------------------------------------------------------
(* What each operation does to the fields of a sender. *)

LEMMA OfferStartFields ==
  ASSUME NEW t \in TxType, NEW s, NEW p
  PROVE  LET u == OfferStart(t, s)
         IN  /\ u.state = "Sending" /\ u.writing = t.writing /\ u.seq = 0
             /\ u.flight.kind = "Start" /\ u.flight.seq = 0
             /\ u.flight.sess = s /\ u.flight.pos = 0
             /\ u.flight.waiting = FALSE
BY DEF OfferStart, Begin, TxType

LEMMA OfferFields ==
  ASSUME NEW t \in TxType, NEW s, NEW p
  PROVE  LET u == Offer(t, s, p)
         IN  /\ u.state = "Sending" /\ u.writing = t.writing /\ u.seq = t.seq
             /\ u.flight.kind = "Data" /\ u.flight.seq = t.seq
             /\ u.flight.sess = s /\ u.flight.pos = p
             /\ u.flight.waiting = FALSE
BY DEF Offer, Begin, TxType

LEMMA OfferFinishFields ==
  ASSUME NEW t \in TxType, NEW s, NEW p
  PROVE  LET u == OfferFinish(t, s, p)
         IN  /\ u.state = "Sending" /\ u.writing = t.writing /\ u.seq = t.seq
             /\ u.flight.kind = "Finish" /\ u.flight.seq = t.seq
             /\ u.flight.sess = s /\ u.flight.pos = p
             /\ u.flight.waiting = FALSE
BY DEF OfferFinish, Begin, TxType

LEMMA OfferAbortFields ==
  ASSUME NEW t \in TxType, NEW s, NEW p
  PROVE  LET u == OfferAbort(t, s, p)
         IN  /\ u.state = "Sending" /\ u.writing = FALSE /\ u.seq = 0
             /\ u.flight.kind = "Abort" /\ u.flight.seq = 0
             /\ u.flight.sess = s /\ u.flight.pos = p
             /\ u.flight.waiting = FALSE
BY DEF OfferAbort, Begin, TxType

LEMMA ForceAbortFields ==
  ASSUME NEW t \in TxType
  PROVE  LET u == ForceAbort(t)
         IN  u.state = "Aborted" /\ ~u.writing /\ u.flight.kind = "None"
BY DEF ForceAbort, TxType, NoFlight

(* The flight keeps its identity: kind, SEQ, session and position. *)
SameFlight(u, t) ==
  /\ u.seq = t.seq
  /\ u.flight.kind = t.flight.kind /\ u.flight.seq = t.flight.seq
  /\ u.flight.sess = t.flight.sess /\ u.flight.pos = t.flight.pos

LEMMA WriteFields ==
  ASSUME NEW t \in TxType
  PROVE  /\ LET u == BeginWrite(t)
            IN  /\ SameFlight(u, t) /\ u.state = "Sending" /\ u.writing
                /\ u.flight.waiting = t.flight.waiting
         /\ LET u == EndWrite(t)
            IN  SameFlight(u, t) /\ u.state = "WaitingAck" /\ ~u.writing
BY DEF BeginWrite, EndWrite, SameFlight, TxType, Flight

LEMMA AckFields ==
  ASSUME NEW t \in TxType
  PROVE  LET u == OnAck(t)
         IN  /\ u.flight.kind = "None" /\ u.writing = t.writing
             /\ t.flight.kind = "Data" => u.state = "Idle" /\ u.seq = Advance(t.seq)
             /\ t.flight.kind = "Start" => u.state = "Idle" /\ u.seq = 0
             /\ t.flight.kind = "Finish" => u.state = "Finished"
             /\ t.flight.kind \notin {"Data", "Start", "Finish"} => u.state = "Aborted"
BY DEF OnAck, TxType, NoFlight

(* A failed attempt ends the flight or keeps its identity. *)
LEMMA AttemptFields ==
  ASSUME NEW t \in TxType, NEW u \in {OnAttemptFailed(t), OnEmptyRead(t)}, Waits(t)
  PROVE  /\ u.writing = t.writing
         /\ \/ u.flight.kind = "None" /\ u.state = "Failed"
            \/ SameFlight(u, t) /\ u.state \in {"Retrying", t.state}
<1>1. OnAttemptFailed(t).writing = t.writing
  BY DEF OnAttemptFailed, TxType
<1>2. \/ /\ OnAttemptFailed(t).flight.kind = "None"
         /\ OnAttemptFailed(t).state = "Failed"
      \/ SameFlight(OnAttemptFailed(t), t) /\ OnAttemptFailed(t).state = "Retrying"
  BY DEF OnAttemptFailed, SameFlight, NoFlight, TxType, Flight
<1>3. CASE t.flight.empty_ticks + 1 >= TimeoutTicks
  BY <1>1, <1>2, <1>3 DEF OnEmptyRead
<1>4. CASE ~(t.flight.empty_ticks + 1 >= TimeoutTicks)
  <2> DEFINE v == [t EXCEPT !.flight = [t.flight EXCEPT
                               !.empty_ticks = t.flight.empty_ticks + 1]]
  <2>1. OnEmptyRead(t) = v
    BY <1>4 DEF OnEmptyRead
  <2>2. v.writing = t.writing /\ v.state = t.state /\ SameFlight(v, t)
    BY DEF TxType, Flight, SameFlight
  <2> QED BY <1>1, <1>2, <2>1, <2>2
<1> QED BY <1>3, <1>4

(* What a control frame can do to a waiting sender. *)
LEMMA ControlFields ==
  ASSUME NEW t \in TxType, NEW f \in Frame, Waits(t)
  PROVE  LET u == OnControl(t, f)
         IN  \/ f.type = "Abort" /\ u = ForceAbort(t)
             \/ f.type = "Ack" /\ f.seq = t.flight.seq /\ u = OnAck(t)
             \/ /\ ~(f.type = "Ack" /\ f.seq = t.flight.seq)
                /\ u.writing = t.writing
                /\ \/ u.flight.kind = "None" /\ u.state = "Failed"
                   \/ SameFlight(u, t) /\ u.state \in {"Retrying", t.state}
<1> DEFINE v == [t EXCEPT !.flight = [t.flight EXCEPT !.empty_ticks = 0]]
<1>1. v.writing = t.writing /\ v.state = t.state /\ SameFlight(v, t)
  BY DEF TxType, Flight, SameFlight
<1>2. OnControl(t, f) \in {ForceAbort(t), OnAck(t), OnAttemptFailed(t), v, t}
  BY DEF OnControl
<1>3. CASE f.type = "Abort"
  BY <1>3 DEF OnControl
<1>4. CASE f.type = "Ack" /\ f.seq = t.flight.seq
  BY <1>4 DEF OnControl, Answers
<1>5. CASE f.type # "Abort" /\ ~(f.type = "Ack" /\ f.seq = t.flight.seq)
  <2>1. OnControl(t, f) \in {OnAttemptFailed(t), v, t}
    BY <1>5 DEF OnControl, Answers
  <2>2. SameFlight(t, t)
    BY DEF SameFlight
  <2> HIDE DEF v
  <2> QED BY <1>1, <1>5, <2>1, <2>2, AttemptFields
<1> QED BY <1>3, <1>4, <1>5

-----------------------------------------------------------------------------
(* The receiver, field by field. *)

LEMMA PendingFields ==
  ASSUME NEW r \in RxType
  PROVE  LET u == TakePending(r)
         IN  /\ u.action = "None" /\ u.abort_latched = r.abort_latched
             /\ u.expected = IF r.action = "Deliver" THEN Advance(r.expected)
                                                     ELSE r.expected
             /\ u.finish_seq = IF r.action = "Started" THEN NoSeq ELSE r.finish_seq
BY DEF TakePending, RxType

(* u differs from r in its reply and its assembler only. *)
SameLatches(u, r) ==
  /\ u.expected = r.expected /\ u.finish_seq = r.finish_seq
  /\ u.abort_latched = r.abort_latched

Acks(u, q, f) == u.reply = MkFrame("Ack", q, f.sess, f.pos)

(* The outcomes of reading a frame. *)
Skipped(u, r) == SameLatches(u, r) /\ u.action = "None"

Nacked(u, r) == /\ SameLatches(u, r) /\ u.action \in {"Rejected", "CrcRejected"}
                /\ u.reply.type = "Nack"

Accepted(u, r, f) ==
  /\ f.type = "Data" /\ ~IsClosed(r) /\ f.seq = r.expected
  /\ SameLatches(u, r) /\ u.action = "Deliver" /\ Acks(u, f.seq, f)

Repeated(u, r, f) ==
  /\ f.type = "Data" /\ ~IsClosed(r) /\ f.seq = Previous(r.expected)
  /\ f.seq # r.expected
  /\ SameLatches(u, r) /\ u.action = "Duplicate" /\ Acks(u, f.seq, f)

Restarted(u, r, f) ==
  /\ f.type = "Start"
  /\ u.expected = 0 /\ u.finish_seq = NoSeq /\ u.abort_latched = FALSE
  /\ u.action = "Started" /\ Acks(u, 0, f)

Cancelled(u, r, f) ==
  /\ f.type = "Abort" /\ ~IsFinished(r)
  /\ u.expected = 0 /\ u.finish_seq = r.finish_seq /\ u.abort_latched = TRUE
  /\ u.action = "Aborted" /\ Acks(u, 0, f)

Concluded(u, r, f) ==
  /\ f.type = "Finish" /\ ~r.abort_latched
  /\ u.expected = r.expected /\ u.abort_latched = r.abort_latched
  /\ u.finish_seq = f.seq /\ f.seq \in Seqs
  /\ \/ r.finish_seq = f.seq
     \/ ~IsFinished(r) /\ f.seq = r.expected
  /\ u.action = "Finished" /\ Acks(u, f.seq, f)

LEMMA ReadOutcomes ==
  ASSUME NEW r \in RxType, ~Replying(r), NEW f \in Frame
  PROVE  LET u == TakeFrame(r, f)
         IN  \/ Skipped(u, r) \/ Nacked(u, r)
             \/ Accepted(u, r, f) \/ Repeated(u, r, f) \/ Restarted(u, r, f)
             \/ Cancelled(u, r, f) \/ Concluded(u, r, f)
<1> USE DEF SameLatches
<1>1. r.action = "None"
  BY DEF Replying
<1>2. ASSUME NEW x \in RxType, NEW ty, NEW q, NEW g, NEW a
      PROVE  LET u == BeginReply(x, ty, q, g, a)
             IN  /\ SameLatches(u, x) /\ u.action = a
                 /\ u.reply = MkFrame(ty, q, g.sess, g.pos)
  BY DEF BeginReply, RxType
<1>3. ASSUME NEW x \in RxType, SameLatches(x, r), x.action = "None"
      PROVE  Skipped(HandleError(x), r) \/ Nacked(HandleError(x), r)
  <2>1. CASE IsClosed(x)
    BY <1>3, <2>1 DEF HandleError, Skipped
  <2>2. CASE ~IsClosed(x)
    <3> DEFINE u == BeginReply(x, "Nack", x.expected, BadFrame, "CrcRejected")
    <3>1. u.reply.type = "Nack" /\ SameLatches(u, x) /\ u.action = "CrcRejected"
      BY DEF BeginReply, RxType, MkFrame
    <3>2. HandleError(x) = u
      BY <2>2 DEF HandleError
    <3> QED BY <1>3, <3>1, <3>2 DEF Nacked
  <2> QED BY <2>1, <2>2
<1>4. CASE f.type = "Torn"
  <2> DEFINE a == [r EXCEPT !.filled = @ + f.seq]
             b == [r EXCEPT !.filled = @ + f.seq - FrameLen]
  <2>1. CASE r.filled + f.seq < FrameLen
    <3>1. SameLatches(a, r) /\ a.action = "None"
      BY <1>1 DEF RxType
    <3>2. TakeFrame(r, f) = a
      BY <1>4, <2>1 DEF TakeFrame
    <3> QED BY <3>1, <3>2 DEF Skipped
  <2>2. CASE ~(r.filled + f.seq < FrameLen)
    <3>1. SameLatches(b, r) /\ b.action = "None"
      BY <1>1 DEF RxType
    <3>2. b \in RxType
      BY <1>4, <2>2, FrameFields DEF RxType, FrameLen
    <3>3. TakeFrame(r, f) = HandleError(b)
      BY <1>4, <2>2 DEF TakeFrame
    <3> HIDE DEF b
    <3> QED BY <1>3, <3>1, <3>2, <3>3
  <2> QED BY <2>1, <2>2
<1>5. CASE f.type # "Torn" /\ (r.filled # 0 \/ f.type = "Bad")
  <2>1. TakeFrame(r, f) = HandleError(r)
    BY <1>5 DEF TakeFrame, HandleFrame
  <2> QED BY <1>1, <1>3, <2>1
<1>6. CASE f.type \notin {"Torn", "Bad"} /\ r.filled = 0
  <2>0. TakeFrame(r, f) = HandleFrame(r, f) /\ f.seq \in Seqs
    BY <1>6, FrameFields DEF TakeFrame
  <2>1. CASE f.type = "Data"
    <3>1. TakeFrame(r, f) = HandleData(r, f)
      BY <2>0, <2>1 DEF HandleFrame
    <3>2. CASE IsClosed(r)
      BY <1>1, <3>1, <3>2 DEF HandleData, Skipped
    <3>3. CASE ~IsClosed(r) /\ f.seq = r.expected
      <4> DEFINE u == BeginReply(r, "Ack", f.seq, f, "Deliver")
      <4>1. HandleData(r, f) = u
        BY <3>3 DEF HandleData
      <4>2. SameLatches(u, r) /\ u.action = "Deliver" /\ Acks(u, f.seq, f)
        BY DEF BeginReply, RxType, Acks
      <4> QED BY <2>1, <3>1, <3>3, <4>1, <4>2 DEF Accepted
    <3>4. CASE ~IsClosed(r) /\ f.seq # r.expected /\ f.seq = Previous(r.expected)
      <4> DEFINE u == BeginReply(r, "Ack", f.seq, f, "Duplicate")
      <4>1. HandleData(r, f) = u
        BY <3>4 DEF HandleData
      <4>2. SameLatches(u, r) /\ u.action = "Duplicate" /\ Acks(u, f.seq, f)
        BY DEF BeginReply, RxType, Acks
      <4> QED BY <2>1, <3>1, <3>4, <4>1, <4>2 DEF Repeated
    <3>5. CASE ~IsClosed(r) /\ f.seq # r.expected /\ f.seq # Previous(r.expected)
      <4> DEFINE u == BeginReply(r, "Nack", f.seq, f, "Rejected")
      <4>1. HandleData(r, f) = u
        BY <3>5 DEF HandleData
      <4>2. SameLatches(u, r) /\ u.action = "Rejected" /\ u.reply.type = "Nack"
        BY DEF BeginReply, RxType, MkFrame
      <4> QED BY <3>1, <4>1, <4>2 DEF Nacked
    <3> QED BY <3>2, <3>3, <3>4, <3>5
  <2>2. CASE f.type = "Start"
    <3> DEFINE x == [r EXCEPT !.expected = 0, !.finish_seq = NoSeq,
                              !.abort_latched = FALSE]
               u == BeginReply(x, "Ack", 0, f, "Started")
    <3>1. TakeFrame(r, f) = u
      BY <2>0, <2>2 DEF HandleFrame, HandleStart
    <3>2. /\ u.expected = 0 /\ u.finish_seq = NoSeq /\ u.abort_latched = FALSE
          /\ u.action = "Started" /\ Acks(u, 0, f)
      BY DEF BeginReply, RxType, Acks
    <3> QED BY <2>2, <3>1, <3>2 DEF Restarted
  <2>3. CASE f.type = "Abort"
    <3>1. CASE IsFinished(r)
      BY <1>1, <2>0, <2>3, <3>1 DEF HandleFrame, HandleAbort, Skipped
    <3>2. CASE ~IsFinished(r)
      <4> DEFINE x == [r EXCEPT !.abort_latched = TRUE, !.expected = 0]
                 u == BeginReply(x, "Ack", 0, f, "Aborted")
      <4>1. TakeFrame(r, f) = u
        BY <2>0, <2>3, <3>2 DEF HandleFrame, HandleAbort
      <4>2. /\ u.expected = 0 /\ u.finish_seq = r.finish_seq
            /\ u.abort_latched = TRUE /\ u.action = "Aborted" /\ Acks(u, 0, f)
        BY DEF BeginReply, RxType, Acks
      <4> QED BY <2>3, <3>2, <4>1, <4>2 DEF Cancelled
    <3> QED BY <3>1, <3>2
  <2>4. CASE f.type = "Finish"
    <3>1. TakeFrame(r, f) = HandleFinish(r, f)
      BY <2>0, <2>4 DEF HandleFrame
    <3>2. CASE r.abort_latched \/ (IsFinished(r) /\ f.seq # r.finish_seq)
      BY <1>1, <3>1, <3>2 DEF HandleFinish, Skipped
    <3>3. CASE ~r.abort_latched /\ IsFinished(r) /\ f.seq = r.finish_seq
      <4> DEFINE u == BeginReply(r, "Ack", f.seq, f, "Finished")
      <4>1. HandleFinish(r, f) = u
        BY <3>3 DEF HandleFinish
      <4>2. SameLatches(u, r) /\ u.action = "Finished" /\ Acks(u, f.seq, f)
        BY DEF BeginReply, RxType, Acks
      <4> QED BY <2>0, <2>4, <3>1, <3>3, <4>1, <4>2 DEF Concluded
    <3>4. CASE ~r.abort_latched /\ ~IsFinished(r) /\ f.seq # r.expected
      <4> DEFINE u == BeginReply(r, "Nack", f.seq, f, "Rejected")
      <4>1. HandleFinish(r, f) = u
        BY <3>4 DEF HandleFinish
      <4>2. SameLatches(u, r) /\ u.action = "Rejected" /\ u.reply.type = "Nack"
        BY DEF BeginReply, RxType, MkFrame
      <4> QED BY <3>1, <4>1, <4>2 DEF Nacked
    <3>5. CASE ~r.abort_latched /\ ~IsFinished(r) /\ f.seq = r.expected
      <4> DEFINE x == [r EXCEPT !.finish_seq = f.seq]
                 u == BeginReply(x, "Ack", f.seq, f, "Finished")
      <4>1. HandleFinish(r, f) = u
        BY <3>5 DEF HandleFinish
      <4>2. /\ u.expected = r.expected /\ u.abort_latched = r.abort_latched
            /\ u.finish_seq = f.seq /\ u.action = "Finished" /\ Acks(u, f.seq, f)
        BY DEF BeginReply, RxType, Acks
      <4> QED BY <2>0, <2>4, <3>1, <3>5, <4>1, <4>2 DEF Concluded
    <3> QED BY <3>2, <3>3, <3>4, <3>5
  <2>5. CASE f.type \in {"Ack", "Nack"}
    BY <1>1, <2>0, <2>5 DEF HandleFrame, Skipped
  <2> QED BY <1>6, <2>1, <2>2, <2>3, <2>4, <2>5, FrameFields DEF FrameTypes
<1> QED BY <1>4, <1>5, <1>6

-----------------------------------------------------------------------------
(* What one poll does to a pump. *)

(* A pump whose sender writes only the frame of a flight. *)
PumpTyped(pu) == pu \in PumpType /\ (pu.tx.writing => InFlight(pu.tx))

LEMMA PumpFields ==
  ASSUME NEW pu \in PumpType
  PROVE  /\ pu.tx \in TxType /\ pu.rx \in RxType
         /\ pu.tx_done_seen \in BOOLEAN /\ pu.pending_completed \in BOOLEAN
         /\ pu.rx.reply \in Frame /\ pu.tx.writing \in BOOLEAN
BY DEF PumpType, RxType, TxType

(* A sender writes only the frame of a flight. *)
SenderTyped(t) == t \in TxType /\ (t.writing => InFlight(t))

LEMMA AfterTxTyped ==
  ASSUME NEW t, SenderTyped(t), NEW ts \in TxSteps, NEW cin \in Seq(Frame), NEW calm,
         TxCan(t, ts, cin, calm)
  PROVE  SenderTyped(AfterTx(t, ts, cin))
<1>0. t \in TxType
  BY DEF SenderTyped
<1>1. CASE ts = "none"
  BY <1>1 DEF AfterTx
<1>2. CASE ts = "begin"
  <2>1. AfterTx(t, ts, cin) = BeginWrite(t) /\ InFlight(t)
    BY <1>2 DEF AfterTx, TxCan, WantsWrite
  <2>2. BeginWrite(t) \in TxType
    BY <1>0, TxOpsType
  <2>3. InFlight(BeginWrite(t))
    BY <1>0, <2>1, WriteFields DEF InFlight, SameFlight
  <2> QED BY <2>1, <2>2, <2>3 DEF SenderTyped
<1>3. CASE ts = "end"
  <2>1. AfterTx(t, ts, cin) = EndWrite(t)
    BY <1>3 DEF AfterTx
  <2>2. EndWrite(t) \in TxType
    BY <1>0, TxOpsType
  <2>3. ~EndWrite(t).writing
    BY <1>0, WriteFields
  <2> QED BY <2>1, <2>2, <2>3 DEF SenderTyped
<1>4. CASE ts = "read"
  <2>1. AfterTx(t, ts, cin) = OnControl(t, Head(cin)) /\ Waits(t) /\ Head(cin) \in Frame
    BY <1>4, TailFacts DEF AfterTx, TxCan
  <2>2. ~t.writing
    BY <2>1 DEF Waits
  <2>3. ~OnControl(t, Head(cin)).writing
    <3>1. ~ForceAbort(t).writing /\ OnAck(t).writing = t.writing
      BY <1>0, ForceAbortFields, AckFields
    <3> QED BY <1>0, <2>1, <2>2, <3>1, ControlFields
  <2> QED BY <1>0, <2>1, <2>3, TxOpsType DEF SenderTyped
<1>5. CASE ts = "tick"
  <2>1. AfterTx(t, ts, cin) = OnEmptyRead(t) /\ Waits(t)
    BY <1>5 DEF AfterTx, TxCan
  <2>2. ~OnEmptyRead(t).writing
    BY <1>0, <2>1, AttemptFields DEF Waits
  <2> QED BY <1>0, <2>1, <2>2, TxOpsType DEF SenderTyped
<1> QED BY <1>1, <1>2, <1>3, <1>4, <1>5 DEF TxSteps

(* Every offer is a flight to write. *)
LEMMA OffersTyped ==
  ASSUME NEW t, SenderTyped(t), NEW s \in Nat, NEW n \in Nat,
         NEW x \in {OfferStart(t, s), Offer(t, s, n), OfferFinish(t, s, n),
                    OfferAbort(t, s, n)}
  PROVE  SenderTyped(x) /\ x.state = "Sending"
<1>1. t \in TxType
  BY DEF SenderTyped
<1>2. x \in TxType
  BY <1>1, TxOpsType
<1>3. x.state = "Sending" /\ x.flight.kind # "None"
  <2>1. CASE x = OfferStart(t, s)
    BY <1>1, <2>1 DEF OfferStart, Begin, TxType
  <2>2. CASE x = Offer(t, s, n)
    BY <1>1, <2>2 DEF Offer, Begin, TxType
  <2>3. CASE x = OfferFinish(t, s, n)
    BY <1>1, <2>3 DEF OfferFinish, Begin, TxType
  <2>4. CASE x = OfferAbort(t, s, n)
    BY <1>1, <2>4 DEF OfferAbort, Begin, TxType
  <2> QED BY <2>1, <2>2, <2>3, <2>4
<1> QED BY <1>2, <1>3 DEF SenderTyped, InFlight

LEMMA CancelTyped ==
  ASSUME NEW t, SenderTyped(t), NEW ro
  PROVE  /\ SenderTyped(CancelTx(t, ro))
         /\ CancelTx(t, ro).writing => CancelTx(t, ro) = t
BY TxOpsType, ForceAbortFields DEF CancelTx, SenderTyped

LEMMA AfterRxTyped ==
  ASSUME NEW r \in RxType, NEW rs \in RxSteps, NEW pin \in Seq(Frame), RxCan(r, rs, pin)
  PROVE  AfterRx(r, rs, pin) \in RxType
<1>1. CASE rs = "none"
  BY <1>1 DEF AfterRx
<1>2. CASE rs = "read"
  BY <1>2, TailFacts, RxOpsType DEF AfterRx, RxCan
<1>3. CASE rs = "reply"
  BY <1>3, RxOpsType DEF AfterRx
<1> QED BY <1>1, <1>2, <1>3 DEF RxSteps

(***************************************************************************)
(* The poll of a pump, its parts named: r is what Polled returns when no   *)
(* Completed is owed, ro and to the outcomes of the two halves.            *)
(***************************************************************************)
BothOf(pu, rs, ts, cin, pin, r, ro, t1, to) ==
  /\ ro = RxOutcome(pu.rx, rs) /\ t1 = CancelTx(pu.tx, ro)
  /\ r.pump.tx = AfterTx(t1, ts, cin) /\ r.pump.rx = AfterRx(pu.rx, rs, pin)
  /\ to = TxOutcome(t1, r.pump.tx)
  /\ r.event = PumpEvent(pu, ro, to)
  /\ r.pump.tx_done_seen = IF r.event = "Err" THEN pu.tx_done_seen ELSE to = "TransferDone"
  /\ r.pump.pending_completed = (r.event = "Received" /\ DoneEdge(pu, to))
  /\ r.pump = [tx |-> r.pump.tx, rx |-> r.pump.rx, tx_done_seen |-> r.pump.tx_done_seen,
               pending_completed |-> r.pump.pending_completed]
  /\ r.last_acked = (to = "Acked") /\ r.torn = (pu.tx.writing /\ ~t1.writing)

LEMMA PolledBoth ==
  ASSUME NEW pu \in PumpType, NEW rs, NEW ts, NEW cin, NEW pin,
         ~pu.pending_completed
  PROVE  \E ro, t1, to :
           BothOf(pu, rs, ts, cin, pin, Polled(pu, rs, ts, cin, pin), ro, t1, to)
<1> DEFINE ro == RxOutcome(pu.rx, rs)
           t1 == CancelTx(pu.tx, ro)
           t2 == AfterTx(t1, ts, cin)
           to == TxOutcome(t1, t2)
           r == Polled(pu, rs, ts, cin, pin)
<1>1. r = BothPolled(pu, rs, ts, cin, pin)
  BY DEF Polled
<1> DEFINE ev == PumpEvent(pu, ro, to)
           seen == IF ev = "Err" THEN pu.tx_done_seen ELSE to = "TransferDone"
           owed == ev = "Received" /\ DoneEdge(pu, to)
<1>2. r = [pump |-> [tx |-> t2, rx |-> AfterRx(pu.rx, rs, pin),
                     tx_done_seen |-> seen, pending_completed |-> owed],
           event |-> ev, last_acked |-> to = "Acked",
           torn |-> pu.tx.writing /\ ~t1.writing]
  BY <1>1 DEF BothPolled
<1>3. BothOf(pu, rs, ts, cin, pin, r, ro, t1, to)
  <2> HIDE DEF r, ro, t1, t2, to, ev, seen, owed
  <2>1. /\ r.pump.tx = t2 /\ r.pump.rx = AfterRx(pu.rx, rs, pin) /\ r.event = ev
        /\ r.pump = [tx |-> r.pump.tx, rx |-> r.pump.rx,
                     tx_done_seen |-> r.pump.tx_done_seen,
                     pending_completed |-> r.pump.pending_completed]
    BY <1>2
  <2>2. r.pump.tx_done_seen = seen /\ r.pump.pending_completed = owed
    BY <1>2, Zenon
  <2>3. r.last_acked = (to = "Acked") /\ r.torn = (pu.tx.writing /\ ~t1.writing)
    BY <1>2, Zenon
  <2> USE DEF ro, t1, t2, to, ev, seen, owed
  <2> QED BY <2>1, <2>2, <2>3, Zenon DEF BothOf
<1> QED BY <1>3

LEMMA PolledOwed ==
  ASSUME NEW pu \in PumpType, NEW rs, NEW ts, NEW cin, NEW pin,
         pu.pending_completed, NEW r, r = Polled(pu, rs, ts, cin, pin)
  PROVE  /\ r.pump.tx = pu.tx /\ r.pump.rx = pu.rx
         /\ r.event = "Completed" /\ r.pump \in PumpType
         /\ r.pump.tx_done_seen = pu.tx_done_seen /\ ~r.pump.pending_completed
<1>1. r.pump = [pu EXCEPT !.pending_completed = FALSE] /\ r.event = "Completed"
  BY DEF Polled
<1> QED BY <1>1 DEF PumpType

(* A poll keeps the pump's types, and sends only frames. *)
LEMMA PolledTyped ==
  ASSUME NEW pu, PumpTyped(pu), NEW rs \in RxSteps, NEW ts \in TxSteps,
         NEW cin \in Seq(Frame), NEW pin \in Seq(Frame), NEW calm,
         CanPoll(pu, rs, ts, cin, pin, calm),
         NEW r, r = Polled(pu, rs, ts, cin, pin)
  PROVE  /\ PumpTyped(r.pump)
         /\ ts = "end" => FlightFrame(pu.tx) \in Frame
         /\ rs = "read" => pin # <<>>
         /\ ts = "read" => cin # <<>>
<1>0. pu \in PumpType /\ SenderTyped(pu.tx)
  BY PumpFields DEF PumpTyped, SenderTyped
<1>1. CASE pu.pending_completed
  <2>1. rs = "none" /\ ts = "none"
    BY <1>1 DEF CanPoll
  <2>2. r.pump.tx = pu.tx /\ r.pump \in PumpType
    BY <1>0, <1>1, PolledOwed
  <2> QED BY <2>1, <2>2 DEF PumpTyped
<1>2. CASE ~pu.pending_completed
  <2>1. PICK ro, t1, to : BothOf(pu, rs, ts, cin, pin, r, ro, t1, to)
    BY <1>0, <1>2, PolledBoth
  <2>2. RxCan(pu.rx, rs, pin) /\ TxCan(t1, ts, cin, calm)
    BY <1>2, <2>1 DEF CanPoll, BothOf
  <2>3. SenderTyped(t1) /\ (t1.writing => t1 = pu.tx)
    BY <1>0, <2>1, CancelTyped DEF BothOf
  <2>4. SenderTyped(r.pump.tx)
    BY <2>1, <2>2, <2>3, AfterTxTyped DEF BothOf
  <2>5. r.pump.rx \in RxType
    BY <1>0, <2>1, <2>2, AfterRxTyped, PumpFields DEF BothOf
  <2>6. r.pump.tx_done_seen \in BOOLEAN /\ r.pump.pending_completed \in BOOLEAN
    <3>1. (to = "TransferDone") \in BOOLEAN /\ pu.tx_done_seen \in BOOLEAN
      BY <1>0, PumpFields
    <3>2. (r.event = "Received" /\ DoneEdge(pu, to)) \in BOOLEAN
      OBVIOUS
    <3> QED BY <2>1, <3>1, <3>2, Zenon DEF BothOf
  <2>7. r.pump \in PumpType
    <3>1. r.pump = [tx |-> r.pump.tx, rx |-> r.pump.rx,
                    tx_done_seen |-> r.pump.tx_done_seen,
                    pending_completed |-> r.pump.pending_completed]
      BY <2>1, Zenon DEF BothOf
    <3> QED BY <2>4, <2>5, <2>6, <3>1, Zenon DEF PumpType, SenderTyped
  <2>8. ts = "end" => FlightFrame(pu.tx) \in Frame
    <3> SUFFICES ASSUME ts = "end" PROVE FlightFrame(pu.tx) \in Frame
      OBVIOUS
    <3>1. pu.tx \in TxType /\ InFlight(pu.tx)
      BY <1>0, <2>2, <2>3 DEF TxCan, SenderTyped
    <3>2. /\ pu.tx.flight.kind \in FrameTypes /\ pu.tx.flight.seq \in Seqs
          /\ pu.tx.flight.sess \in Nat /\ pu.tx.flight.pos \in Nat
      BY <3>1 DEF TxType, Flight, InFlight, FlightKinds, FrameTypes
    <3> QED BY <3>2, FrameType DEF FlightFrame
  <2> QED BY <2>2, <2>4, <2>7, <2>8 DEF PumpTyped, SenderTyped, RxCan, TxCan
<1> QED BY <1>1, <1>2, <1>0, PumpFields

(* The order of precedence of the events. *)
LEMMA EventOf ==
  ASSUME NEW pu, NEW ro, NEW to, NEW ev, ev = PumpEvent(pu, ro, to)
  PROVE  /\ ev = "Err" <=> to = "RetriesExhausted"
         /\ ro = "Aborted" => ev \in {"Err", "Aborted"}
         /\ ro = "Finished" => ev \in {"Err", "Aborted", "Completed"}
         /\ ev = "Received" => ro = "Deliver"
         /\ ro = "Deliver" => ev \in {"Err", "Aborted", "Received"}
         /\ DoneEdge(pu, to) => ev \in {"Aborted", "Received", "Completed"}
         /\ ev = "Aborted" => "Aborted" \in {ro, to}
         /\ ev = "Completed" => ro = "Finished" \/ DoneEdge(pu, to)
BY DEF PumpEvent, DoneEdge
=============================================================================
