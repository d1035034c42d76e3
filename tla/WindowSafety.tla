---------------------------- MODULE WindowSafety ----------------------------
(***************************************************************************)
(* Proofs about Window for every sequence modulus, every window of at most *)
(* a third of it, every retry policy and every value of the bounds.        *)
(*                                                                         *)
(* First the operations of the sender and the receiver and the types of    *)
(* all reachable states, with or without drained restarts.  Then WInv,     *)
(* an invariant when sessions open on a drained line; with it InOrder,     *)
(* CloseIsComplete, AckedIsHeld and the refinement of ByteStream.          *)
(***************************************************************************)
EXTENDS WindowInv, HalvesProofs

Bytes == [sess : Nat, pos : Nat]

-----------------------------------------------------------------------------
(* The sender, operation by operation. *)

LEMMA WindowFacts ==
  /\ WindowLen \in Nat /\ WindowLen >= 1 /\ 3 * WindowLen <= SeqMod
  /\ SeqMod \in Nat /\ SeqMod >= 3
  /\ Slots = 1 .. WindowLen /\ Slots # {} /\ Slots \subseteq Nat
  /\ Offsets = 0 .. WindowLen - 1
BY WindowAssumption, SeqModAssumption DEF Slots, Offsets

LEMMA LeastIn ==
  ASSUME NEW S, S \subseteq Slots, S # {}
  PROVE  Least(S) \in S
<1>1. S \subseteq Nat
  BY WindowFacts
<1> QED BY <1>1, LeastExists DEF Least

LEMMA SlotType ==
  /\ NoSlot \in Slot /\ NoSlot.kind = "None"
  /\ Cleared \in [Slots -> Slot]
  /\ \A i \in Slots : Cleared[i].kind = "None"
<1>1. NoSlot \in Slot /\ NoSlot.kind = "None"
  BY SeqTypes, PolicyAssumption DEF NoSlot, Slot, FlightKinds
<1> QED BY <1>1 DEF Cleared

(* The updates of a slot. *)
LEMMA SlotUpdates ==
  ASSUME NEW sl \in Slot
  PROVE  /\ [sl EXCEPT !.written = TRUE, !.needs_retransmit = FALSE,
                       !.empty_ticks = 0] \in Slot
         /\ sl.retries_left # 0 => Charged(sl) \in Slot
         /\ ~(sl.empty_ticks + 1 >= TimeoutTicks) =>
              [sl EXCEPT !.empty_ticks = sl.empty_ticks + 1] \in Slot
<1> USE PolicyAssumption
<1>1. /\ 0 \in 0 .. TimeoutTicks
      /\ sl.retries_left # 0 => sl.retries_left - 1 \in 0 .. MaxRetries
      /\ ~(sl.empty_ticks + 1 >= TimeoutTicks) =>
           sl.empty_ticks + 1 \in 0 .. TimeoutTicks
  BY DEF Slot
<1>2. [sl EXCEPT !.written = TRUE, !.needs_retransmit = FALSE,
                 !.empty_ticks = 0] \in Slot
  BY <1>1, Zenon DEF Slot
<1>3. sl.retries_left # 0 => Charged(sl) \in Slot
  BY <1>1, Zenon DEF Slot, Charged
<1>4. ~(sl.empty_ticks + 1 >= TimeoutTicks) =>
        [sl EXCEPT !.empty_ticks = sl.empty_ticks + 1] \in Slot
  BY <1>1, Zenon DEF Slot
<1> QED BY <1>2, <1>3, <1>4

(* Slot sl carries the frame it is given. *)
Carries(sl, kind, q, s, p) ==
  sl.kind = kind /\ sl.seq = q /\ sl.sess = s /\ sl.pos = p

(* u is w with one frame more, in slot i. *)
Inserted(u, w, i, kind, q, s, p) ==
  /\ i \in Slots /\ i \notin Used(w)
  /\ Carries(u.slots[i], kind, q, s, p)
  /\ \A j \in Slots : j # i => u.slots[j] = w.slots[j]
  /\ Used(u) = Used(w) \cup {i}
  /\ u.state = "Sending" /\ u.limit = w.limit /\ u.writing = w.writing

LEMMA InsertFields ==
  ASSUME NEW w \in WTxType, Used(w) # Slots, NEW kind \in FlightKinds,
         NEW q \in Seqs, NEW s \in Nat, NEW p \in Nat,
         NEW u, u = Insert(w, kind, q, s, p)
  PROVE  /\ u \in WTxType /\ u.next_seq = w.next_seq
         /\ \E i \in Slots : Inserted(u, w, i, kind, q, s, p)
<1> DEFINE i == Least(Slots \ Used(w))
           sl == [kind |-> kind, seq |-> q, sess |-> s, pos |-> p,
                  retries_left |-> MaxRetries, written |-> FALSE,
                  needs_retransmit |-> FALSE, empty_ticks |-> 0]
<1>1. i \in Slots /\ i \notin Used(w)
  <2>1. Slots \ Used(w) # {}
    BY DEF Used
  <2> QED BY <2>1, LeastIn
<1>2. sl \in Slot /\ Carries(sl, kind, q, s, p)
  BY PolicyAssumption DEF Slot, Carries
<1>3. u = [w EXCEPT !.slots[i] = sl, !.state = "Sending"]
  BY DEF Insert
<1> HIDE DEF i, sl
<1>4. u \in WTxType
  <2> DEFINE ss == [w.slots EXCEPT ![i] = sl]
  <2>1. ss \in [Slots -> Slot]
    BY <1>1, <1>2 DEF WTxType
  <2>2. u = [w EXCEPT !.slots = ss, !.state = "Sending"]
    BY <1>3
  <2> HIDE DEF ss
  <2> QED BY <2>1, <2>2 DEF WTxType, TxStates
<1>5. /\ u.next_seq = w.next_seq /\ u.state = "Sending" /\ u.limit = w.limit
      /\ u.writing = w.writing /\ u.slots[i] = sl
      /\ \A j \in Slots : j # i => u.slots[j] = w.slots[j]
  BY <1>1, <1>3 DEF WTxType
<1>6. Used(u) = Used(w) \cup {i}
  BY <1>1, <1>2, <1>5 DEF Used, Carries, FlightKinds
<1> QED BY <1>1, <1>2, <1>4, <1>5, <1>6 DEF Inserted

(* u holds one frame and nothing else. *)
Sole(u, kind, q, s, p) ==
  \E i \in Slots : /\ Used(u) = {i} /\ Carries(u.slots[i], kind, q, s, p)
                   /\ u.state = "Sending"

LEMMA WOfferStartFields ==
  ASSUME NEW w \in WTxType, NEW s \in Nat, NEW u, u = WOfferStart(w, s), w.writing = 0
  PROVE  u \in WTxType /\ Sole(u, "Start", 0, s, 0) /\ u.writing = 0
<1> DEFINE v == [w EXCEPT !.next_seq = 0, !.slots = Cleared]
<1>1. v \in WTxType /\ v.writing = 0 /\ v.slots = Cleared
  BY SlotType, SeqTypes DEF WTxType
<1>2. Used(v) = {} /\ Used(v) # Slots
  BY <1>1, SlotType, WindowFacts DEF Used
<1>3. u = Insert(v, "Start", 0, s, 0)
  BY DEF WOfferStart
<1> HIDE DEF v
<1>4. u \in WTxType /\ \E i \in Slots : Inserted(u, v, i, "Start", 0, s, 0)
  BY <1>1, <1>2, <1>3, SeqTypes, InsertFields DEF FlightKinds
<1> QED BY <1>1, <1>2, <1>4 DEF Inserted, Sole

LEMMA WOfferAbortFields ==
  ASSUME NEW w \in WTxType, NEW s \in Nat, NEW p \in Nat, NEW u, u = WOfferAbort(w, s, p)
  PROVE  u \in WTxType /\ Sole(u, "Abort", 0, s, p) /\ u.writing = 0
<1> DEFINE v == [w EXCEPT !.slots = Cleared, !.writing = 0, !.next_seq = 0]
<1>1. v \in WTxType /\ v.writing = 0 /\ v.slots = Cleared
  BY SlotType, SeqTypes DEF WTxType
<1>2. Used(v) = {} /\ Used(v) # Slots
  BY <1>1, SlotType, WindowFacts DEF Used
<1>3. u = Insert(v, "Abort", 0, s, p)
  BY DEF WOfferAbort
<1> HIDE DEF v
<1>4. u \in WTxType /\ \E i \in Slots : Inserted(u, v, i, "Abort", 0, s, p)
  BY <1>1, <1>2, <1>3, SeqTypes, InsertFields DEF FlightKinds
<1> QED BY <1>1, <1>2, <1>4 DEF Inserted, Sole

LEMMA WOfferFinishFields ==
  ASSUME NEW w \in WTxType, NEW s \in Nat, NEW p \in Nat, Used(w) = {},
         NEW u, u = WOfferFinish(w, s, p)
  PROVE  /\ u \in WTxType /\ Sole(u, "Finish", w.next_seq, s, p)
         /\ u.writing = w.writing /\ u.next_seq = w.next_seq
<1>1. w.next_seq \in Seqs /\ Used(w) # Slots
  BY WindowFacts DEF WTxType
<1>2. /\ u \in WTxType /\ u.next_seq = w.next_seq
      /\ \E i \in Slots : Inserted(u, w, i, "Finish", w.next_seq, s, p)
  BY <1>1, InsertFields DEF FlightKinds, WOfferFinish
<1> QED BY <1>2 DEF Inserted, Sole

LEMMA WOfferFields ==
  ASSUME NEW w \in WTxType, NEW s \in Nat, NEW p \in Nat, Used(w) # Slots,
         NEW u, u = WOffer(w, s, p)
  PROVE  /\ u \in WTxType /\ u.next_seq = Advance(w.next_seq)
         /\ \E i \in Slots : Inserted(u, w, i, "Data", w.next_seq, s, p)
<1> DEFINE v == Insert(w, "Data", w.next_seq, s, p)
<1>1. w.next_seq \in Seqs
  BY DEF WTxType
<1>2. /\ v \in WTxType /\ v.next_seq = w.next_seq
      /\ \E i \in Slots : Inserted(v, w, i, "Data", w.next_seq, s, p)
  BY <1>1, InsertFields DEF FlightKinds
<1>3. u = [v EXCEPT !.next_seq = Advance(@)]
  BY DEF WOffer
<1> HIDE DEF v
<1>4. /\ u \in WTxType /\ u.next_seq = Advance(w.next_seq)
      /\ u.slots = v.slots /\ u.state = v.state /\ u.limit = v.limit
      /\ u.writing = v.writing
  BY <1>1, <1>2, <1>3, SeqTypes DEF WTxType
<1>5. Used(u) = Used(v)
  BY <1>4 DEF Used
<1> QED BY <1>2, <1>4, <1>5 DEF Inserted

(* The slots keep their frames. *)
SameFrame(a, b) ==
  a.kind = b.kind /\ (b.kind # "None" => Carries(a, b.kind, b.seq, b.sess, b.pos))

SameSlots(u, w) ==
  /\ \A i \in Slots : SameFrame(u.slots[i], w.slots[i])
  /\ u.next_seq = w.next_seq /\ u.limit = w.limit

LEMMA SameSlotsUsed ==
  ASSUME NEW u, NEW w, SameSlots(u, w)
  PROVE  Used(u) = Used(w)
BY DEF SameSlots, SameFrame, Carries, Used

(* No slot is in use any more. *)
Emptied(u, state) == u \in WTxType /\ Used(u) = {} /\ u.writing = 0 /\ u.state = state

LEMMA EmptiedFields ==
  ASSUME NEW w \in WTxType
  PROVE  /\ Emptied(WForceAbort(w), "Aborted")
         /\ w.writing = 0 => Emptied(WFail(w), "Failed")
<1>1. /\ WForceAbort(w) \in WTxType /\ WForceAbort(w).writing = 0
      /\ WForceAbort(w).slots = Cleared /\ WForceAbort(w).state = "Aborted"
  BY SlotType DEF WForceAbort, WTxType, TxStates
<1>2. /\ WFail(w) \in WTxType /\ WFail(w).writing = w.writing
      /\ WFail(w).slots = Cleared /\ WFail(w).state = "Failed"
  BY SlotType DEF WFail, WTxType, TxStates
<1> QED BY <1>1, <1>2, SlotType DEF Emptied, Used

LEMMA BeginWriteFields ==
  ASSUME NEW w \in WTxType, WWantsWrite(w), NEW u, u = WBeginWrite(w)
  PROVE  /\ u \in WTxType /\ SameSlots(u, w)
         /\ u.writing \in Used(w) /\ u.state = "Sending"
<1> DEFINE S == IF Again(w) # {} THEN Again(w) ELSE New(w)
<1>1. S \subseteq Used(w) /\ S # {} /\ S \subseteq Slots
  BY DEF WWantsWrite, Again, New, Used
<1>2. Least(S) \in Used(w) /\ Least(S) \in Slots
  <2> HIDE DEF S
  <2> QED BY <1>1, LeastIn
<1>3. u = [w EXCEPT !.writing = Least(S), !.state = "Sending"]
  BY DEF WBeginWrite
<1> HIDE DEF S
<1>4. /\ u \in WTxType /\ u.slots = w.slots /\ u.next_seq = w.next_seq
      /\ u.limit = w.limit /\ u.writing = Least(S) /\ u.state = "Sending"
  BY <1>2, <1>3 DEF WTxType, TxStates
<1> QED BY <1>2, <1>4 DEF SameSlots, SameFrame, Carries

LEMMA EndWriteFields ==
  ASSUME NEW w \in WTxType, w.writing \in Slots, NEW u, u = WEndWrite(w)
  PROVE  /\ u \in WTxType /\ SameSlots(u, w)
         /\ u.writing = 0 /\ u.state = "WaitingAck"
<1> DEFINE k == w.writing
           sl == [w.slots[k] EXCEPT !.written = TRUE, !.needs_retransmit = FALSE,
                                    !.empty_ticks = 0]
           ss == [w.slots EXCEPT ![k] = sl]
<1>1. w.slots[k] \in Slot
  BY DEF WTxType
<1>2. sl \in Slot
  BY <1>1, SlotUpdates
<1>3. SameFrame(sl, w.slots[k])
  BY <1>1 DEF Slot, SameFrame, Carries
<1>4. u = [w EXCEPT !.slots = ss, !.writing = 0, !.state = "WaitingAck"]
  BY DEF WEndWrite
<1> HIDE DEF sl
<1>5. ss \in [Slots -> Slot]
  BY <1>2 DEF WTxType
<1>6. \A i \in Slots : SameFrame(ss[i], w.slots[i])
  BY <1>3 DEF WTxType, SameFrame, Carries
<1> HIDE DEF ss
<1>7. /\ u \in WTxType /\ u.slots = ss /\ u.next_seq = w.next_seq
      /\ u.limit = w.limit /\ u.writing = 0 /\ u.state = "WaitingAck"
  BY <1>4, <1>5 DEF WTxType, TxStates
<1> QED BY <1>6, <1>7 DEF SameSlots

(* The slot that an ACK frees, and where that takes the sender. *)
Freed(u, w, i) ==
  /\ u \in WTxType /\ u.writing = w.writing /\ u.limit = w.limit
  /\ Used(u) = Used(w) \ {i}
  /\ \A j \in Slots : j # i => u.slots[j] = w.slots[j]
  /\ LET kind == w.slots[i].kind
     IN /\ kind = "Data" => /\ u.state \in {"Idle", "WaitingAck"}
                            /\ u.next_seq = w.next_seq
        /\ kind = "Start" => u.state = "Idle" /\ u.next_seq = 0
        /\ kind = "Finish" => u.state = "Finished"
        /\ kind \notin {"Data", "Start", "Finish"} => u.state = "Aborted"

LEMMA WAckFields ==
  ASSUME NEW w \in WTxType, NEW i \in Used(w)
  PROVE  Freed(WOnAck(w, i), w, i)
<1> DEFINE rest == [w EXCEPT !.slots[i] = NoSlot]
           ss == [w.slots EXCEPT ![i] = NoSlot]
           u == WOnAck(w, i)
<1>0. i \in Slots
  BY DEF Used
<1>1. ss \in [Slots -> Slot] /\ rest = [w EXCEPT !.slots = ss]
  BY <1>0, SlotType DEF WTxType
<1>2. ss[i] = NoSlot /\ \A j \in Slots : j # i => ss[j] = w.slots[j]
  BY <1>0 DEF WTxType
<1>3. /\ rest.writing = w.writing /\ rest.limit = w.limit /\ rest.slots = ss
      /\ rest.next_seq = w.next_seq /\ rest \in WTxType
  <2> HIDE DEF ss
  <2> QED BY <1>1 DEF WTxType
<1>4. /\ w.slots[i].kind = "Data" =>
           u = [rest EXCEPT !.state = IF Used(rest) = {} THEN "Idle" ELSE "WaitingAck"]
      /\ w.slots[i].kind = "Start" => u = [rest EXCEPT !.next_seq = 0, !.state = "Idle"]
      /\ w.slots[i].kind = "Finish" => u = [rest EXCEPT !.state = "Finished"]
      /\ w.slots[i].kind \notin {"Data", "Start", "Finish"} =>
           u = [rest EXCEPT !.state = "Aborted"]
  BY DEF WOnAck
<1> HIDE DEF rest, ss, u
<1>5. u.slots = ss /\ u.writing = w.writing /\ u.limit = w.limit /\ u \in WTxType
  BY <1>3, <1>4, SeqTypes DEF WTxType, TxStates
<1>6. /\ w.slots[i].kind = "Data" => u.state \in {"Idle", "WaitingAck"}
      /\ w.slots[i].kind = "Data" => u.next_seq = w.next_seq
      /\ w.slots[i].kind = "Start" => u.state = "Idle" /\ u.next_seq = 0
      /\ w.slots[i].kind = "Finish" => u.state = "Finished"
      /\ w.slots[i].kind \notin {"Data", "Start", "Finish"} => u.state = "Aborted"
  BY <1>3, <1>4 DEF WTxType
<1>7. Used(u) = Used(w) \ {i}
  BY <1>0, <1>2, <1>5, SlotType DEF Used
<1> QED BY <1>2, <1>5, <1>6, <1>7 DEF Freed, u

(* A failed attempt ends the session or keeps every frame. *)
Retried(u, w) ==
  \/ Emptied(u, "Failed")
  \/ /\ u \in WTxType /\ SameSlots(u, w) /\ u.writing = w.writing
     /\ u.state \in {"Retrying", w.state}

LEMMA ChargedFrame ==
  ASSUME NEW sl \in Slot
  PROVE  SameFrame(Charged(sl), sl)
BY DEF Slot, SameFrame, Carries, Charged

LEMMA NackFields ==
  ASSUME NEW w \in WTxType, w.writing = 0, NEW i \in Used(w)
  PROVE  Retried(WOnNack(w, i), w)
<1> DEFINE sl == Charged(w.slots[i])
           ss == [w.slots EXCEPT ![i] = sl]
           u == WOnNack(w, i)
<1>1. i \in Slots /\ w.slots[i] \in Slot
  BY DEF Used, WTxType
<1>2. CASE w.slots[i].retries_left = 0
  BY <1>2, EmptiedFields DEF WOnNack, Retried
<1>3. CASE w.slots[i].retries_left # 0
  <2>1. sl \in Slot /\ SameFrame(sl, w.slots[i])
    BY <1>1, <1>3, SlotUpdates, ChargedFrame
  <2>2. u = [w EXCEPT !.slots = ss, !.state = "Retrying"]
    BY <1>3 DEF WOnNack
  <2> HIDE DEF sl
  <2>3. ss \in [Slots -> Slot] /\ \A j \in Slots : SameFrame(ss[j], w.slots[j])
    BY <1>1, <2>1 DEF WTxType, SameFrame, Carries
  <2> HIDE DEF ss, u
  <2>4. /\ u \in WTxType /\ u.slots = ss /\ u.next_seq = w.next_seq
        /\ u.limit = w.limit /\ u.writing = w.writing /\ u.state = "Retrying"
    BY <2>2, <2>3 DEF WTxType, TxStates
  <2> QED BY <2>3, <2>4 DEF Retried, SameSlots, u
<1> QED BY <1>2, <1>3

LEMMA EmptyReadFields ==
  ASSUME NEW w \in WTxType, w.writing = 0
  PROVE  Retried(WOnEmptyRead(w), w)
<1> DEFINE expired == {i \in Used(w) : w.slots[i].empty_ticks + 1 >= TimeoutTicks}
           ss == [i \in Slots |->
                CASE i \in expired -> Charged(w.slots[i])
                  [] i \in Used(w) \ expired ->
                       [w.slots[i] EXCEPT !.empty_ticks = w.slots[i].empty_ticks + 1]
                  [] OTHER -> NoSlot]
           st == IF expired # {} THEN "Retrying" ELSE w.state
           u == WOnEmptyRead(w)
<1>1. CASE \E i \in expired : w.slots[i].retries_left = 0
  <2>1. u = WFail(w)
    BY <1>1 DEF WOnEmptyRead
  <2> QED BY <2>1, EmptiedFields DEF Retried
<1>2. CASE ~\E i \in expired : w.slots[i].retries_left = 0
  <2>1. u = [w EXCEPT !.slots = ss, !.state = st]
    BY <1>2 DEF WOnEmptyRead
  <2>2. ASSUME NEW i \in Slots
        PROVE  ss[i] \in Slot /\ SameFrame(ss[i], w.slots[i])
    <3> DEFINE sl == w.slots[i]
               tl == [sl EXCEPT !.empty_ticks = sl.empty_ticks + 1]
    <3>1. sl \in Slot
      BY DEF WTxType
    <3>2. CASE i \in expired
      <4>1. ss[i] = Charged(sl) /\ sl.retries_left # 0
        BY <1>2, <3>2
      <4> QED BY <3>1, <4>1, SlotUpdates, ChargedFrame
    <3>3. CASE i \in Used(w) \ expired
      <4>1. ss[i] = tl /\ ~(sl.empty_ticks + 1 >= TimeoutTicks)
        BY <3>3
      <4>2. SameFrame(tl, sl)
        BY <3>1 DEF Slot, SameFrame, Carries
      <4> QED BY <3>1, <4>1, <4>2, SlotUpdates
    <3>4. CASE i \notin Used(w)
      <4>1. ss[i] = NoSlot
        BY <3>4
      <4> QED BY <3>4, <4>1, SlotType DEF SameFrame, Used
    <3> QED BY <3>2, <3>3, <3>4
  <2>3. ss \in [Slots -> Slot] /\ st \in {"Retrying", w.state} /\ st \in TxStates
    BY <2>2 DEF WTxType, TxStates
  <2> HIDE DEF ss, st, u
  <2>4. /\ u \in WTxType /\ u.slots = ss /\ u.next_seq = w.next_seq
        /\ u.limit = w.limit /\ u.writing = w.writing /\ u.state = st
    BY <2>1, <2>3 DEF WTxType
  <2> QED BY <2>2, <2>3, <2>4 DEF Retried, SameSlots, u
<1> QED BY <1>1, <1>2

(* What a frame that the sender reads can do to it. *)
LEMMA WControlFields ==
  ASSUME NEW w \in WTxType, w.writing = 0, NEW f, NEW u, u = WOnControl(w, f)
  PROVE  \/ f.type # "Ack" /\ Emptied(u, "Aborted")
         \/ f.type = "Ack" /\ \E i \in Matching(w, f) : Freed(u, w, i)
         \/ (f.type = "Ack" => Matching(w, f) = {}) /\ Retried(u, w)
<1>1. CASE f.type = "Abort"
  BY <1>1, EmptiedFields DEF WOnControl
<1>2. CASE f.type \in {"Ack", "Nack"} /\ Matching(w, f) # {}
  <2> DEFINE i == Least(Matching(w, f))
  <2>1. i \in Matching(w, f) /\ i \in Used(w)
    BY <1>2, LeastIn DEF Matching, Used
  <2>2. f.type = "Ack" => u = WOnAck(w, i)
    BY <1>2 DEF WOnControl
  <2>3. f.type = "Nack" => u = WOnNack(w, i)
    BY <1>2 DEF WOnControl
  <2> HIDE DEF i
  <2>4. f.type = "Ack" => Freed(u, w, i)
    BY <2>1, <2>2, WAckFields
  <2>5. f.type = "Nack" => Retried(u, w)
    BY <2>1, <2>3, NackFields
  <2> QED BY <1>2, <2>1, <2>4, <2>5
<1>3. CASE f.type # "Abort" /\ ~(f.type \in {"Ack", "Nack"} /\ Matching(w, f) # {})
  <2>1. u = w
    BY <1>3 DEF WOnControl
  <2>2. Retried(w, w)
    BY DEF Retried, SameSlots, SameFrame, Carries
  <2> QED BY <1>3, <2>1, <2>2
<1> QED BY <1>1, <1>2, <1>3

-----------------------------------------------------------------------------
(* Distances of sequence numbers. *)

LEMMA ModUniqueInt ==
  ASSUME NEW a \in Int, NEW q \in Int, NEW r \in Seqs, a = SeqMod * q + r
  PROVE  a % SeqMod = r
<1> DEFINE d == q - (a \div SeqMod)
           e == (a % SeqMod) - r
<1>0. /\ a % SeqMod \in Seqs /\ a \div SeqMod \in Int
      /\ a = SeqMod * (a \div SeqMod) + (a % SeqMod)
  BY SeqModAssumption DEF Seqs
<1>1. d \in Int /\ e \in Int /\ -SeqMod < e /\ e < SeqMod
  BY <1>0, SeqModAssumption DEF Seqs
<1>2. d * SeqMod = e
  BY <1>0, SeqModAssumption DEF Seqs
<1>3. e = 0
  <2> HIDE DEF d, e
  <2> QED BY <1>1, <1>2, SmallMultiple
<1> QED BY <1>0, <1>3, SeqModAssumption DEF Seqs

(* wrapping_sub tells how far x is after y, or before it, as long as they  *)
(* are less than the whole sequence space apart.                           *)
LEMMA SubMod ==
  ASSUME NEW x \in Nat, NEW y \in Nat
  PROVE  /\ x >= y /\ x - y < SeqMod => Sub(x % SeqMod, y % SeqMod) = x - y
         /\ x < y /\ y - x < SeqMod => Sub(x % SeqMod, y % SeqMod) = SeqMod + x - y
<1> DEFINE a == x % SeqMod
           b == y % SeqMod
           qx == x \div SeqMod
           qy == y \div SeqMod
<1>1. /\ a \in Seqs /\ qx \in Int /\ x = SeqMod * qx + a
      /\ b \in Seqs /\ qy \in Int /\ y = SeqMod * qy + b
  BY DivMod
<1> HIDE DEF a, b, qx, qy
<1>2. a - b \in Int
  BY <1>1, SeqModAssumption DEF Seqs
<1>3. ASSUME x >= y, x - y < SeqMod
      PROVE  (a - b) % SeqMod = x - y
  <2> DEFINE r == x - y
             q == qy - qx
  <2>1. r \in Seqs /\ q \in Int /\ a - b = SeqMod * q + r
    BY <1>1, <1>3, SeqModAssumption DEF Seqs
  <2> HIDE DEF r, q
  <2>2. (a - b) % SeqMod = r
    BY <1>2, <2>1, ModUniqueInt
  <2> QED BY <2>2 DEF r
<1>4. ASSUME x < y, y - x < SeqMod
      PROVE  (a - b) % SeqMod = SeqMod + x - y
  <2> DEFINE r == SeqMod + x - y
             q == qy - qx - 1
  <2>1. r \in Seqs /\ q \in Int /\ a - b = SeqMod * q + r
    BY <1>1, <1>4, SeqModAssumption DEF Seqs
  <2> HIDE DEF r, q
  <2>2. (a - b) % SeqMod = r
    BY <1>2, <2>1, ModUniqueInt
  <2> QED BY <2>2 DEF r
<1> QED BY <1>3, <1>4 DEF Sub, a, b

(* The same for the positions of two bytes. *)
LEMMA SubSeqOf ==
  ASSUME NEW x \in Nat, NEW y \in Nat, x >= 1, y >= 1
  PROVE  /\ x >= y /\ x - y < SeqMod => Sub(SeqOf(x), SeqOf(y)) = x - y
         /\ x < y /\ y - x < SeqMod => Sub(SeqOf(x), SeqOf(y)) = SeqMod + x - y
<1> DEFINE a == x - 1
           b == y - 1
<1>1. a \in Nat /\ b \in Nat /\ a - b = x - y /\ b - a = y - x
      /\ (a >= b <=> x >= y) /\ SeqMod + a - b = SeqMod + x - y
  BY SeqModAssumption
<1>2. SeqOf(x) = a % SeqMod /\ SeqOf(y) = b % SeqMod
  BY DEF SeqOf
<1> HIDE DEF a, b
<1>3. /\ a >= b /\ a - b < SeqMod => Sub(a % SeqMod, b % SeqMod) = a - b
      /\ a < b /\ b - a < SeqMod => Sub(a % SeqMod, b % SeqMod) = SeqMod + a - b
  BY <1>1, SubMod
<1> QED BY <1>1, <1>2, <1>3

-----------------------------------------------------------------------------
(* oldest_unacked: the scan of the slot array is a recursive function, and *)
(* it is the only one; its value is the frame of the least position.       *)

OldestStep(w, i, base) ==
  LET slot == w.slots[i]
  IN IF slot.kind = "None" THEN base
     ELSE IF base # -1 /\ Sub(slot.seq, base) <= w.limit THEN base
     ELSE slot.seq

(* g is the scan of the first k slots. *)
Scan(w, k, g) ==
  g = [i \in 0 .. k |-> IF i = 0 THEN -1 ELSE OldestStep(w, i, g[i - 1])]

LEMMA ScanExists ==
  ASSUME NEW w
  PROVE  \A k \in Nat : \E g : Scan(w, k, g)
<1> SUFFICES ASSUME NEW k0 \in Nat, ~\E g : Scan(w, k0, g)
             PROVE  FALSE
  OBVIOUS
<1> DEFINE S == {k \in Nat : ~\E g : Scan(w, k, g)}
<1>1. PICK k \in S : \A j \in S : k <= j
  <2>1. S \subseteq Nat /\ S # {}
    OBVIOUS
  <2> HIDE DEF S
  <2> QED BY <2>1, LeastExists
<1>2. k # 0
  <2> DEFINE g == [i \in 0 .. 0 |-> -1]
  <2>1. Scan(w, 0, g)
    BY DEF Scan
  <2> QED BY <1>1, <2>1
<1>3. PICK g : Scan(w, k - 1, g)
  <2>1. k - 1 \in Nat /\ k - 1 \notin S
    BY <1>1, <1>2
  <2> QED BY <2>1
<1> DEFINE h == [i \in 0 .. k |-> IF i < k THEN g[i] ELSE OldestStep(w, k, g[k - 1])]
<1>4. ASSUME NEW i \in 0 .. k
      PROVE  h[i] = IF i = 0 THEN -1 ELSE OldestStep(w, i, h[i - 1])
  <2>1. CASE i = k
    BY <1>1, <1>2, <2>1
  <2>2. CASE i < k
    <3>1. i \in 0 .. k - 1 /\ h[i] = g[i]
      BY <1>1, <2>2
    <3>2. g[i] = IF i = 0 THEN -1 ELSE OldestStep(w, i, g[i - 1])
      BY <1>3, <3>1 DEF Scan
    <3>3. i # 0 => h[i - 1] = g[i - 1]
      BY <1>1, <2>2
    <3> QED BY <3>1, <3>2, <3>3
  <2> QED BY <1>1, <2>1, <2>2
<1>5. Scan(w, k, h)
  <2> HIDE DEF h
  <2>1. h = [i \in 0 .. k |-> h[i]]
    BY DEF h
  <2> QED BY <1>4, <2>1, Zenon DEF Scan
<1> QED BY <1>1, <1>5

LEMMA OldestIsScan ==
  ASSUME NEW w
  PROVE  \E g : Scan(w, WindowLen, g) /\ OldestUnacked(w) = g[WindowLen]
<1> DEFINE g == CHOOSE f : Scan(w, WindowLen, f)
<1>1. Scan(w, WindowLen, g)
  BY ScanExists, WindowFacts, Zenon
<1>2. OldestUnacked(w) = g[WindowLen]
  BY Zenon DEF OldestUnacked, Scan, OldestStep
<1> QED BY <1>1, <1>2

(* The DATA frames in the slots of w are of the last `limit' positions. *)
InWindow(w, last) ==
  \A i \in Used(w) : /\ w.slots[i].pos \in 1 .. last
                     /\ w.slots[i].seq = SeqOf(w.slots[i].pos)
                     /\ last - w.slots[i].pos < w.limit

(* b is the SEQ of the oldest frame in the first k slots, or -1. *)
OldestOf(w, k, b) ==
  LET U == {i \in Used(w) : i <= k}
  IN \/ U = {} /\ b = -1
     \/ \E m \in U : /\ b = w.slots[m].seq
                     /\ \A j \in U : w.slots[m].pos <= w.slots[j].pos

(* Two positions of one window are less than half the SEQ space apart. *)
LEMMA CloseTogether ==
  ASSUME NEW a \in Nat, NEW b \in Nat, NEW last \in Nat, NEW l \in Nat,
         l <= WindowLen,
         a <= last, last - a < l, b <= last, last - b < l
  PROVE  a - b < SeqMod /\ b - a < SeqMod /\ SeqMod + a - b > l /\ a - b <= l
<1>1. l + l + l <= SeqMod /\ l >= 1 /\ SeqMod \in Nat
  BY WindowFacts
<1> QED BY <1>1

LEMMA OldestIsLeast ==
  ASSUME NEW w \in WTxType, NEW last \in Nat, InWindow(w, last), Used(w) # {}
  PROVE  \E m \in Used(w) : /\ OldestUnacked(w) = w.slots[m].seq
                            /\ \A j \in Used(w) : w.slots[m].pos <= w.slots[j].pos
<1>1. PICK g : Scan(w, WindowLen, g) /\ OldestUnacked(w) = g[WindowLen]
  BY OldestIsScan
<1> DEFINE S == {k \in Nat : k <= WindowLen /\ ~OldestOf(w, k, g[k])}
<1>2. S = {}
  <2> SUFFICES ASSUME S # {} PROVE FALSE
    OBVIOUS
  <2>1. PICK k \in S : \A j \in S : k <= j
    <3>1. S \subseteq Nat
      OBVIOUS
    <3> HIDE DEF S
    <3> QED BY <3>1, LeastExists
  <2>2. k \in 0 .. WindowLen /\ ~OldestOf(w, k, g[k])
    BY <2>1, WindowFacts
  <2>3. k # 0
    <3>1. g[0] = -1
      BY <1>1, WindowFacts DEF Scan
    <3>2. {i \in Used(w) : i <= 0} = {}
      BY WindowFacts DEF Used
    <3> QED BY <2>2, <3>1, <3>2 DEF OldestOf
  <2>4. k - 1 \in 0 .. WindowLen /\ k \in Slots
    BY <2>2, <2>3, WindowFacts
  <2>5. OldestOf(w, k - 1, g[k - 1])
    <3>1. k - 1 \notin S
      BY <2>1, <2>4
    <3> QED BY <2>4, <3>1
  <2>6. g[k] = OldestStep(w, k, g[k - 1])
    BY <1>1, <2>2, <2>3 DEF Scan
  <2> DEFINE U == {i \in Used(w) : i <= k - 1}
             V == {i \in Used(w) : i <= k}
             sl == w.slots[k]
  <2>7. V = IF sl.kind = "None" THEN U ELSE U \cup {k}
    BY <2>4, WindowFacts DEF Used
  <2>8. CASE sl.kind = "None"
    BY <2>2, <2>5, <2>6, <2>7, <2>8 DEF OldestOf, OldestStep
  <2>9. CASE sl.kind # "None" /\ U = {}
    <3>1. g[k - 1] = -1
      BY <2>5, <2>9 DEF OldestOf
    <3>2. g[k] = sl.seq /\ V = {k}
      BY <2>6, <2>7, <2>9, <3>1 DEF OldestStep
    <3>3. sl.pos <= sl.pos
      BY <2>4, <2>7, <2>9 DEF InWindow
    <3> QED BY <2>2, <3>2, <3>3 DEF OldestOf
  <2>10. CASE sl.kind # "None" /\ U # {}
    <3>1. PICK m \in U : /\ g[k - 1] = w.slots[m].seq
                         /\ \A j \in U : w.slots[m].pos <= w.slots[j].pos
      BY <2>5, <2>10 DEF OldestOf
    <3> DEFINE a == sl.pos
               b == w.slots[m].pos
    <3>2. k \in Used(w) /\ m \in Used(w)
      BY <2>4, <2>10 DEF Used
    <3>3. /\ a \in Nat /\ a >= 1 /\ a <= last /\ last - a < w.limit /\ sl.seq = SeqOf(a)
          /\ b \in Nat /\ b >= 1 /\ b <= last /\ last - b < w.limit
          /\ w.slots[m].seq = SeqOf(b)
      BY <3>2 DEF InWindow
    <3>4. w.limit \in Nat /\ w.limit <= WindowLen
      BY WindowFacts DEF WTxType
    <3>5. SeqOf(b) \in Nat
      BY <3>3, SeqTypes DEF Seqs
    <3>6. g[k] = IF Sub(SeqOf(a), SeqOf(b)) <= w.limit THEN SeqOf(b) ELSE SeqOf(a)
      BY <2>6, <2>10, <3>1, <3>3, <3>5 DEF OldestStep
    <3>a. a - b < SeqMod /\ b - a < SeqMod /\ SeqMod + a - b > w.limit /\ a - b <= w.limit
      <4> HIDE DEF a, b
      <4> QED BY <3>3, <3>4, CloseTogether
    <3>b. /\ a >= b => Sub(SeqOf(a), SeqOf(b)) = a - b
          /\ a < b => Sub(SeqOf(a), SeqOf(b)) = SeqMod + a - b
      <4> HIDE DEF a, b
      <4> QED BY <3>3, <3>a, SubSeqOf
    <3>7. CASE a >= b
      <4>1. Sub(SeqOf(a), SeqOf(b)) = a - b
        BY <3>7, <3>b
      <4>2. g[k] = w.slots[m].seq
        BY <3>3, <3>6, <3>a, <4>1
      <4>3. m \in V /\ \A j \in V : b <= w.slots[j].pos
        BY <2>7, <2>10, <3>1, <3>7
      <4> QED BY <2>2, <4>2, <4>3 DEF OldestOf
    <3>8. CASE a < b
      <4>1. Sub(SeqOf(a), SeqOf(b)) = SeqMod + a - b
        BY <3>8, <3>b
      <4>2. ~(Sub(SeqOf(a), SeqOf(b)) <= w.limit)
        <5> HIDE DEF a, b
        <5> QED BY <3>3, <3>4, <3>a, <4>1, WindowFacts
      <4>3. g[k] = sl.seq
        BY <3>3, <3>6, <4>2
      <4>4. k \in V
        BY <2>7, <2>10
      <4>5. \A j \in V : a <= w.slots[j].pos
        <5>1. \A j \in U : w.slots[j].pos \in Nat
          BY DEF InWindow
        <5> QED BY <2>7, <2>10, <3>1, <3>3, <3>8, <5>1
      <4> QED BY <2>2, <4>3, <4>4, <4>5 DEF OldestOf
    <3> QED BY <3>3, <3>7, <3>8
  <2> QED BY <2>8, <2>9, <2>10
<1>3. OldestOf(w, WindowLen, g[WindowLen])
  BY <1>2, WindowFacts
<1>4. {i \in Used(w) : i <= WindowLen} = Used(w)
  BY WindowFacts DEF Used
<1> QED BY <1>1, <1>3, <1>4 DEF OldestOf

(* A frame that may be offered is within `limit' of every frame in a slot. *)
LEMMA OfferInWindow ==
  ASSUME NEW w \in WTxType, NEW last \in Nat, InWindow(w, last),
         w.next_seq = last % SeqMod, SeqInSendWindow(w, w.next_seq)
  PROVE  \A i \in Used(w) : last + 1 - w.slots[i].pos < w.limit
<1> SUFFICES ASSUME NEW i \in Used(w)
             PROVE  last + 1 - w.slots[i].pos < w.limit
  OBVIOUS
<1>1. PICK m \in Used(w) : /\ OldestUnacked(w) = w.slots[m].seq
                           /\ \A j \in Used(w) : w.slots[m].pos <= w.slots[j].pos
  BY OldestIsLeast
<1> DEFINE b == w.slots[m].pos
           a == last + 1
<1>2. b \in Nat /\ b >= 1 /\ b <= last /\ last - b < w.limit /\ w.slots[m].seq = SeqOf(b)
  BY DEF InWindow
<1>3. w.limit \in Nat /\ w.limit <= WindowLen
  BY WindowFacts DEF WTxType
<1>4. SeqOf(a) = last % SeqMod /\ a \in Nat /\ a >= 1
  BY DEF SeqOf
<1>5. SeqOf(b) \in Nat
  BY <1>2, SeqTypes DEF Seqs
<1>6. Sub(SeqOf(a), SeqOf(b)) < w.limit
  BY <1>1, <1>2, <1>4, <1>5 DEF SeqInSendWindow
<1>7. Sub(SeqOf(a), SeqOf(b)) = a - b
  BY <1>2, <1>3, <1>4, WindowFacts, SubSeqOf
<1>8. w.slots[i].pos \in Nat /\ b <= w.slots[i].pos
  BY <1>1 DEF InWindow
<1> QED BY <1>2, <1>3, <1>6, <1>7, <1>8

-----------------------------------------------------------------------------
(* The receiver, handler by handler. *)

EmptyBuf == [i \in Offsets |-> NoByte]

LEMMA ByteType ==
  /\ NoByte \in Bytes /\ NoByte.pos = 0
  /\ EmptyBuf \in [Offsets -> Bytes]
  /\ <<>> \in Seq(Bytes)
  /\ NoReply \in Frame /\ BadFrame \in Frame
<1>1. NoByte \in Bytes /\ NoByte.pos = 0
  BY DEF NoByte, Bytes
<1>2. NoReply \in Frame
  BY FrameType, SeqTypes DEF NoReply, FrameTypes
<1> QED BY <1>1, <1>2, FrameType DEF EmptyBuf

(* u differs from r in its reply and its assembler only. *)
SameRx(u, r) ==
  /\ u.expected = r.expected /\ u.finish_seq = r.finish_seq
  /\ u.abort_latched = r.abort_latched
  /\ u.buf = r.buf /\ u.emit = r.emit

WActions == {"Drain", "Quiet", "Duplicate", "Started", "Finished", "Aborted",
             "Rejected", "CrcRejected"}

LEMMA RxFields ==
  ASSUME NEW r \in WRxType
  PROVE  /\ r.expected \in Seqs /\ r.finish_seq \in Seqs \cup {NoSeq}
         /\ r.reply \in Frame /\ r.buf \in [Offsets -> Bytes] /\ r.emit \in Seq(Bytes)
         /\ r.limit \in 1 .. WindowLen /\ r.filled \in 0 .. FrameLen - 1
         /\ r.abort_latched \in BOOLEAN
         /\ r.action \in WActions \cup {"None"}
<1>1. r.action \in WActions \cup {"None"}
  BY DEF WRxType, WActions
<1> QED BY <1>1 DEF WRxType, Bytes

LEMMA ActionNames ==
  /\ "Duplicate" \in WActions /\ "Started" \in WActions /\ "Finished" \in WActions
  /\ "Aborted" \in WActions /\ "Rejected" \in WActions /\ "CrcRejected" \in WActions
  /\ "Ack" \in {"Ack", "Nack"} /\ "Nack" \in {"Ack", "Nack"}
BY DEF WActions

(* u is x with a reply to g, after which a is done: begin_reply. *)
Replied(u, x, ty, q, g, a) ==
  /\ u \in WRxType /\ SameRx(u, x) /\ u.action = a
  /\ u.reply = MkFrame(ty, q, g.sess, g.pos)

LEMMA ReplyFields ==
  ASSUME NEW x \in WRxType, NEW ty \in {"Ack", "Nack"}, NEW q \in Seqs,
         NEW g \in Frame, NEW a \in WActions,
         NEW u, u = BeginReply(x, ty, q, g, a)
  PROVE  Replied(u, x, ty, q, g, a)
<1>1. MkFrame(ty, q, g.sess, g.pos) \in Frame
  <2>1. ty \in FrameTypes /\ g.sess \in Nat /\ g.pos \in Nat
    BY FrameFields DEF FrameTypes
  <2> QED BY <2>1, FrameType
<1>2. u = [x EXCEPT !.reply = MkFrame(ty, q, g.sess, g.pos), !.action = a]
  BY DEF BeginReply
<1>3. u \in WRxType
  BY <1>1, <1>2 DEF WRxType, WActions
<1>4. SameRx(u, x) /\ u.action = a /\ u.reply = MkFrame(ty, q, g.sess, g.pos)
  BY <1>2 DEF WRxType, SameRx
<1> QED BY <1>3, <1>4 DEF Replied

WAcks(u, q, f) == u.reply = MkFrame("Ack", q, f.sess, f.pos)

Byte(f) == [sess |-> f.sess, pos |-> f.pos]

(* The outcomes of reading a frame. *)
WSkipped(u, r) == SameRx(u, r) /\ u.action = "None"

WNacked(u, r) == /\ SameRx(u, r) /\ u.action \in {"Rejected", "CrcRejected"}
                /\ u.reply.type = "Nack"

(* r with byte b at offset k of its reorder buffer. *)
KeptBuf(r, k, b) == IF r.buf[k] = NoByte THEN [r.buf EXCEPT ![k] = b] ELSE r.buf

WAccepted(u, r, f) ==
  LET off == Ahead(r, f.seq)
  IN /\ f.type = "Data" /\ ~IsClosed(r) /\ off \in Offsets /\ off < r.limit
     /\ u.expected = r.expected /\ u.finish_seq = r.finish_seq
     /\ u.abort_latched = r.abort_latched /\ u.emit = r.emit
     /\ u.buf = KeptBuf(r, off, Byte(f))
     /\ u.action \in {"Drain", "Quiet"} /\ WAcks(u, f.seq, f)

WRepeated(u, r, f) ==
  /\ f.type = "Data" /\ ~IsClosed(r) /\ ~(Ahead(r, f.seq) < r.limit)
  /\ IsDuplicate(r, f.seq)
  /\ SameRx(u, r) /\ u.action = "Duplicate" /\ WAcks(u, f.seq, f)

WRestarted(u, f) ==
  /\ f.type = "Start"
  /\ u.expected = 0 /\ u.finish_seq = NoSeq /\ u.abort_latched = FALSE
  /\ u.buf = EmptyBuf /\ u.emit = <<>>
  /\ u.action = "Started" /\ WAcks(u, 0, f)

WCancelled(u, r, f) ==
  /\ f.type = "Abort" /\ ~IsFinished(r)
  /\ u.finish_seq = r.finish_seq /\ u.abort_latched = TRUE
  /\ u.buf = EmptyBuf /\ u.emit = <<>>
  /\ u.action = "Aborted" /\ WAcks(u, 0, f)

WConcluded(u, r, f) ==
  /\ f.type = "Finish" /\ ~r.abort_latched
  /\ u.expected = r.expected /\ u.abort_latched = r.abort_latched
  /\ u.finish_seq = f.seq /\ f.seq \in Seqs
  /\ \/ r.finish_seq = f.seq
     \/ ~IsFinished(r) /\ f.seq = r.expected
  /\ u.buf = EmptyBuf /\ u.emit = <<>>
  /\ u.action = "Finished" /\ WAcks(u, f.seq, f)

(* ClearWindow on a receiver that is replying. *)
LEMMA ClearFields ==
  ASSUME NEW x \in WRxType, NEW u, u = ClearWindow(x)
  PROVE  /\ u \in WRxType /\ u.buf = EmptyBuf /\ u.emit = <<>>
         /\ u.expected = x.expected /\ u.finish_seq = x.finish_seq
         /\ u.abort_latched = x.abort_latched /\ u.action = x.action
         /\ u.reply = x.reply
<1>1. u = [x EXCEPT !.buf = EmptyBuf, !.emit = <<>>]
  BY DEF ClearWindow, EmptyBuf
<1>2. u \in WRxType
  BY <1>1, ByteType DEF WRxType, Bytes
<1> QED BY <1>1, <1>2 DEF WRxType

LEMMA ErrorFields ==
  ASSUME NEW x \in WRxType, x.action = "None", NEW u, u = HandleError(x)
  PROVE  u \in WRxType /\ (WSkipped(u, x) \/ WNacked(u, x))
<1>1. CASE IsClosed(x)
  BY <1>1 DEF HandleError, WSkipped, SameRx
<1>2. CASE ~IsClosed(x)
  <2>1. u = BeginReply(x, "Nack", x.expected, BadFrame, "CrcRejected")
    BY <1>2 DEF HandleError
  <2>2. Replied(u, x, "Nack", x.expected, BadFrame, "CrcRejected")
    BY <2>1, RxFields, ByteType, ActionNames, ReplyFields
  <2> QED BY <2>2 DEF Replied, WNacked, MkFrame
<1> QED BY <1>1, <1>2

LEMMA DataFields ==
  ASSUME NEW r \in WRxType, r.action = "None", NEW f \in Frame, f.type = "Data",
         NEW u, u = WHandleData(r, f)
  PROVE  /\ u \in WRxType
         /\ WSkipped(u, r) \/ WNacked(u, r) \/ WAccepted(u, r, f) \/ WRepeated(u, r, f)
<1> DEFINE off == Ahead(r, f.seq)
           bf == KeptBuf(r, off, Byte(f))
           x == [r EXCEPT !.buf = bf]
<1>1. f.seq \in Seqs /\ Byte(f) \in Bytes
  BY FrameFields DEF FrameTypes, Byte, Bytes
<1>2. off \in Nat
  <2>1. f.seq - r.expected \in Int
    BY <1>1, RxFields, SeqModAssumption DEF Seqs
  <2> QED BY <2>1, SeqModAssumption DEF Ahead, Sub
<1>3. CASE IsClosed(r)
  BY <1>3 DEF WHandleData, WSkipped, SameRx
<1>4. CASE ~IsClosed(r) /\ off < r.limit
  <2>1. off \in Offsets
    BY <1>2, <1>4, RxFields, WindowFacts
  <2>2. bf \in [Offsets -> Bytes]
    BY <1>1, <2>1, RxFields DEF KeptBuf
  <2> DEFINE a == IF off = 0 THEN "Drain" ELSE "Quiet"
             y == IF r.buf[off] = NoByte
                    THEN [r EXCEPT !.buf[off] = [sess |-> f.sess, pos |-> f.pos]]
                    ELSE r
  <2>3. u = BeginReply(y, "Ack", f.seq, f, a)
    BY <1>4 DEF WHandleData
  <2>4. /\ y \in WRxType /\ y.buf = bf /\ y.expected = r.expected
        /\ y.finish_seq = r.finish_seq /\ y.abort_latched = r.abort_latched
        /\ y.emit = r.emit
    <3>1. CASE r.buf[off] = NoByte
      <4>1. y = [r EXCEPT !.buf = bf]
        BY <3>1 DEF KeptBuf, Byte
      <4> HIDE DEF bf, y, off
      <4> QED BY <2>2, <4>1 DEF WRxType, Bytes
    <3>2. CASE r.buf[off] # NoByte
      BY <3>2 DEF KeptBuf
    <3> QED BY <3>1, <3>2
  <2>5. a \in WActions /\ a \in {"Drain", "Quiet"}
    BY DEF WActions
  <2> HIDE DEF y, a, bf
  <2>6. Replied(u, y, "Ack", f.seq, f, a)
    BY <1>1, <2>3, <2>4, <2>5, ReplyFields
  <2>7. u.buf = KeptBuf(r, Ahead(r, f.seq), Byte(f))
    BY <2>4, <2>6 DEF Replied, SameRx, bf
  <2> QED BY <1>4, <2>1, <2>4, <2>5, <2>6, <2>7 DEF Replied, WAccepted, SameRx, WAcks
<1>5. CASE ~IsClosed(r) /\ ~(off < r.limit) /\ IsDuplicate(r, f.seq)
  <2>1. u = BeginReply(r, "Ack", f.seq, f, "Duplicate")
    BY <1>5 DEF WHandleData
  <2>2. Replied(u, r, "Ack", f.seq, f, "Duplicate")
    BY <1>1, <2>1, ActionNames, ReplyFields
  <2> QED BY <1>5, <2>2 DEF Replied, WRepeated, WAcks
<1>6. CASE ~IsClosed(r) /\ ~(off < r.limit) /\ ~IsDuplicate(r, f.seq)
  <2>1. u = BeginReply(r, "Nack", f.seq, f, "Rejected")
    BY <1>6 DEF WHandleData
  <2>2. Replied(u, r, "Nack", f.seq, f, "Rejected")
    BY <1>1, <2>1, ActionNames, ReplyFields
  <2> QED BY <2>2 DEF Replied, WNacked, MkFrame
<1> QED BY <1>3, <1>4, <1>5, <1>6

LEMMA StartFields ==
  ASSUME NEW r \in WRxType, NEW f \in Frame, f.type = "Start",
         NEW u, u = WHandleStart(r, f)
  PROVE  u \in WRxType /\ WRestarted(u, f)
<1> DEFINE x == [r EXCEPT !.expected = 0, !.finish_seq = NoSeq, !.abort_latched = FALSE]
           y == BeginReply(x, "Ack", 0, f, "Started")
<1>1. x \in WRxType
  BY SeqTypes DEF WRxType
<1>2. x.expected = 0 /\ x.finish_seq = NoSeq /\ x.abort_latched = FALSE
  BY DEF WRxType
<1>3. u = ClearWindow(y)
  BY DEF WHandleStart, HandleStart
<1> HIDE DEF x
<1>4. Replied(y, x, "Ack", 0, f, "Started")
  BY <1>1, ActionNames, SeqTypes, ReplyFields
<1> HIDE DEF y
<1>5. y \in WRxType
  BY <1>4 DEF Replied
<1>6. /\ u \in WRxType /\ u.buf = EmptyBuf /\ u.emit = <<>>
      /\ u.expected = y.expected /\ u.finish_seq = y.finish_seq
      /\ u.abort_latched = y.abort_latched /\ u.action = y.action
      /\ u.reply = y.reply
  BY <1>3, <1>5, ClearFields
<1> QED BY <1>2, <1>4, <1>6 DEF Replied, SameRx, WRestarted, WAcks

LEMMA AbortFields ==
  ASSUME NEW r \in WRxType, r.action = "None", NEW f \in Frame, f.type = "Abort",
         NEW u, u = WHandleAbort(r, f)
  PROVE  u \in WRxType /\ (WSkipped(u, r) \/ WCancelled(u, r, f))
<1> DEFINE x == [r EXCEPT !.abort_latched = TRUE, !.expected = 0]
           y == BeginReply(x, "Ack", 0, f, "Aborted")
<1>1. CASE IsFinished(r)
  BY <1>1 DEF WHandleAbort, WSkipped, SameRx
<1>2. CASE ~IsFinished(r)
  <2>1. x \in WRxType
    BY SeqTypes DEF WRxType
  <2>2. x.finish_seq = r.finish_seq /\ x.abort_latched = TRUE
    BY DEF WRxType
  <2>3. u = ClearWindow(y)
    BY <1>2 DEF WHandleAbort, HandleAbort
  <2> HIDE DEF x
  <2>4. Replied(y, x, "Ack", 0, f, "Aborted")
    BY <2>1, ActionNames, SeqTypes, ReplyFields
  <2> HIDE DEF y
  <2>5. y \in WRxType
    BY <2>4 DEF Replied
  <2>6. /\ u \in WRxType /\ u.buf = EmptyBuf /\ u.emit = <<>>
        /\ u.finish_seq = y.finish_seq
        /\ u.abort_latched = y.abort_latched /\ u.action = y.action
        /\ u.reply = y.reply
    BY <2>3, <2>5, ClearFields
  <2> QED BY <1>2, <2>2, <2>4, <2>6 DEF Replied, SameRx, WCancelled, WAcks
<1> QED BY <1>1, <1>2

LEMMA FinishFields ==
  ASSUME NEW r \in WRxType, r.action = "None", NEW f \in Frame, f.type = "Finish",
         NEW u, u = WHandleFinish(r, f)
  PROVE  /\ u \in WRxType
         /\ \/ WNacked(u, r) \/ WConcluded(u, r, f) \/ WSkipped(u, r)
            \/ IsFinished(r) /\ u = ClearWindow(r)
<1>1. f.seq \in Seqs /\ r.expected \in Seqs /\ NoSeq \notin Seqs
  BY FrameFields, RxFields, SeqModAssumption DEF FrameTypes, Seqs, NoSeq
<1>2. CASE r.abort_latched \/ (IsFinished(r) /\ f.seq # r.finish_seq)
  <2>1. HandleFinish(r, f) = r
    BY <1>2 DEF HandleFinish
  <2>2. u = IF IsFinished(r) THEN ClearWindow(r) ELSE r
    BY <2>1 DEF WHandleFinish
  <2> QED BY <1>2, <2>2, ClearFields DEF WSkipped, SameRx
<1>3. CASE ~r.abort_latched /\ IsFinished(r) /\ f.seq = r.finish_seq
  <2> DEFINE y == BeginReply(r, "Ack", f.seq, f, "Finished")
  <2>1. HandleFinish(r, f) = y
    BY <1>3 DEF HandleFinish
  <2>2. Replied(y, r, "Ack", f.seq, f, "Finished")
    BY <1>1, ActionNames, ReplyFields
  <2> HIDE DEF y
  <2>3. IsFinished(y) /\ y \in WRxType
    BY <1>3, <2>2 DEF Replied, SameRx, IsFinished
  <2>4. u = ClearWindow(y)
    BY <2>1, <2>3 DEF WHandleFinish
  <2>5. /\ u \in WRxType /\ u.buf = EmptyBuf /\ u.emit = <<>>
        /\ u.expected = y.expected /\ u.finish_seq = y.finish_seq
        /\ u.abort_latched = y.abort_latched /\ u.action = y.action
        /\ u.reply = y.reply
    BY <2>3, <2>4, ClearFields
  <2> QED BY <1>1, <1>3, <2>2, <2>5 DEF Replied, SameRx, WConcluded, WAcks
<1>4. CASE ~r.abort_latched /\ ~IsFinished(r) /\ f.seq # r.expected
  <2> DEFINE y == BeginReply(r, "Nack", f.seq, f, "Rejected")
  <2>1. HandleFinish(r, f) = y
    BY <1>4 DEF HandleFinish
  <2>2. Replied(y, r, "Nack", f.seq, f, "Rejected")
    BY <1>1, ActionNames, ReplyFields
  <2> HIDE DEF y
  <2>3. ~IsFinished(y)
    BY <1>4, <2>2 DEF Replied, SameRx, IsFinished
  <2>4. u = y
    BY <2>1, <2>3 DEF WHandleFinish
  <2> QED BY <2>2, <2>4 DEF Replied, WNacked, MkFrame
<1>5. CASE ~r.abort_latched /\ ~IsFinished(r) /\ f.seq = r.expected
  <2> DEFINE x == [r EXCEPT !.finish_seq = f.seq]
             y == BeginReply(x, "Ack", f.seq, f, "Finished")
  <2>1. HandleFinish(r, f) = y
    BY <1>5 DEF HandleFinish
  <2>2. /\ x \in WRxType /\ x.finish_seq = f.seq /\ x.expected = r.expected
        /\ x.abort_latched = r.abort_latched
    BY <1>1 DEF WRxType
  <2> HIDE DEF x
  <2>3. Replied(y, x, "Ack", f.seq, f, "Finished")
    BY <1>1, <2>2, ActionNames, ReplyFields
  <2> HIDE DEF y
  <2>4. IsFinished(y) /\ y \in WRxType
    BY <1>1, <2>2, <2>3 DEF Replied, SameRx, IsFinished
  <2>5. u = ClearWindow(y)
    BY <2>1, <2>4 DEF WHandleFinish
  <2>6. /\ u \in WRxType /\ u.buf = EmptyBuf /\ u.emit = <<>>
        /\ u.expected = y.expected /\ u.finish_seq = y.finish_seq
        /\ u.abort_latched = y.abort_latched /\ u.action = y.action
        /\ u.reply = y.reply
    BY <2>4, <2>5, ClearFields
  <2> QED BY <1>1, <1>5, <2>2, <2>3, <2>6 DEF Replied, SameRx, WConcluded, WAcks
<1> QED BY <1>2, <1>3, <1>4, <1>5

(* The receiver after the last byte of an undecodable frame, or after a    *)
(* torn one.                                                               *)
LEMMA TornFields ==
  ASSUME NEW r \in WRxType, r.action = "None", NEW f \in Frame,
         f.type = "Torn" \/ r.filled # 0, NEW u, u = TakeFrame(r, f)
  PROVE  u \in WRxType /\ (WSkipped(u, r) \/ WNacked(u, r))
<1>1. CASE f.type # "Torn"
  <2>1. u = HandleError(r)
    BY <1>1 DEF TakeFrame
  <2> QED BY <2>1, ErrorFields
<1>2. CASE f.type = "Torn" /\ r.filled + f.seq < FrameLen
  <2>1. u = [r EXCEPT !.filled = r.filled + f.seq]
    BY <1>2 DEF TakeFrame
  <2>2. r.filled + f.seq \in 0 .. FrameLen - 1
    BY <1>2, FrameFields, RxFields DEF FrameLen
  <2>3. u \in WRxType /\ SameRx(u, r) /\ u.action = "None"
    BY <2>1, <2>2 DEF WRxType, SameRx
  <2> QED BY <2>3 DEF WSkipped
<1>3. CASE f.type = "Torn" /\ ~(r.filled + f.seq < FrameLen)
  <2> DEFINE x == [r EXCEPT !.filled = r.filled + f.seq - FrameLen]
  <2>1. u = HandleError(x)
    BY <1>3 DEF TakeFrame
  <2>2. r.filled + f.seq - FrameLen \in 0 .. FrameLen - 1
    BY <1>3, FrameFields, RxFields DEF FrameLen
  <2>3. x \in WRxType /\ SameRx(x, r) /\ x.action = "None"
    BY <2>2 DEF WRxType, SameRx
  <2> HIDE DEF x
  <2>4. u \in WRxType /\ (WSkipped(u, x) \/ WNacked(u, x))
    BY <2>1, <2>3, ErrorFields
  <2> QED BY <2>3, <2>4 DEF WSkipped, WNacked, SameRx
<1> QED BY <1>1, <1>2, <1>3

LEMMA WReadOutcomes ==
  ASSUME NEW r \in WRxType, ~Replying(r), NEW f \in Frame,
         NEW u, u = WTakeFrame(r, f)
  PROVE  /\ u \in WRxType
         /\ \/ WSkipped(u, r) \/ WNacked(u, r)
            \/ WAccepted(u, r, f) \/ WRepeated(u, r, f) \/ WRestarted(u, f)
            \/ WCancelled(u, r, f) \/ WConcluded(u, r, f)
            \/ IsFinished(r) /\ u = ClearWindow(r)
<1>1. r.action = "None"
  BY DEF Replying
<1>2. CASE f.type = "Torn" \/ r.filled # 0
  <2>1. u = TakeFrame(r, f)
    BY <1>2 DEF WTakeFrame
  <2> QED BY <1>1, <1>2, <2>1, TornFields
<1>3. CASE ~(f.type = "Torn" \/ r.filled # 0)
  <2>0. u = WHandleFrame(r, f)
    BY <1>3 DEF WTakeFrame
  <2>1. CASE f.type = "Data"
    <3>1. u = WHandleData(r, f)
      BY <2>0, <2>1 DEF WHandleFrame
    <3> QED BY <1>1, <2>1, <3>1, DataFields
  <2>2. CASE f.type = "Start"
    <3>1. u = WHandleStart(r, f)
      BY <2>0, <2>2 DEF WHandleFrame
    <3> QED BY <1>1, <2>2, <3>1, StartFields
  <2>3. CASE f.type = "Finish"
    <3>1. u = WHandleFinish(r, f)
      BY <2>0, <2>3 DEF WHandleFrame
    <3> QED BY <1>1, <2>3, <3>1, FinishFields
  <2>4. CASE f.type = "Abort"
    <3>1. u = WHandleAbort(r, f)
      BY <2>0, <2>4 DEF WHandleFrame
    <3> QED BY <1>1, <2>4, <3>1, AbortFields
  <2>5. CASE f.type = "Bad"
    <3>1. u = HandleError(r)
      BY <2>0, <2>5 DEF WHandleFrame
    <3> QED BY <1>1, <3>1, ErrorFields
  <2>6. CASE f.type \notin {"Data", "Start", "Finish", "Abort", "Bad"}
    <3>1. u = r
      BY <2>0, <2>6 DEF WHandleFrame
    <3> QED BY <1>1, <3>1 DEF WSkipped, SameRx
  <2> QED BY <2>1, <2>2, <2>3, <2>4, <2>5, <2>6
<1> QED BY <1>2, <1>3

(* u is r after drain_in_order has moved `run' bytes to the emit queue. *)
Drains(u, r, run) ==
  /\ run \in 0 .. WindowLen
  /\ \A i \in Offsets : i < run => r.buf[i] # NoByte
  /\ u.buf = [i \in Offsets |-> IF i + run \in Offsets THEN r.buf[i + run] ELSE NoByte]
  /\ u.emit = r.emit \o [i \in 1 .. run |-> r.buf[i - 1]]
  /\ u.expected = (r.expected + run) % SeqMod
  /\ u.finish_seq = r.finish_seq /\ u.abort_latched = r.abort_latched

LEMMA WPendingFields ==
  ASSUME NEW r \in WRxType, NEW u, u = WTakePending(r)
  PROVE  /\ u \in WRxType /\ u.action = "None"
         /\ r.action # "Drain" => SameRx(u, r)
         /\ r.action = "Drain" => \E run : Drains(u, r, run)
<1>1. CASE r.action # "Drain"
  <2>1. u = [r EXCEPT !.action = "None", !.reply = NoReply]
    BY <1>1 DEF WTakePending
  <2> QED BY <1>1, <2>1, ByteType DEF WRxType, SameRx
<1>2. CASE r.action = "Drain"
  <2> DEFINE P(k) == /\ \A i \in 0 .. k - 1 : r.buf[i] # NoByte
                     /\ k \in Offsets => r.buf[k] = NoByte
             run == CHOOSE k \in 0 .. WindowLen : P(k)
             bf == [i \in Offsets |-> IF i + run \in Offsets THEN r.buf[i + run] ELSE NoByte]
             em == [i \in 1 .. run |-> r.buf[i - 1]]
             d == [r EXCEPT !.buf = bf, !.emit = @ \o em,
                            !.expected = (@ + run) % SeqMod]
  <2>1. \E k \in 0 .. WindowLen : P(k)
    <3> DEFINE S == {k \in Nat : k = WindowLen \/ (k \in Offsets /\ r.buf[k] = NoByte)}
    <3>1. S \subseteq Nat /\ WindowLen \in S
      BY WindowFacts
    <3>2. PICK k \in S : \A j \in S : k <= j
      <4> HIDE DEF S
      <4> QED BY <3>1, LeastExists
    <3>3. k \in 0 .. WindowLen /\ (k \in Offsets => r.buf[k] = NoByte)
      BY <3>2, WindowFacts
    <3>4. ASSUME NEW i \in 0 .. k - 1
          PROVE  r.buf[i] # NoByte
      <4>1. i \in Offsets /\ i \in Nat /\ ~(k <= i)
        BY <3>3, WindowFacts
      <4> QED BY <3>2, <4>1
    <3> QED BY <3>3, <3>4
  <2>2. run \in 0 .. WindowLen /\ P(run)
    <3> HIDE DEF P
    <3> QED BY <2>1
  <2>3. DrainInOrder(r) = d
    BY Zenon DEF DrainInOrder
  <2> HIDE DEF run
  <2>4. bf \in [Offsets -> Bytes]
    BY ByteType, RxFields
  <2>5. r.emit \o em \in Seq(Bytes)
    <3>1. \A i \in 1 .. run : i - 1 \in Offsets
      BY <2>2, WindowFacts
    <3>2. em \in [1 .. run -> Bytes]
      BY <3>1, RxFields
    <3>3. em \in Seq(Bytes)
      <4> HIDE DEF em
      <4>1. run \in Nat
        BY <2>2, WindowFacts
      <4> QED BY <3>2, <4>1
    <3> HIDE DEF em
    <3> QED BY <3>3, RxFields
  <2>6. (r.expected + run) % SeqMod \in Seqs
    <3>1. r.expected + run \in Nat
      BY <2>2, RxFields, WindowFacts DEF Seqs
    <3> QED BY <3>1, SeqTypes
  <2> DEFINE ee == r.emit \o em
             xx == (r.expected + run) % SeqMod
  <2>7. d = [r EXCEPT !.buf = bf, !.emit = ee, !.expected = xx]
    BY DEF WRxType
  <2>8. u = [d EXCEPT !.action = "None", !.reply = NoReply]
    BY <1>2, <2>3 DEF WTakePending
  <2> HIDE DEF bf, ee, xx, d
  <2>9. u = [r EXCEPT !.buf = bf, !.emit = ee, !.expected = xx, !.action = "None",
                      !.reply = NoReply]
    BY <2>7, <2>8 DEF WRxType
  <2>10. ee \in Seq(Bytes) /\ xx \in Seqs
    BY <2>5, <2>6 DEF ee, xx
  <2>11. u \in WRxType
    BY <2>4, <2>9, <2>10, ByteType DEF WRxType, Bytes
  <2>12. /\ u.buf = bf /\ u.emit = ee /\ u.expected = xx /\ u.action = "None"
         /\ u.finish_seq = r.finish_seq /\ u.abort_latched = r.abort_latched
    BY <2>9 DEF WRxType
  <2>13. \A i \in Offsets : i < run => r.buf[i] # NoByte
    BY <2>2, WindowFacts
  <2>14. Drains(u, r, run)
    BY <2>2, <2>12, <2>13 DEF Drains, bf, ee, xx
  <2> QED BY <1>2, <2>11, <2>12, <2>14
<1> QED BY <1>1, <1>2

LEMMA PopFields ==
  ASSUME NEW r \in WRxType, r.emit # <<>>, NEW u, u = PopEmit(r)
  PROVE  /\ u \in WRxType /\ u.emit = Tail(r.emit)
         /\ u.expected = r.expected /\ u.finish_seq = r.finish_seq
         /\ u.abort_latched = r.abort_latched /\ u.buf = r.buf
         /\ u.action = r.action /\ u.reply = r.reply
<1>1. Tail(r.emit) \in Seq(Bytes)
  BY RxFields
<1>2. u = [r EXCEPT !.emit = Tail(r.emit)]
  BY DEF PopEmit
<1>3. u \in WRxType
  BY <1>1, <1>2 DEF WRxType, Bytes
<1> QED BY <1>2, <1>3 DEF WRxType

-----------------------------------------------------------------------------
(* Type correctness, for every use of offer_start. *)

(* What the sender's half of TypeInv asks of the next state. *)
TxTyped(w, last) ==
  /\ w \in WTxType /\ w.writing \in {0} \cup Used(w)
  /\ \A i \in Used(w) : w.slots[i].kind = "Data" => w.slots[i].pos \in 1 .. last

LEMMA TxTypedOf ==
  TypeInv => TxTyped(tx, sent) /\ sess \in Nat /\ sent \in Nat
BY DEF TypeInv, TypeOK, TxTyped, Used, WTxType

LEMMA TypeInvOf ==
  ASSUME TxTyped(tx', sent'), rx' \in WRxType, fwd' \in Seq(Frame), back' \in Seq(Frame),
         acked' \subseteq 1 .. sent', delivered' \in Seq(Bytes),
         sess' \in Nat, sent' \in Nat
  PROVE  TypeInv'
<1>1. tx'.writing # 0 => tx'.slots[tx'.writing].kind # "None"
  BY DEF TxTyped, Used
<1>2. \A i \in Used(tx') : tx'.slots[i].kind = "Data" => tx'.slots[i].pos \in 1 .. sent'
  BY DEF TxTyped
<1>3. tx' \in WTxType
  BY DEF TxTyped
<1> QED BY <1>1, <1>2, <1>3 DEF TypeInv, TypeOK, Bytes, Used

(* The two outcomes of most sender steps. *)
LEMMA TxTypedKept ==
  ASSUME NEW w, NEW last \in Nat, TxTyped(w, last), NEW u \in WTxType
  PROVE  /\ SameSlots(u, w) /\ u.writing \in {0} \cup Used(w) => TxTyped(u, last)
         /\ \A state : Emptied(u, state) => TxTyped(u, last)
<1>1. ASSUME SameSlots(u, w), u.writing \in {0} \cup Used(w)
      PROVE  TxTyped(u, last)
  <2>1. Used(u) = Used(w)
    BY <1>1, SameSlotsUsed
  <2>2. \A i \in Used(w) : u.slots[i].kind = w.slots[i].kind /\ u.slots[i].pos = w.slots[i].pos
    BY <1>1 DEF SameSlots, SameFrame, Carries, Used
  <2> QED BY <1>1, <2>1, <2>2 DEF TxTyped
<1>2. \A state : Emptied(u, state) => TxTyped(u, last)
  BY DEF Emptied, TxTyped
<1> QED BY <1>1, <1>2

(* A slot that is about a new frame, the others left alone. *)
LEMMA TxTypedInserted ==
  ASSUME NEW w, NEW last \in Nat, TxTyped(w, last), NEW u \in WTxType,
         NEW i \in Slots, NEW kind, NEW q, NEW s, NEW p,
         Inserted(u, w, i, kind, q, s, p), kind = "Data" => p = last + 1
  PROVE  TxTyped(u, last + 1)
<1>1. \A j \in Used(u) : j # i => j \in Used(w) /\ u.slots[j] = w.slots[j]
  BY DEF Inserted, Used
<1>2. \A j \in Used(u) : u.slots[j].kind = "Data" => u.slots[j].pos \in 1 .. last + 1
  <2> TAKE j \in Used(u)
  <2>1. CASE j = i
    BY <2>1 DEF Inserted, Carries
  <2>2. CASE j # i
    BY <1>1, <2>2 DEF TxTyped
  <2> QED BY <2>1, <2>2
<1>3. u.writing \in {0} \cup Used(u)
  BY DEF Inserted, TxTyped
<1> QED BY <1>2, <1>3 DEF TxTyped

LEMMA TxTypedSole ==
  ASSUME NEW last \in Nat, NEW u \in WTxType, u.writing = 0,
         NEW kind, kind # "Data", NEW q, NEW s, NEW p, Sole(u, kind, q, s, p)
  PROVE  TxTyped(u, last)
BY DEF Sole, Carries, TxTyped

(* What the line makes of a wire. *)
LEMMA TransmitType ==
  ASSUME NEW w \in Seq(Frame), NEW w2, NEW f \in Frame,
         w2 = Append(w, f) \/ w2 \in {w, Append(w, BadFrame)}
  PROVE  w2 \in Seq(Frame)
BY AppendFacts, FrameType

(* The frame of a used slot. *)
LEMMA FlightFrameType ==
  ASSUME NEW w \in WTxType, w.writing \in Used(w)
  PROVE  WFlightFrame(w) \in Frame
<1>1. w.slots[w.writing] \in Slot /\ w.slots[w.writing].kind # "None"
  BY DEF WTxType, Used
<1>2. w.slots[w.writing].kind \in FrameTypes
  BY <1>1 DEF Slot, FlightKinds, FrameTypes
<1> QED BY <1>1, <1>2, FrameType DEF WFlightFrame, Slot

LEMMA TypeStep == TypeInv /\ [Next]_vars => TypeInv'
<1> SUFFICES ASSUME TypeInv, [Next]_vars PROVE TypeInv'
  OBVIOUS
<1>0. /\ TxTyped(tx, sent) /\ sess \in Nat /\ sent \in Nat /\ rx \in WRxType
      /\ fwd \in Seq(Frame) /\ back \in Seq(Frame) /\ acked \subseteq 1 .. sent
      /\ delivered \in Seq(Bytes)
  BY TxTypedOf DEF TypeInv, TypeOK, Bytes
<1>w. tx \in WTxType /\ tx.writing \in {0} \cup Used(tx)
  BY <1>0 DEF TxTyped
<1>1. CASE AppStart
  <2>1. tx.writing = 0 /\ tx' = WOfferStart(tx, sess + 1) /\ sess + 1 \in Nat
    BY <1>0, <1>1 DEF AppStart, WCanOfferStart
  <2>2. tx' \in WTxType /\ Sole(tx', "Start", 0, sess + 1, 0) /\ tx'.writing = 0
    BY <1>w, <2>1, WOfferStartFields
  <2>3. TxTyped(tx', 0)
    BY <2>2, TxTypedSole
  <2>4. <<>> \in Seq(Bytes)
    OBVIOUS
  <2> QED BY <1>0, <1>1, <2>1, <2>3, <2>4, TypeInvOf DEF AppStart
<1>2. CASE AppOffer
  <2>1. tx' = WOffer(tx, sess, sent + 1) /\ sent + 1 \in Nat /\ Used(tx) # Slots
    BY <1>0, <1>2 DEF AppOffer, WCanOffer
  <2>2. PICK i \in Slots : Inserted(tx', tx, i, "Data", tx.next_seq, sess, sent + 1)
    BY <1>0, <1>w, <2>1, WOfferFields
  <2>3. tx' \in WTxType
    BY <1>0, <1>w, <2>1, WOfferFields
  <2>4. TxTyped(tx', sent + 1)
    BY <1>0, <2>2, <2>3, TxTypedInserted
  <2>5. acked \subseteq 1 .. sent + 1
    BY <1>0
  <2> QED BY <1>0, <1>2, <2>1, <2>4, <2>5, TypeInvOf DEF AppOffer
<1>3. CASE AppFinish
  <2>1. tx' = WOfferFinish(tx, sess, sent + 1) /\ sent + 1 \in Nat /\ Used(tx) = {}
    BY <1>0, <1>3 DEF AppFinish, WCanOfferFinish
  <2>2. /\ tx' \in WTxType /\ Sole(tx', "Finish", tx.next_seq, sess, sent + 1)
        /\ tx'.writing = 0
    BY <1>0, <1>w, <2>1, WOfferFinishFields
  <2>3. TxTyped(tx', sent)
    BY <1>0, <2>2, TxTypedSole
  <2> QED BY <1>0, <1>3, <2>3, TypeInvOf DEF AppFinish, history
<1>4. CASE AppAbort
  <2>1. tx' = WOfferAbort(tx, sess, sent + 1) /\ sent + 1 \in Nat
    BY <1>0, <1>4 DEF AppAbort
  <2>2. /\ tx' \in WTxType /\ Sole(tx', "Abort", 0, sess, sent + 1) /\ tx'.writing = 0
    BY <1>0, <1>w, <2>1, WOfferAbortFields
  <2>3. TxTyped(tx', sent)
    BY <1>0, <2>2, TxTypedSole
  <2>4. fwd' \in Seq(Frame)
    <3>1. \A k \in TornLens : TornFrame(k) \in Frame
      BY FrameType, WindowBounds
    <3>2. fwd' = fwd \/ \E k \in TornLens : fwd' = Append(fwd, TornFrame(k))
      BY <1>4 DEF AppAbort
    <3> QED BY <1>0, <3>1, <3>2, AppendFacts
  <2> QED BY <1>0, <1>4, <2>3, <2>4, TypeInvOf DEF AppAbort, history
<1>5. CASE PeerAbort
  <2>1. MkFrame("Abort", 0, sess, 0) \in Frame
    BY <1>0, FrameType, SeqTypes DEF FrameTypes
  <2>2. back' \in Seq(Frame)
    BY <1>0, <1>5, <2>1, AppendFacts DEF PeerAbort
  <2> QED BY <1>0, <1>5, <2>2, TypeInvOf DEF PeerAbort, history
<1>6. ASSUME NEW m \in Limits, TxLimit(m) PROVE TypeInv'
  <2>1. m \in Slots
    BY <1>6, WindowBounds DEF Slots
  <2>2. tx' \in WTxType /\ tx'.slots = tx.slots /\ tx'.writing = tx.writing
    BY <1>6, <1>w, <2>1 DEF TxLimit, WSetLimit, WTxType
  <2>3. TxTyped(tx', sent)
    BY <1>0, <2>2 DEF TxTyped, Used
  <2> QED BY <1>0, <1>6, <2>3, TypeInvOf DEF TxLimit, history
<1>7. ASSUME NEW m \in Limits, RxLimit(m) PROVE TypeInv'
  <2>1. rx' \in WRxType
    BY <1>7, <1>0, WindowBounds DEF RxLimit, WRxSetLimit, WRxType
  <2> QED BY <1>0, <1>7, <2>1, TypeInvOf DEF RxLimit, history
<1>8. CASE TxBeginWrite
  <2>1. /\ tx' \in WTxType /\ SameSlots(tx', tx) /\ tx'.writing \in Used(tx)
    BY <1>8, <1>w, BeginWriteFields DEF TxBeginWrite
  <2>2. TxTyped(tx', sent)
    BY <1>0, <2>1, TxTypedKept
  <2> QED BY <1>0, <1>8, <2>2, TypeInvOf DEF TxBeginWrite, history
<1>9. CASE TxEndWrite
  <2>1. tx.writing \in Used(tx) /\ tx.writing \in Slots
    BY <1>9, <1>w DEF TxEndWrite, Used
  <2>2. /\ tx' \in WTxType /\ SameSlots(tx', tx) /\ tx'.writing = 0
    BY <1>9, <1>w, <2>1, EndWriteFields DEF TxEndWrite
  <2>3. TxTyped(tx', sent)
    BY <1>0, <2>2, TxTypedKept
  <2>4. fwd' \in Seq(Frame)
    BY <1>0, <1>9, <1>w, <2>1, FlightFrameType, TransmitType DEF TxEndWrite, Transmit
  <2> QED BY <1>0, <1>9, <2>3, <2>4, TypeInvOf DEF TxEndWrite, history
<1>r. ASSUME Retried(tx', tx), tx.writing = 0 PROVE TxTyped(tx', sent)
  <2>1. tx' \in WTxType
    BY <1>r DEF Retried, Emptied
  <2> QED BY <1>0, <1>r, <2>1, TxTypedKept DEF Retried
<1>10. CASE TxRead
  <2> DEFINE h == Head(back)
  <2>1. /\ tx' = WOnControl(tx, h) /\ back' = Tail(back) /\ back # <<>> /\ tx.writing = 0
        /\ acked' = acked \cup {tx.slots[i].pos : i \in
             {j \in Matching(tx, h) : h.type = "Ack" /\ tx.slots[j].kind = "Data"}}
    BY <1>10 DEF TxRead, WReads
  <2> HIDE DEF h
  <2>2. back' \in Seq(Frame)
    BY <1>0, <2>1, TailFacts
  <2>3. acked' \subseteq 1 .. sent
    <3>1. \A i \in Matching(tx, h) : i \in Used(tx)
      BY DEF Matching
    <3>2. \A i \in Matching(tx, h) : tx.slots[i].kind = "Data" => tx.slots[i].pos \in 1 .. sent
      BY <1>0, <3>1 DEF TxTyped
    <3> QED BY <1>0, <2>1, <3>2
  <2>4. TxTyped(tx', sent)
    <3>1. ASSUME Emptied(tx', "Aborted") PROVE TxTyped(tx', sent)
      BY <3>1, <1>0, TxTypedKept DEF Emptied
    <3>2. ASSUME NEW i \in Matching(tx, h), Freed(tx', tx, i) PROVE TxTyped(tx', sent)
      BY <1>0, <2>1, <3>2 DEF Freed, TxTyped, Used
    <3> QED BY <1>w, <1>r, <2>1, <3>1, <3>2, WControlFields
  <2> QED BY <1>0, <1>10, <2>2, <2>3, <2>4, TypeInvOf DEF TxRead
<1>11. CASE TxEmptyRead
  <2>1. TxTyped(tx', sent)
    BY <1>11, <1>w, <1>r, EmptyReadFields DEF TxEmptyRead, WReads
  <2> QED BY <1>0, <1>11, <2>1, TypeInvOf DEF TxEmptyRead, history
<1>12. CASE RxEmit
  <2>1. rx' \in WRxType
    BY <1>0, <1>12, PopFields DEF RxEmit
  <2>2. Head(rx.emit) \in Bytes
    BY <1>0, <1>12, RxFields, TailFacts DEF RxEmit
  <2>3. delivered' \in Seq(Bytes)
    BY <1>0, <1>12, <2>2, AppendFacts DEF RxEmit
  <2> QED BY <1>0, <1>12, <2>1, <2>3, TypeInvOf DEF RxEmit
<1>13. CASE RxRead
  <2>1. fwd' \in Seq(Frame) /\ Head(fwd) \in Frame
    BY <1>0, <1>13, TailFacts DEF RxRead
  <2>2. rx' \in WRxType
    BY <1>0, <1>13, <2>1, WReadOutcomes DEF RxRead
  <2> QED BY <1>0, <1>13, <2>1, <2>2, TypeInvOf DEF RxRead, history
<1>14. CASE RxReply
  <2>1. PICK r : /\ r = WTakePending(rx)
                 /\ IF r.emit = <<>>
                      THEN rx' = r /\ UNCHANGED delivered
                      ELSE rx' = PopEmit(r) /\ delivered' = Append(delivered, Head(r.emit))
    BY <1>14 DEF RxReply
  <2>2. r \in WRxType /\ rx.reply \in Frame
    BY <1>0, <2>1, WPendingFields, RxFields
  <2>3. back' \in Seq(Frame)
    BY <1>0, <1>14, <2>2, TransmitType DEF RxReply, Transmit
  <2>4. rx' \in WRxType
    BY <2>1, <2>2, PopFields
  <2>5. r.emit # <<>> => Head(r.emit) \in Bytes
    BY <2>2, RxFields, TailFacts
  <2>6. delivered' \in Seq(Bytes)
    BY <1>0, <2>1, <2>5, AppendFacts, SMTT(30)
  <2> QED BY <1>0, <1>14, <2>3, <2>4, <2>6, TypeInvOf DEF RxReply
<1>15. CASE UNCHANGED vars
  BY <1>0, <1>15, TypeInvOf DEF vars, history
<1> QED BY <1>1, <1>2, <1>3, <1>4, <1>5, <1>6, <1>7, <1>8, <1>9, <1>10, <1>11,
           <1>12, <1>13, <1>14, <1>15 DEF Next, TxPoll, RxPoll

LEMMA TypeInit == Init => TypeInv
<1> SUFFICES ASSUME Init PROVE TypeInv
  OBVIOUS
<1>1. tx \in WTxType /\ Used(tx) = {} /\ tx.writing = 0
  <2>1. tx = WTxInit
    BY DEF Init
  <2>2. WindowLen \in Slots
    BY WindowFacts
  <2>3. tx \in WTxType /\ tx.writing = 0 /\ tx.slots = Cleared
    BY <2>1, <2>2, SlotType, SeqTypes DEF WTxInit, WTxType, TxStates
  <2> QED BY <2>3, SlotType DEF Used
<1>2. rx \in WRxType
  BY ByteType, SeqTypes, WindowFacts
     DEF Init, WRxInit, WRxType, EmptyBuf, Bytes, FrameLen
<1>3. fwd \in Seq(Frame) /\ back \in Seq(Frame) /\ delivered \in Seq([sess : Nat, pos : Nat])
  BY DEF Init
<1> QED BY <1>1, <1>2, <1>3 DEF Init, TypeInv, TypeOK

(***************************************************************************)
(* Every field of the two machines stays in its range: retry budgets never *)
(* go below zero, the slot being written is in use, offsets of the reorder *)
(* buffer exist, and only bytes offered are ever counted as ACKed -- also  *)
(* when offer_start is called on a line that still holds old frames.       *)
(***************************************************************************)
THEOREM TypeCorrect == Spec => []TypeOK
<1>1. Init => TypeInv
  BY TypeInit
<1>2. TypeInv /\ [Next]_vars => TypeInv'
  BY TypeStep
<1>3. TypeInv => TypeOK
  BY DEF TypeInv
<1> QED BY <1>1, <1>2, <1>3, PTL DEF Spec

-----------------------------------------------------------------------------
(* The types of the pieces the invariant speaks of. *)
LEMMA Pieces ==
  ASSUME TypeInv
  PROVE  /\ tx \in WTxType /\ rx \in WRxType
         /\ sess \in Nat /\ sent \in Nat /\ acked \subseteq 1 .. sent
         /\ Len(delivered) \in Nat /\ Len(rx.emit) \in Nat /\ n \in Nat
         /\ delivered \in Seq(Bytes) /\ rx.emit \in Seq(Bytes)
         /\ fwd \in Seq(Frame) /\ back \in Seq(Frame)
         /\ Len(fwd) \in Nat /\ Len(back) \in Nat
<1>1. rx.emit \in Seq(Bytes) /\ delivered \in Seq(Bytes)
  BY RxFields DEF TypeInv, TypeOK, Bytes
<1> QED BY <1>1 DEF TypeInv, TypeOK, n

LEMMA PiecesAfter ==
  ASSUME TypeInv'
  PROVE  /\ tx' \in WTxType /\ rx' \in WRxType
         /\ sess' \in Nat /\ sent' \in Nat /\ acked' \subseteq 1 .. sent'
         /\ Len(delivered') \in Nat /\ Len(rx'.emit) \in Nat /\ n' \in Nat
         /\ delivered' \in Seq(Bytes) /\ rx'.emit \in Seq(Bytes)
         /\ fwd' \in Seq(Frame) /\ back' \in Seq(Frame)
         /\ Len(fwd') \in Nat /\ Len(back') \in Nat
<1>1. rx' \in WRxType
  BY DEF TypeInv, TypeOK
<1>2. rx'.emit \in Seq(Bytes) /\ delivered' \in Seq(Bytes)
  BY <1>1, RxFields DEF TypeInv, TypeOK, Bytes
<1> QED BY <1>2 DEF TypeInv, TypeOK, n

(* What a wire holds are frames. *)
LEMMA OnWire ==
  ASSUME NEW w \in Seq(Frame), NEW k \in 1 .. Len(w)
  PROVE  w[k] \in Frame /\ w[k].pos \in Nat /\ w[k].seq \in Nat
BY SeqElement, FrameFields

-----------------------------------------------------------------------------
(* What stays unacknowledged. *)

LEMMA UnackedKept ==
  ASSUME NEW p, NEW m, Unacked(p, m), acked' = acked, \A i \in 1 .. m : back'[i] = back[i]
  PROVE  Unacked(p, m)'
BY DEF Unacked

(* The head of the wire is read; it acknowledged q at most. *)
LEMMA UnackedTail ==
  ASSUME NEW p, NEW m \in Nat, Unacked(p, m + 1), NEW q, acked' \subseteq acked \cup {q},
         q = 1 \/ (IsAck(back[1]) /\ back[1].pos = q) \/ acked' = acked,
         \A i \in 1 .. m : back'[i] = back[i + 1]
  PROVE  Unacked(p, m)'
<1>1. PICK u \in 2 .. p + 2 * WindowLen :
        /\ u \notin acked
        /\ \A i \in 1 .. m + 1 : IsAck(back[i]) => back[i].pos # u
  BY DEF Unacked
<1>2. u \notin acked'
  BY <1>1
<1>3. \A i \in 1 .. m : IsAck(back'[i]) => back'[i].pos # u
  BY <1>1 DEF IsAck
<1> QED BY <1>2, <1>3 DEF Unacked, IsAck

-----------------------------------------------------------------------------
(* The wires as a whole. *)

LEMMA FwdStays ==
  ASSUME FwdInv, fwd \in Seq(Frame), fwd' = fwd,
         \A f \in Frame, k \in 1 .. Len(fwd) : f = fwd[k] /\ FwdFrame(f) => FwdFrame(f)'
  PROVE  FwdInv'
<1>1. ASSUME NEW k \in 1 .. Len(fwd'), NEW f, f = fwd'[k] PROVE FwdFrame(f)'
  BY <1>1, OnWire DEF FwdInv
<1>2. \A j, k \in 1 .. Len(fwd') : j < k => Follows(fwd'[j], fwd'[k])
  BY DEF FwdInv
<1> QED BY <1>1, <1>2 DEF FwdInv, Follows

LEMMA FwdAppends ==
  ASSUME FwdInv, fwd \in Seq(Frame), NEW f \in Frame, fwd' = Append(fwd, f),
         \A g \in Frame, k \in 1 .. Len(fwd) : g = fwd[k] /\ FwdFrame(g) => FwdFrame(g)',
         FwdFrame(f)', \A k \in 1 .. Len(fwd) : Follows(fwd[k], f)
  PROVE  FwdInv'
<1>1. /\ Len(fwd') = Len(fwd) + 1 /\ Len(fwd) \in Nat /\ fwd'[Len(fwd) + 1] = f
      /\ \A k \in 1 .. Len(fwd) : fwd'[k] = fwd[k]
  BY AppendFacts
<1>2. ASSUME NEW k \in 1 .. Len(fwd'), NEW g, g = fwd'[k] PROVE FwdFrame(g)'
  <2>1. CASE k \in 1 .. Len(fwd)
    BY <1>1, <1>2, <2>1, OnWire DEF FwdInv
  <2>2. CASE k = Len(fwd) + 1
    BY <1>1, <1>2, <2>2
  <2> QED BY <1>1, <2>1, <2>2
<1>3. ASSUME NEW j \in 1 .. Len(fwd'), NEW k \in 1 .. Len(fwd'), j < k
      PROVE  Follows(fwd'[j], fwd'[k])
  <2>1. j \in 1 .. Len(fwd) /\ fwd'[j] = fwd[j]
    BY <1>1, <1>3
  <2>2. CASE k \in 1 .. Len(fwd)
    BY <1>1, <1>3, <2>1, <2>2 DEF FwdInv
  <2>3. CASE k = Len(fwd) + 1
    BY <1>1, <2>1, <2>3
  <2> QED BY <1>1, <2>2, <2>3
<1> QED BY <1>2, <1>3 DEF FwdInv, Follows

LEMMA FwdReads ==
  ASSUME FwdInv, fwd \in Seq(Frame), fwd # <<>>, fwd' = Tail(fwd),
         \A f \in Frame, k \in 2 .. Len(fwd) : f = fwd[k] /\ FwdFrame(f) => FwdFrame(f)'
  PROVE  FwdInv'
<1>1. /\ Len(fwd) \in Nat /\ Len(fwd) >= 1 /\ Len(fwd') = Len(fwd) - 1
      /\ \A k \in 1 .. Len(fwd') : k + 1 \in 1 .. Len(fwd) /\ fwd'[k] = fwd[k + 1]
  BY TailFacts
<1>2. ASSUME NEW k \in 1 .. Len(fwd'), NEW f, f = fwd'[k] PROVE FwdFrame(f)'
  <2>1. k + 1 \in 2 .. Len(fwd) /\ f = fwd[k + 1] /\ FwdFrame(f) /\ f \in Frame
    BY <1>1, <1>2, OnWire DEF FwdInv
  <2> QED BY <2>1
<1>3. \A j, k \in 1 .. Len(fwd') : j < k => Follows(fwd'[j], fwd'[k])
  BY <1>1 DEF FwdInv
<1> QED BY <1>2, <1>3 DEF FwdInv, Follows

(* No ACK but that of START under way, when none is added. *)
LEMMA OnlyStartAcksKept ==
  ASSUME OnlyStartAcks,
         \A k \in 1 .. Len(back') : IsAck(back'[k]) => \/ back'[k].pos = 0
                                                      \/ \E i \in 1 .. Len(back) : back'[k] = back[i],
         Replying(rx') /\ IsAck(rx'.reply) => (rx'.reply.pos = 0 \/ (Replying(rx) /\ rx'.reply = rx.reply))
  PROVE  OnlyStartAcks'
<1>1. \A k \in 1 .. Len(back') : IsAck(back'[k]) => back'[k].pos = 0
  BY DEF OnlyStartAcks
<1>2. Replying(rx') /\ IsAck(rx'.reply) => rx'.reply.pos = 0
  BY DEF OnlyStartAcks
<1> QED BY <1>1, <1>2 DEF OnlyStartAcks, IsAck

(* The wire to the sender, not written by the receiver. *)
LEMMA BackStays ==
  ASSUME Active' => Active /\ acked' = acked,
         BackInv, TypeInv, rx' = rx, back' = back,
         Active' => \A a \in Frame : AckFrame(a) => AckFrame(a)' /\ (a.pos \in 1 .. sent' => a.pos \in 1 .. sent)
  PROVE  BackInv'
<1> SUFFICES ASSUME Active' PROVE AcksSound' /\ StartAcksFirst' /\ ReplySound'
  BY DEF BackInv
<1>1. AcksSound /\ StartAcksFirst /\ ReplySound
  BY DEF BackInv
<1>2. back \in Seq(Frame) /\ Len(back) \in Nat /\ rx.reply \in Frame
  BY Pieces, RxFields
<1>3. ASSUME NEW a \in Frame, NEW m, AckAfter(a, m) PROVE AckAfter(a, m)'
  <2>1. AckFrame(a)' /\ (a.pos \in 1 .. sent' => a.pos \in 1 .. sent)
    BY <1>3 DEF AckAfter
  <2>2. a.pos \in 1 .. sent => Unacked(a.pos, m)'
    BY <1>3, UnackedKept DEF AckAfter
  <2> QED BY <2>1, <2>2 DEF AckAfter
<1>4. AcksSound'
  <2>1. ASSUME NEW k \in 1 .. Len(back'), NEW a, a = back'[k], IsAck(a)
        PROVE  AckAfter(a, k - 1)'
    BY <1>1, <1>2, <1>3, <2>1, OnWire DEF AcksSound
  <2> QED BY <2>1 DEF AcksSound, IsAck
<1>5. StartAcksFirst'
  BY <1>1 DEF StartAcksFirst, IsAck
<1>6. ReplySound'
  <2>1. OnlyStartAcks => OnlyStartAcks'
    BY DEF OnlyStartAcks, IsAck
  <2>2. Replying(rx) /\ IsAck(rx.reply) => AckAfter(rx.reply, Len(back))'
    BY <1>1, <1>2, <1>3 DEF ReplySound
  <2> QED BY <1>1, <2>1, <2>2 DEF ReplySound, IsAck
<1> QED BY <1>4, <1>5, <1>6

LEMMA BackReads ==
  ASSUME Active' => Active, BackInv, TypeInv, rx' = rx, back # <<>>, back' = Tail(back),
         sent' = sent, NEW q,
         Active' => /\ acked' \subseteq acked \cup {q}
                    /\ q = 1 \/ (IsAck(back[1]) /\ back[1].pos = q) \/ acked' = acked
                    /\ \A a \in Frame : AckFrame(a) /\ (a.pos = 0 => acked' \subseteq {1}) => AckFrame(a)',
         Active' => \A k \in 2 .. Len(back) : IsAck(back[k]) /\ back[k].pos = 0 => acked' \subseteq {1},
         Active' /\ Replying(rx) /\ IsAck(rx.reply) /\ rx.reply.pos = 0 => acked' \subseteq {1}
  PROVE  BackInv'
<1> SUFFICES ASSUME Active' PROVE AcksSound' /\ StartAcksFirst' /\ ReplySound'
  BY DEF BackInv
<1>1. AcksSound /\ StartAcksFirst /\ ReplySound
  BY DEF BackInv
<1>2. back \in Seq(Frame) /\ rx.reply \in Frame
  BY Pieces, RxFields
<1>3. /\ Len(back) \in Nat /\ Len(back) >= 1 /\ Len(back') = Len(back) - 1
      /\ \A k \in 1 .. Len(back') : k + 1 \in 1 .. Len(back) /\ back'[k] = back[k + 1]
  BY <1>2, TailFacts
<1>4. ASSUME NEW a \in Frame, NEW m \in Nat, m <= Len(back'), AckAfter(a, m + 1),
             a.pos = 0 => acked' \subseteq {1}
      PROVE  AckAfter(a, m)'
  <2>1. AckFrame(a)'
    BY <1>4 DEF AckAfter
  <2>2. \A i \in 1 .. m : back'[i] = back[i + 1]
    BY <1>3, <1>4
  <2>3. a.pos \in 1 .. sent => Unacked(a.pos, m)'
    BY <1>4, <2>2, UnackedTail DEF AckAfter
  <2> QED BY <2>1, <2>3 DEF AckAfter
<1>5. AcksSound'
  <2>1. ASSUME NEW k \in 1 .. Len(back'), NEW a, a = back'[k], IsAck(a)
        PROVE  AckAfter(a, k - 1)'
    <3>1. k + 1 \in 2 .. Len(back) /\ a = back[k + 1] /\ a \in Frame
      BY <1>2, <1>3, <2>1, OnWire
    <3>2. AckAfter(a, (k + 1) - 1)
      BY <1>1, <2>1, <3>1 DEF AcksSound
    <3>3. k - 1 \in Nat /\ (k + 1) - 1 = (k - 1) + 1 /\ k - 1 <= Len(back')
      BY <1>3
    <3> QED BY <1>4, <2>1, <3>1, <3>2, <3>3
  <2> QED BY <2>1 DEF AcksSound, IsAck
<1>6. StartAcksFirst'
  BY <1>1, <1>3 DEF StartAcksFirst, IsAck
<1>7. ReplySound'
  <2> SUFFICES ASSUME Replying(rx), IsAck(rx.reply)
               PROVE  AckAfter(rx.reply, Len(back))' /\ (rx.reply.pos = 0 => OnlyStartAcks')
    BY DEF ReplySound, IsAck
  <2>1. AckAfter(rx.reply, Len(back)) /\ (rx.reply.pos = 0 => OnlyStartAcks)
    BY <1>1 DEF ReplySound
  <2>2. Len(back') \in Nat /\ Len(back) = Len(back') + 1
    BY <1>3
  <2>3. AckAfter(rx.reply, Len(back))'
    <3>1. PICK m \in Nat : m = Len(back') /\ AckAfter(rx.reply, m + 1)
      BY <2>1, <2>2
    <3>2. PICK a \in Frame : a = rx.reply
      BY <1>2
    <3>3. AckAfter(a, m)'
      BY <1>4, <2>1, <3>1, <3>2
    <3> QED BY <3>1, <3>2, <3>3
  <2>4. OnlyStartAcks => OnlyStartAcks'
    BY <1>3, OnlyStartAcksKept
  <2> QED BY <2>1, <2>3, <2>4
<1> QED BY <1>5, <1>6, <1>7

-----------------------------------------------------------------------------
(* Steps of the sender that leave the frames in its slots alone. *)

(* What the invariant sees of the receiver, when it does not move. *)
LEMMA RxStays ==
  ASSUME rx' = rx, sess' = sess, sent' = sent, delivered' = delivered
  PROVE  /\ n' = n /\ (RxJoined' <=> RxJoined) /\ (Counts' <=> Counts)
         /\ \A i : Held(i)' <=> Held(i)
         /\ \A x : TakenUpTo(x)' <=> TakenUpTo(x)
<1>1. n' = n
  BY DEF n
<1>2. RxJoined' <=> RxJoined
  BY <1>1 DEF RxJoined
<1>3. Counts' <=> Counts
  BY <1>1 DEF Counts, InOrder, EmitInOrder
<1>4. \A i : Held(i)' <=> Held(i)
  BY DEF Held
<1>5. \A x : TakenUpTo(x)' <=> TakenUpTo(x)
  BY <1>1 DEF TakenUpTo
<1> QED BY <1>1, <1>2, <1>3, <1>4, <1>5

(* The invariant sees no difference between the sender states u and w. *)
Alike(u, w) ==
  /\ \A i \in Slots : SameFrame(u.slots[i], w.slots[i])
  /\ u.next_seq = w.next_seq /\ (u.limit = w.limit \/ Used(w) = {})
  /\ WClosed(u) <=> WClosed(w)
  /\ u.state = "Finished" <=> w.state = "Finished"
  /\ WClosed(u) => u.writing = 0

LEMMA AlikeSlots ==
  ASSUME Alike(tx', tx)
  PROVE  /\ Used(tx') = Used(tx)
         /\ \A i \in Used(tx) :
              Carries(tx'.slots[i], tx.slots[i].kind, tx.slots[i].seq, tx.slots[i].sess,
                      tx.slots[i].pos)
         /\ \A kind : SlotOf(kind)' = SlotOf(kind)
         /\ (Active' <=> Active) /\ (Opening' <=> Opening) /\ (Streaming' <=> Streaming)
<1>1. Used(tx') = Used(tx)
  BY DEF Alike, SameFrame, Carries, Used
<1>2. \A i \in Used(tx) :
        Carries(tx'.slots[i], tx.slots[i].kind, tx.slots[i].seq, tx.slots[i].sess,
                tx.slots[i].pos)
  BY DEF Alike, SameFrame, Used
<1>3. \A kind : SlotOf(kind)' = SlotOf(kind)
  BY <1>1, <1>2 DEF SlotOf, Carries
<1>4. Active' <=> Active
  BY <1>3 DEF Active, Alike
<1> QED BY <1>1, <1>2, <1>3, <1>4 DEF Opening, Streaming

LEMMA QuietTx ==
  ASSUME WInv, Alike(tx', tx), rx' = rx, history' = history
  PROVE  TxCoherent' /\ SlotInv' /\ RxInv'
<1>0. sess' = sess /\ sent' = sent /\ acked' = acked /\ delivered' = delivered
  BY DEF history
<1>1. /\ Used(tx') = Used(tx)
      /\ \A i \in Used(tx) : /\ tx'.slots[i].kind = tx.slots[i].kind
                             /\ tx'.slots[i].seq = tx.slots[i].seq
                             /\ tx'.slots[i].sess = tx.slots[i].sess
                             /\ tx'.slots[i].pos = tx.slots[i].pos
      /\ \A kind : SlotOf(kind)' = SlotOf(kind)
      /\ (Active' <=> Active) /\ (Streaming' <=> Streaming)
  BY AlikeSlots DEF Carries
<1>2. TxCoherent'
  BY <1>1 DEF WInv, TxCoherent, Alike
<1>3. \A kind : \A i \in SlotOf(kind) : i \in Used(tx)
  BY DEF SlotOf
<1>4. SlotInv'
  <2>1. \A i \in SlotOf("Data") : DataSlot(i)'
    <3>1. SlotOf("Data") # {} => tx'.limit = tx.limit
      BY <1>3 DEF Alike
    <3> QED BY <1>0, <1>1, <1>3, <3>1 DEF WInv, SlotInv, DataSlot
  <2>2. Streaming' => tx'.next_seq = sent' % SeqMod /\ Covered'
    BY <1>0, <1>1, <1>3 DEF WInv, SlotInv, Covered, Alike
  <2>3. \A i, j \in SlotOf("Data") : tx'.slots[i].pos = tx'.slots[j].pos => i = j
    BY <1>1, <1>3 DEF WInv, SlotInv
  <2>4. \A i \in SlotOf("Start") :
          sent' = 0 /\ acked' = {} /\ tx'.slots[i].seq = 0 /\ tx'.slots[i].pos = 0
    BY <1>0, <1>1, <1>3 DEF WInv, SlotInv
  <2>5. \A i \in SlotOf("Finish") :
         /\ tx'.slots[i].seq = sent' % SeqMod /\ tx'.slots[i].pos = sent' + 1
         /\ 1 .. sent' \subseteq acked'
    BY <1>0, <1>1, <1>3 DEF WInv, SlotInv
  <2> QED BY <1>1, <2>1, <2>2, <2>3, <2>4, <2>5 DEF SlotInv
<1>5. RxInv'
  <2>1. AcksHeld'
    BY <1>0, RxStays DEF WInv, RxInv, AcksHeld
  <2> QED BY <1>0, <1>1, <2>1, RxStays DEF WInv, RxInv, Alike
<1> QED BY <1>2, <1>4, <1>5

(* The frames under way, after such a step. *)
LEMMA QuietFrames ==
  ASSUME WInv, Alike(tx', tx), rx' = rx, history' = history
  PROVE  /\ \A a \in Frame : AckFrame(a) => AckFrame(a)'
         /\ (Active => (OnlyStartAcks => OnlyStartAcks')) =>
              \A f \in Frame : FwdFrame(f) => FwdFrame(f)'
<1>0. sess' = sess /\ sent' = sent /\ acked' = acked /\ delivered' = delivered
  BY DEF history
<1>1. /\ SlotOf("Finish")' = SlotOf("Finish")
      /\ (Active' <=> Active) /\ (Opening' <=> Opening)
  BY AlikeSlots
<1>2. /\ n' = n /\ (RxJoined' <=> RxJoined) /\ \A i : Held(i)' <=> Held(i)
      /\ \A x : TakenUpTo(x)' <=> TakenUpTo(x)
  BY <1>0, RxStays
<1>3. sent \in Nat
  BY Pieces DEF WInv
<1>4. ASSUME NEW a \in Frame, AckFrame(a) PROVE AckFrame(a)'
  BY <1>0, <1>1, <1>2, <1>4 DEF AckFrame
<1>5. ASSUME Active => (OnlyStartAcks => OnlyStartAcks'), NEW f \in Frame, FwdFrame(f)
      PROVE  FwdFrame(f)'
  <2>1. f.type = "Data" => FwdData(f)'
    BY <1>0, <1>2, <1>5 DEF FwdFrame, FwdData
  <2>2. f.type = "Start" => FwdStart(f)'
    BY <1>0, <1>1, <1>2, <1>5 DEF FwdFrame, FwdStart
  <2>3. f.type = "Finish" => FwdFinish(f)'
    BY <1>0, <1>1, <1>5 DEF FwdFrame, FwdFinish
  <2> QED BY <1>1, <1>5, <2>1, <2>2, <2>3 DEF FwdFrame
<1> QED BY <1>4, <1>5

(* Such a step when it leaves the wires alone, too. *)
LEMMA QuietWires ==
  ASSUME WInv, Alike(tx', tx), rx' = rx, history' = history, back' = back
  PROVE  /\ BackInv'
         /\ \A f \in Frame : FwdFrame(f) => FwdFrame(f)'
         /\ fwd' = fwd => FwdInv'
<1>0. sess' = sess /\ sent' = sent /\ acked' = acked
  BY DEF history
<1>1. BackInv'
  <2>1. Active' <=> Active
    BY AlikeSlots
  <2>2. \A a \in Frame : AckFrame(a) => AckFrame(a)'
    BY QuietFrames
  <2> QED BY <1>0, <2>1, <2>2, BackStays DEF WInv
<1>2. OnlyStartAcks => OnlyStartAcks'
  BY DEF OnlyStartAcks
<1>3. \A f \in Frame : FwdFrame(f) => FwdFrame(f)'
  BY <1>2, QuietFrames
<1>4. fwd \in Seq(Frame)
  BY Pieces DEF WInv
<1>5. fwd' = fwd => FwdInv'
  BY <1>3, <1>4, FwdStays DEF WInv
<1> QED BY <1>1, <1>3, <1>5

-----------------------------------------------------------------------------
(* Steps that end the session at the sender. *)

LEMMA Deactivated ==
  ASSUME WInv, ~Active', tx'.state = "Finished" => Len(delivered) = sent,
         rx' = rx, history' = history,
         SlotOf("Data")' = {}, SlotOf("Start")' = {}, SlotOf("Finish")' = {}
  PROVE  /\ SlotInv' /\ RxInv' /\ BackInv'
         /\ \A f \in Frame : FwdFrame(f) => FwdFrame(f)'
         /\ fwd' = fwd => FwdInv'
<1>0. sess' = sess /\ sent' = sent /\ acked' = acked /\ delivered' = delivered
  BY DEF history
<1>1. ~Streaming'
  BY DEF Streaming
<1>2. SlotInv'
  BY <1>1 DEF SlotInv
<1>3. RxInv'
  <2>1. AcksHeld'
    BY <1>0, RxStays DEF WInv, RxInv, AcksHeld
  <2> QED BY <1>0, <1>1, <2>1, RxStays DEF WInv, RxInv
<1>4. BackInv'
  BY DEF BackInv
<1>5. \A f \in Frame : FwdFrame(f) => FwdFrame(f)'
  <2> TAKE f \in Frame
  <2> HAVE FwdFrame(f)
  <2>1. f.type = "Data" => FwdData(f)'
    BY <1>0, RxStays DEF FwdFrame, FwdData
  <2>2. f.type = "Start" => FwdStart(f)'
    BY <1>0, RxStays DEF FwdFrame, FwdStart
  <2>3. f.type = "Finish" => FwdFinish(f)'
    BY <1>0 DEF FwdFrame, FwdFinish
  <2> QED BY <2>1, <2>2, <2>3 DEF FwdFrame
<1>6. fwd \in Seq(Frame)
  BY Pieces DEF WInv
<1>7. fwd' = fwd => FwdInv'
  BY <1>5, <1>6, FwdStays DEF WInv
<1> QED BY <1>2, <1>3, <1>4, <1>5, <1>7

(* The sender gives up, or is told to. *)
LEMMA GivenUp ==
  ASSUME WInv, TypeInv', NEW state, Emptied(tx', state), state \in {"Aborted", "Failed"},
         rx' = rx, history' = history, fwd' = fwd
  PROVE  WInv'
<1>1. Used(tx') = {} /\ tx'.writing = 0 /\ WClosed(tx') /\ tx'.state # "Finished"
  BY DEF Emptied, WClosed
<1>2. \A kind : SlotOf(kind)' = {}
  BY <1>1 DEF SlotOf
<1>3. ~Active'
  BY <1>1 DEF Active
<1>4. TxCoherent'
  BY <1>1 DEF TxCoherent
<1> QED BY <1>1, <1>2, <1>3, <1>4, Deactivated DEF WInv

-----------------------------------------------------------------------------
(* One lemma per action. *)

(* A sole slot, and what kinds are then in the air. *)
LEMMA SoleSlot ==
  ASSUME NEW kind, NEW q, NEW s, NEW p, Sole(tx', kind, q, s, p), kind # "None"
  PROVE  /\ ~WClosed(tx') /\ SlotOf(kind)' # {}
         /\ \A other : other # kind => SlotOf(other)' = {}
         /\ \A i \in SlotOf(kind)' : Carries(tx'.slots[i], kind, q, s, p)
         /\ TxCoherent'
<1>1. PICK i \in Slots : /\ Used(tx') = {i} /\ Carries(tx'.slots[i], kind, q, s, p)
                         /\ tx'.state = "Sending"
  BY DEF Sole
<1>2. SlotOf(kind)' = {i} /\ \A other : other # kind => SlotOf(other)' = {}
  BY <1>1 DEF SlotOf, Carries
<1>3. ~WClosed(tx')
  BY <1>1 DEF WClosed
<1> QED BY <1>1, <1>2, <1>3 DEF TxCoherent

LEMMA AppStartKeeps ==
  ASSUME WInv, TypeInv', AppStart, DrainedRestart
  PROVE  WInv'
<1>1. /\ tx.writing = 0 /\ tx' = WOfferStart(tx, sess + 1) /\ sess + 1 \in Nat
      /\ tx \in WTxType
  BY Pieces DEF AppStart, WCanOfferStart, WInv
<1>2. Sole(tx', "Start", 0, sess + 1, 0)
  BY <1>1, WOfferStartFields
<1>3. /\ ~WClosed(tx') /\ SlotOf("Start")' # {} /\ SlotOf("Abort")' = {}
      /\ SlotOf("Data")' = {} /\ SlotOf("Finish")' = {} /\ TxCoherent'
      /\ \A i \in SlotOf("Start")' : Carries(tx'.slots[i], "Start", 0, sess + 1, 0)
  BY <1>2, SoleSlot
<1>4. ~Streaming'
  BY <1>3 DEF Streaming
<1>5. /\ sent' = 0 /\ acked' = {} /\ delivered' = <<>> /\ rx' = rx
      /\ fwd' = <<>> /\ back' = <<>> /\ rx.action = "None" /\ rx.emit = <<>>
  BY DEF AppStart, Drained, Replying
<1>6. SlotInv'
  BY <1>3, <1>4, <1>5 DEF SlotInv, Carries
<1>7. RxInv'
  <2>1. n' = 0
    BY <1>5 DEF n
  <2>2. Counts'
    BY <1>5, <2>1, WindowFacts DEF Counts, InOrder, EmitInOrder
  <2>3. tx'.state # "Finished"
    BY <1>3 DEF WClosed
  <2> QED BY <1>4, <1>5, <2>1, <2>2, <2>3 DEF RxInv, AcksHeld
<1>8. FwdInv'
  BY <1>5 DEF FwdInv
<1>9. BackInv'
  <2>1. ~Replying(rx')
    BY <1>5 DEF Replying
  <2> QED BY <1>5, <2>1 DEF BackInv, AcksSound, StartAcksFirst, ReplySound
<1> QED BY <1>3, <1>6, <1>7, <1>8, <1>9 DEF WInv

LEMMA AppAbortKeeps ==
  ASSUME WInv, TypeInv', AppAbort
  PROVE  WInv'
<1>1. tx \in WTxType /\ sess \in Nat /\ sent + 1 \in Nat /\ fwd \in Seq(Frame)
  BY Pieces DEF WInv
<1>2. Sole(tx', "Abort", 0, sess, sent + 1)
  BY <1>1, WOfferAbortFields DEF AppAbort
<1>3. /\ ~WClosed(tx') /\ SlotOf("Abort")' # {} /\ TxCoherent'
      /\ SlotOf("Data")' = {} /\ SlotOf("Start")' = {} /\ SlotOf("Finish")' = {}
  BY <1>2, SoleSlot
<1>4. ~Active' /\ tx'.state # "Finished"
  BY <1>3 DEF Active, WClosed
<1>5. /\ SlotInv' /\ RxInv' /\ BackInv'
      /\ \A f \in Frame : FwdFrame(f) => FwdFrame(f)'
      /\ fwd' = fwd => FwdInv'
  BY <1>3, <1>4, Deactivated DEF AppAbort
<1>6. FwdInv'
  <2>1. ASSUME NEW k \in TornLens, fwd' = Append(fwd, TornFrame(k)) PROVE FwdInv'
    <3>1. PICK f \in Frame : f = TornFrame(k)
      BY FrameType, WindowBounds
    <3>2. f.type = "Torn"
      BY <3>1 DEF TornFrame, MkFrame
    <3>3. FwdFrame(f)' /\ \A g : Follows(g, f)
      BY <3>2 DEF FwdFrame, Follows
    <3> QED BY <1>1, <1>5, <2>1, <3>1, <3>3, FwdAppends DEF WInv
  <2>2. fwd' = fwd \/ \E k \in TornLens : fwd' = Append(fwd, TornFrame(k))
    BY DEF AppAbort
  <2> QED BY <1>5, <2>1, <2>2
<1> QED BY <1>3, <1>5, <1>6 DEF WInv

LEMMA TxLimitKeeps ==
  ASSUME WInv, TypeInv', NEW m \in Limits, TxLimit(m)
  PROVE  WInv'
<1>1. /\ tx'.slots = tx.slots /\ tx'.next_seq = tx.next_seq /\ tx'.state = tx.state
      /\ tx'.writing = 0 /\ Used(tx) = {}
  BY Pieces DEF TxLimit, WCanSetLimit, WSetLimit, WTxType, WInv
<1>2. Alike(tx', tx)
  BY <1>1 DEF Alike, SameFrame, Carries, WClosed
<1> QED BY <1>2, QuietTx, QuietWires DEF TxLimit, WInv

(* A sender with something in the air is not closed. *)
LEMMA SameSlotsAlike ==
  ASSUME SameSlots(tx', tx), ~WClosed(tx), ~WClosed(tx')
  PROVE  Alike(tx', tx)
BY DEF SameSlots, Alike, WClosed

LEMMA TxBeginWriteKeeps ==
  ASSUME WInv, TypeInv', TxBeginWrite
  PROVE  WInv'
<1>1. SameSlots(tx', tx) /\ tx'.state = "Sending" /\ ~WClosed(tx)
  BY Pieces, BeginWriteFields DEF TxBeginWrite, WInv, WWantsWrite
<1>2. Alike(tx', tx)
  BY <1>1, SameSlotsAlike DEF WClosed
<1> QED BY <1>2, QuietTx, QuietWires DEF TxBeginWrite, WInv

(* A step that charges retries, or fails for want of one. *)
LEMMA RetriedKeeps ==
  ASSUME WInv, TypeInv', Retried(tx', tx), ~WClosed(tx), rx' = rx, history' = history
  PROVE  \/ Alike(tx', tx)
         \/ Emptied(tx', "Failed")
BY SameSlotsAlike DEF Retried, WClosed

LEMMA TxEmptyReadKeeps ==
  ASSUME WInv, TypeInv', TxEmptyRead
  PROVE  WInv'
<1>1. Retried(tx', tx) /\ ~WClosed(tx)
  BY Pieces, EmptyReadFields DEF TxEmptyRead, WReads, WInv
<1>2. rx' = rx /\ history' = history /\ fwd' = fwd /\ back' = back
  BY DEF TxEmptyRead, history
<1>3. CASE Alike(tx', tx)
  BY <1>2, <1>3, QuietTx, QuietWires DEF WInv
<1>4. CASE Emptied(tx', "Failed")
  BY <1>2, <1>4, GivenUp
<1> QED BY <1>1, <1>2, <1>3, <1>4, RetriedKeeps

LEMMA StutterKeeps ==
  ASSUME WInv, TypeInv', UNCHANGED vars
  PROVE  WInv'
<1>1. tx' = tx /\ rx' = rx /\ history' = history /\ fwd' = fwd /\ back' = back
  BY DEF vars
<1>2. WClosed(tx) => tx.writing = 0
  BY DEF WInv, TxCoherent
<1>3. Alike(tx', tx)
  BY <1>1, <1>2 DEF Alike, SameFrame, Carries
<1> QED BY <1>1, <1>3, QuietTx, QuietWires DEF WInv

(* The kinds a slot may have. *)
LEMMA UsedKinds ==
  ASSUME TypeInv, NEW i \in Used(tx)
  PROVE  /\ tx.slots[i] \in Slot /\ i \in Slots
         /\ tx.slots[i].kind \in FlightKinds
         /\ tx.slots[i].pos \in Nat /\ tx.slots[i].seq \in Seqs
BY Pieces DEF Used, WTxType, Slot, FlightKinds

(* Where no START, FINISH or ABORT is in the air, all slots are DATA. *)
LEMMA DataOnly ==
  ASSUME WInv, ~WClosed(tx), ~HasSessionFlight(tx)
  PROVE  /\ Active /\ Streaming /\ Used(tx) = SlotOf("Data")
         /\ SlotOf("Finish") = {} /\ SlotOf("Start") = {} /\ SlotOf("Abort") = {}
<1>1. \A i \in Used(tx) : tx.slots[i].kind = "Data"
  BY UsedKinds DEF HasSessionFlight, FlightKinds, WInv
<1>2. /\ Used(tx) = SlotOf("Data") /\ SlotOf("Finish") = {} /\ SlotOf("Start") = {}
      /\ SlotOf("Abort") = {}
  BY <1>1 DEF SlotOf
<1> QED BY <1>2 DEF Active, Streaming

(* What is a whole window past the delivered bytes cannot be held. *)
LEMMA NotHeldBeyond ==
  ASSUME TypeInv, RxJoined, NEW u, u = n + WindowLen + 1
  PROVE  ~Held(u)
<1>0. n \in Nat /\ WindowLen \in Nat /\ Offsets = 0 .. WindowLen - 1
  BY Pieces, WindowFacts
<1>1. ~(u <= Len(delivered) + Len(rx.emit))
  BY <1>0 DEF n
<1>2. ASSUME NEW o \in Offsets, rx.buf[o] = [sess |-> sess, pos |-> u] PROVE FALSE
  <2>1. u # 0
    BY <1>0
  <2>2. rx.buf[o].pos = u /\ rx.buf[o] # NoByte
    BY <1>2, <2>1, ByteType
  <2>3. rx.buf[o] = [sess |-> sess, pos |-> n + 1 + o]
    BY <2>2 DEF RxJoined
  <2>4. u = n + 1 + o
    BY <1>2, <2>3
  <2> QED BY <1>0, <2>4
<1> QED BY <1>1, <1>2 DEF Held

(***************************************************************************)
(* How far the sender can be ahead: the position a whole window past what  *)
(* was delivered is not held, hence not acknowledged, hence still in a     *)
(* slot if it was offered at all.                                          *)
(***************************************************************************)
LEMMA OfferBound ==
  ASSUME WInv, ~WClosed(tx), ~HasSessionFlight(tx), SeqInSendWindow(tx, tx.next_seq)
  PROVE  /\ sent + 1 <= n + 2 * WindowLen
         /\ \A i \in Used(tx) : sent + 1 - tx.slots[i].pos < tx.limit
<1>0. /\ sent \in Nat /\ n \in Nat /\ tx \in WTxType /\ tx.limit \in 1 .. WindowLen
      /\ WindowLen \in Nat /\ WindowLen >= 1
  BY Pieces, WindowFacts DEF WInv, WTxType
<1>1. Streaming /\ Used(tx) = SlotOf("Data")
  BY DataOnly
<1>2. InWindow(tx, sent)
  BY <1>1 DEF WInv, SlotInv, DataSlot, InWindow
<1>3. \A i \in Used(tx) : sent + 1 - tx.slots[i].pos < tx.limit
  BY <1>0, <1>1, <1>2, OfferInWindow DEF WInv, SlotInv
<1>4. ASSUME ~(sent + 1 <= n + 2 * WindowLen) PROVE FALSE
  <2>1. PICK u \in Nat : u = n + WindowLen + 1
    BY <1>0
  <2>2. u \in 1 .. sent /\ u >= 2
    BY <1>0, <1>4, <2>1
  <2>3. u \notin acked
    <3>1. ~rx.abort_latched /\ RxJoined
      BY <1>1 DEF WInv, RxInv
    <3>2. ~Held(u)
      BY <2>1, <3>1, NotHeldBeyond DEF WInv
    <3> QED BY <2>2, <3>1, <3>2 DEF WInv, RxInv, AcksHeld
  <2>4. PICK i \in SlotOf("Data") : tx.slots[i].pos = u
    BY <1>1, <2>2, <2>3 DEF WInv, SlotInv, Covered
  <2>5. sent + 1 - u < tx.limit
    BY <1>1, <1>3, <2>4
  <2> QED BY <1>0, <1>4, <2>1, <2>5
<1> QED BY <1>3, <1>4

LEMMA AppOfferKeeps ==
  ASSUME WInv, TypeInv', AppOffer
  PROVE  WInv'
<1>0. /\ tx \in WTxType /\ sess \in Nat /\ sent \in Nat /\ sent + 1 \in Nat /\ n \in Nat
      /\ acked \subseteq 1 .. sent /\ fwd \in Seq(Frame) /\ back \in Seq(Frame)
      /\ tx.limit \in 1 .. WindowLen /\ Len(delivered) \in Nat
  BY Pieces, WindowFacts DEF WInv, WTxType
<1>1. /\ ~WClosed(tx) /\ ~HasSessionFlight(tx) /\ SeqInSendWindow(tx, tx.next_seq)
      /\ Used(tx) # Slots /\ tx' = WOffer(tx, sess, sent + 1)
      /\ rx' = rx /\ fwd' = fwd /\ back' = back /\ sess' = sess /\ sent' = sent + 1
      /\ acked' = acked /\ delivered' = delivered
  BY DEF AppOffer, WCanOffer
<1>2. /\ Active /\ Streaming /\ Used(tx) = SlotOf("Data")
      /\ SlotOf("Finish") = {} /\ SlotOf("Start") = {} /\ SlotOf("Abort") = {}
  BY <1>1, DataOnly
<1>3. /\ sent + 1 <= n + 2 * WindowLen
      /\ \A i \in Used(tx) : sent + 1 - tx.slots[i].pos < tx.limit
  BY <1>1, OfferBound
<1>4. tx'.next_seq = Advance(tx.next_seq)
  BY <1>0, <1>1, WOfferFields
<1>5. PICK e \in Slots : Inserted(tx', tx, e, "Data", tx.next_seq, sess, sent + 1)
  BY <1>0, <1>1, WOfferFields
<1>6. /\ Used(tx') = Used(tx) \cup {e} /\ e \notin Used(tx) /\ tx'.limit = tx.limit
      /\ \A i \in Used(tx) : tx'.slots[i] = tx.slots[i]
      /\ Carries(tx'.slots[e], "Data", tx.next_seq, sess, sent + 1)
      /\ ~WClosed(tx') /\ tx'.state # "Finished"
  BY <1>5 DEF Inserted, WClosed, Used
<1>7. /\ SlotOf("Data")' = Used(tx) \cup {e}
      /\ SlotOf("Finish")' = {} /\ SlotOf("Start")' = {} /\ SlotOf("Abort")' = {}
  BY <1>2, <1>6 DEF SlotOf, Carries
<1>8. Active' /\ Streaming' /\ ~Opening'
  BY <1>6, <1>7 DEF Active, Streaming, Opening
<1>9. TxCoherent'
  BY <1>6, <1>7 DEF TxCoherent, SlotOf
<1>10. tx.next_seq = sent % SeqMod /\ Covered
  BY <1>2 DEF WInv, SlotInv
<1>11. SlotInv'
  <2>1. ASSUME NEW i \in SlotOf("Data")' PROVE DataSlot(i)'
    <3>1. CASE i = e
      <4>1. (sent + 1) - 1 = sent
        BY <1>0
      <4>2. tx'.slots[i].seq = SeqOf(sent + 1)
        BY <1>6, <1>10, <3>1, <4>1 DEF Carries, SeqOf
      <4>3. /\ tx'.slots[i].sess = sess /\ tx'.slots[i].pos = sent + 1
            /\ sent' - tx'.slots[i].pos < tx'.limit
        BY <1>0, <1>1, <1>6, <3>1, WindowFacts DEF Carries
      <4> QED BY <1>0, <1>1, <4>2, <4>3 DEF DataSlot
    <3>2. CASE i \in Used(tx)
      <4>1. DataSlot(i) /\ sent + 1 - tx.slots[i].pos < tx.limit
        BY <1>2, <1>3, <3>2 DEF WInv, SlotInv
      <4>2. /\ tx'.slots[i] = tx.slots[i] /\ tx'.limit = tx.limit
            /\ sess' = sess /\ sent' = sent + 1
        BY <1>1, <1>6, <3>2
      <4>3. tx'.slots[i].sess = sess' /\ tx'.slots[i].pos \in 1 .. sent'
        BY <1>0, <4>1, <4>2 DEF DataSlot
      <4>4. tx'.slots[i].seq = SeqOf(tx'.slots[i].pos)
        BY <4>1, <4>2 DEF DataSlot
      <4>5. sent' - tx'.slots[i].pos < tx'.limit
        BY <1>0, <4>1, <4>2, <4>3, SMTT(30)
      <4> QED BY <4>3, <4>4, <4>5 DEF DataSlot
    <3> QED BY <1>7, <3>1, <3>2
  <2>2. ASSUME NEW i \in SlotOf("Data")', NEW j \in SlotOf("Data")',
               tx'.slots[i].pos = tx'.slots[j].pos
        PROVE  i = j
    <3>1. \A k \in Used(tx) : tx'.slots[k].pos = tx.slots[k].pos /\ tx.slots[k].pos \in 1 .. sent
      BY <1>2, <1>6 DEF WInv, SlotInv, DataSlot
    <3>2. tx'.slots[e].pos = sent + 1
      BY <1>6 DEF Carries
    <3>3. CASE i \in Used(tx) /\ j \in Used(tx)
      BY <1>2, <2>2, <3>1, <3>3 DEF WInv, SlotInv
    <3> QED BY <1>0, <1>7, <2>2, <3>1, <3>2, <3>3
  <2>3. tx'.next_seq = sent' % SeqMod
    BY <1>0, <1>1, <1>4, <1>10, AdvanceMod
  <2>4. Covered'
    <3>1. ASSUME NEW p \in 1 .. sent'
          PROVE  p \in acked' \/ \E i \in SlotOf("Data")' : tx'.slots[i].pos = p
      <4>1. CASE p = sent + 1
        BY <1>6, <1>7, <4>1 DEF Carries
      <4>2. CASE p \in 1 .. sent
        BY <1>1, <1>2, <1>6, <1>7, <1>10, <4>2 DEF Covered
      <4> QED BY <1>0, <1>1, <3>1, <4>1, <4>2
    <3> QED BY <3>1 DEF Covered
  <2> QED BY <1>7, <2>1, <2>2, <2>3, <2>4 DEF SlotInv
<1>12. n' = n
  BY <1>1 DEF n
<1>13. /\ ~rx.abort_latched /\ RxJoined /\ ~IsFinished(rx) /\ Counts /\ AcksHeld
  BY <1>2 DEF WInv, RxInv
<1>14. RxJoined'
  BY <1>0, <1>1, <1>12, <1>13, WindowFacts DEF RxJoined
<1>15. RxInv'
  <2>1. Counts'
    BY <1>0, <1>1, <1>3, <1>12, <1>13 DEF Counts, InOrder, EmitInOrder
  <2>2. AcksHeld'
    BY <1>1, <1>13 DEF AcksHeld, Held
  <2>3. ~rx'.abort_latched /\ ~IsFinished(rx') /\ ~IsClosed(rx') /\ sent' > 0
    BY <1>0, <1>1, <1>13 DEF IsClosed
  <2> QED BY <1>6, <1>14, <2>1, <2>2, <2>3 DEF RxInv
<1>16. FwdInv'
  <2>1. ASSUME NEW f \in Frame, FwdFrame(f) PROVE FwdFrame(f)'
    <3>1. f.type # "Finish" /\ f.type # "Abort"
      BY <1>2, <2>1 DEF FwdFrame, FwdFinish
    <3>2. \A x : TakenUpTo(x) => TakenUpTo(x)'
      BY <1>1, <1>12 DEF TakenUpTo
    <3>3. f.type = "Data" => FwdData(f)'
      BY <1>0, <1>1, <2>1, <3>2 DEF FwdFrame, FwdData
    <3>4. f.type = "Start" => FwdStart(f)'
      <4>1. OnlyStartAcks => OnlyStartAcks'
        BY <1>1 DEF OnlyStartAcks
      <4> QED BY <1>1, <1>2, <1>12, <2>1, <4>1 DEF FwdFrame, FwdStart
    <3> QED BY <2>1, <3>1, <3>3, <3>4 DEF FwdFrame
  <2> QED BY <1>0, <1>1, <2>1, FwdStays DEF WInv
<1>17. BackInv'
  <2>1. ASSUME NEW a \in Frame, AckFrame(a)
        PROVE  AckFrame(a)' /\ (a.pos \in 1 .. sent' => a.pos \in 1 .. sent)
    <3>1. a.pos \in Nat /\ a.pos <= sent
      BY <1>0, <1>2, <2>1, FrameFields DEF AckFrame
    <3>2. \A i : Held(i) => Held(i)'
      BY <1>1 DEF Held
    <3>3. AckFrame(a)'
      BY <1>0, <1>1, <1>8, <2>1, <3>1, <3>2 DEF AckFrame
    <3> QED BY <1>0, <3>1, <3>3
  <2> QED BY <1>1, <1>2, <2>1, BackStays DEF WInv
<1> QED BY <1>9, <1>11, <1>15, <1>16, <1>17 DEF WInv

LEMMA AppFinishKeeps ==
  ASSUME WInv, TypeInv', AppFinish
  PROVE  WInv'
<1>0. /\ tx \in WTxType /\ sess \in Nat /\ sent \in Nat /\ sent + 1 \in Nat
      /\ acked \subseteq 1 .. sent /\ fwd \in Seq(Frame)
  BY Pieces DEF WInv
<1>1. /\ ~WClosed(tx) /\ Used(tx) = {} /\ tx' = WOfferFinish(tx, sess, sent + 1)
      /\ rx' = rx /\ fwd' = fwd /\ back' = back /\ sess' = sess /\ sent' = sent
      /\ acked' = acked /\ delivered' = delivered
  BY DEF AppFinish, WCanOfferFinish, history
<1>2. \A kind : SlotOf(kind) = {}
  BY <1>1 DEF SlotOf
<1>3. Active /\ Streaming
  BY <1>1, <1>2 DEF Active, Streaming
<1>4. Sole(tx', "Finish", tx.next_seq, sess, sent + 1) /\ tx'.next_seq = tx.next_seq
  BY <1>0, <1>1, WOfferFinishFields
<1>5. /\ ~WClosed(tx') /\ SlotOf("Finish")' # {} /\ SlotOf("Abort")' = {}
      /\ SlotOf("Data")' = {} /\ SlotOf("Start")' = {} /\ TxCoherent'
      /\ \A i \in SlotOf("Finish")' :
           Carries(tx'.slots[i], "Finish", tx.next_seq, sess, sent + 1)
  BY <1>4, SoleSlot
<1>6. Active' /\ Streaming' /\ ~Opening' /\ tx'.state # "Finished"
  BY <1>5 DEF Active, Streaming, Opening, WClosed
<1>7. tx.next_seq = sent % SeqMod /\ 1 .. sent \subseteq acked
  BY <1>2, <1>3 DEF WInv, SlotInv, Covered
<1>8. SlotInv'
  <2>1. \A i \in SlotOf("Finish")' :
          /\ tx'.slots[i].seq = sent' % SeqMod /\ tx'.slots[i].pos = sent' + 1
          /\ 1 .. sent' \subseteq acked'
    BY <1>1, <1>5, <1>7 DEF Carries
  <2>2. tx'.next_seq = sent' % SeqMod /\ Covered'
    BY <1>1, <1>4, <1>7 DEF Covered
  <2> QED BY <1>5, <2>1, <2>2 DEF SlotInv
<1>9. /\ n' = n /\ (RxJoined' <=> RxJoined) /\ (Counts' <=> Counts)
      /\ \A i : Held(i)' <=> Held(i)
      /\ \A x : TakenUpTo(x)' <=> TakenUpTo(x)
  BY <1>1, RxStays
<1>10. RxInv'
  <2>1. AcksHeld'
    BY <1>1, <1>9 DEF WInv, RxInv, AcksHeld
  <2> QED BY <1>1, <1>3, <1>5, <1>6, <1>9, <2>1 DEF WInv, RxInv
<1>11. FwdInv'
  <2>1. ASSUME NEW f \in Frame, FwdFrame(f) PROVE FwdFrame(f)'
    <3>1. f.type = "Data" => FwdData(f)'
      BY <1>1, <1>9, <2>1 DEF FwdFrame, FwdData
    <3>2. f.type = "Start" => FwdStart(f)'
      <4>1. OnlyStartAcks => OnlyStartAcks'
        BY <1>1 DEF OnlyStartAcks
      <4> QED BY <1>1, <1>3, <1>9, <2>1, <4>1 DEF FwdFrame, FwdStart
    <3>3. f.type = "Finish" => FwdFinish(f)'
      BY <1>1, <1>5, <2>1 DEF FwdFrame, FwdFinish
    <3> QED BY <1>3, <2>1, <3>1, <3>2, <3>3 DEF FwdFrame
  <2> QED BY <1>0, <1>1, <2>1, FwdStays DEF WInv
<1>12. BackInv'
  <2>1. ASSUME NEW a \in Frame, AckFrame(a) PROVE AckFrame(a)'
    BY <1>1, <1>5, <1>6, <1>9, <2>1 DEF AckFrame
  <2> QED BY <1>1, <1>3, <2>1, BackStays DEF WInv
<1> QED BY <1>5, <1>8, <1>10, <1>11, <1>12 DEF WInv

LEMMA PeerAbortKeeps ==
  ASSUME WInv, TypeInv', PeerAbort
  PROVE  WInv'
<1>0. /\ tx' = tx /\ rx' = rx /\ fwd' = fwd /\ history' = history
      /\ sess' = sess /\ sent' = sent /\ acked' = acked
  BY DEF PeerAbort, history
<1>1. PICK b \in Frame : b = MkFrame("Abort", 0, sess, 0)
  BY Pieces, FrameType, SeqTypes DEF WInv, FrameTypes
<1>2. back' = Append(back, b) /\ ~IsAck(b)
  BY <1>1 DEF PeerAbort, IsAck, MkFrame
<1>3. back \in Seq(Frame) /\ fwd \in Seq(Frame) /\ rx.reply \in Frame
  BY Pieces, RxFields DEF WInv
<1>4. /\ Len(back') = Len(back) + 1 /\ Len(back) \in Nat /\ back'[Len(back) + 1] = b
      /\ \A k \in 1 .. Len(back) : back'[k] = back[k]
  BY <1>2, <1>3, AppendFacts
<1>5. Alike(tx', tx)
  <2>1. WClosed(tx) => tx.writing = 0
    BY DEF WInv, TxCoherent
  <2> QED BY <1>0, <2>1 DEF Alike, SameFrame, Carries
<1>6. OnlyStartAcks => OnlyStartAcks'
  <2>1. ASSUME NEW k \in 1 .. Len(back'), IsAck(back'[k])
        PROVE  \E i \in 1 .. Len(back) : back'[k] = back[i]
    BY <1>2, <1>4, <2>1
  <2> QED BY <1>0, <2>1, OnlyStartAcksKept
<1>7. FwdInv'
  <2>1. \A f \in Frame : FwdFrame(f) => FwdFrame(f)'
    BY <1>0, <1>5, <1>6, QuietFrames
  <2> QED BY <1>0, <1>3, <2>1, FwdStays DEF WInv
<1>8. BackInv'
  <2> SUFFICES ASSUME Active' PROVE AcksSound' /\ StartAcksFirst' /\ ReplySound'
    BY DEF BackInv
  <2>1. AcksSound /\ StartAcksFirst /\ ReplySound
    BY <1>5, AlikeSlots DEF BackInv, WInv
  <2>2. ASSUME NEW a \in Frame, NEW m \in Nat, m <= Len(back), AckAfter(a, m)
        PROVE  AckAfter(a, m)' /\ (m = Len(back) => AckAfter(a, m + 1)')
    <3>1. AckFrame(a)'
      BY <1>0, <1>5, <2>2, QuietFrames DEF AckAfter
    <3>2. a.pos \in 1 .. sent => Unacked(a.pos, m)'
      BY <1>0, <1>4, <2>2, UnackedKept DEF AckAfter
    <3>3. ASSUME a.pos \in 1 .. sent, m = Len(back) PROVE Unacked(a.pos, m + 1)'
      <4>1. PICK u \in 2 .. a.pos + 2 * WindowLen :
              /\ u \notin acked
              /\ \A i \in 1 .. m : IsAck(back[i]) => back[i].pos # u
        BY <2>2, <3>3 DEF AckAfter, Unacked
      <4>2. \A i \in 1 .. m + 1 : IsAck(back'[i]) => back'[i].pos # u
        BY <1>2, <1>4, <3>3, <4>1
      <4> QED BY <1>0, <4>1, <4>2 DEF Unacked, IsAck
    <3> QED BY <1>0, <3>1, <3>2, <3>3 DEF AckAfter
  <2>3. AcksSound'
    <3>1. ASSUME NEW k \in 1 .. Len(back'), NEW a, a = back'[k], IsAck(a)
          PROVE  AckAfter(a, k - 1)'
      <4>1. k \in 1 .. Len(back) /\ a = back[k]
        BY <1>2, <1>4, <3>1
      <4>2. a \in Frame /\ AckAfter(a, k - 1)
        BY <1>3, <2>1, <3>1, <4>1, OnWire DEF AcksSound
      <4> QED BY <1>4, <2>2, <4>1, <4>2
    <3> QED BY <3>1 DEF AcksSound, IsAck
  <2>4. StartAcksFirst'
    BY <1>2, <1>4, <2>1, SMTT(30) DEF StartAcksFirst, IsAck
  <2>5. ReplySound'
    <3> SUFFICES ASSUME Replying(rx), IsAck(rx.reply)
                 PROVE  AckAfter(rx.reply, Len(back))' /\ (rx.reply.pos = 0 => OnlyStartAcks')
      BY <1>0 DEF ReplySound, IsAck
    <3>1. AckAfter(rx.reply, Len(back)) /\ (rx.reply.pos = 0 => OnlyStartAcks)
      BY <2>1 DEF ReplySound
    <3>2. PICK a \in Frame : a = rx.reply
      BY <1>3
    <3>3. PICK m \in Nat : m = Len(back)
      BY <1>4
    <3>4. AckAfter(a, m + 1)'
      BY <2>2, <3>1, <3>2, <3>3
    <3>5. rx'.reply = a /\ Len(back') = m + 1
      BY <1>0, <1>4, <3>2, <3>3
    <3> QED BY <1>6, <3>1, <3>4, <3>5
  <2> QED BY <2>3, <2>4, <2>5
<1> QED BY <1>0, <1>5, <1>7, <1>8, QuietTx DEF WInv

(* The frame of a slot, as it goes onto the wire. *)
LEMMA SlotFrame ==
  ASSUME WInv, NEW i \in Used(tx), NEW f,
         f = MkFrame(tx.slots[i].kind, tx.slots[i].seq, tx.slots[i].sess, tx.slots[i].pos)
  PROVE  /\ FwdFrame(f)
         /\ \A k \in 1 .. Len(fwd) : Follows(fwd[k], f)
<1>0. /\ sent \in Nat /\ n \in Nat /\ tx.limit \in 1 .. WindowLen /\ fwd \in Seq(Frame)
      /\ WindowLen \in Nat /\ TypeInv
  BY Pieces, WindowFacts DEF WInv, WTxType
<1>1. /\ f.type = tx.slots[i].kind /\ f.seq = tx.slots[i].seq
      /\ f.sess = tx.slots[i].sess /\ f.pos = tx.slots[i].pos
  BY DEF MkFrame
<1>2. f.type \in {"Data", "Start", "Finish", "Abort"} /\ i \in SlotOf(f.type)
  BY <1>0, <1>1, UsedKinds DEF FlightKinds, SlotOf
<1>3. ~WClosed(tx) /\ (f.type # "Data" => \A j \in Used(tx) : j = i)
  BY <1>1 DEF WInv, TxCoherent
<1>4. f.type # "Data" => \A kind : kind # f.type => SlotOf(kind) = {}
  BY <1>1, <1>3 DEF SlotOf
<1>5. \A k \in 1 .. Len(fwd) : FwdFrame(fwd[k]) /\ fwd[k].pos \in Nat
  BY <1>0, OnWire DEF WInv, FwdInv
<1>6. CASE f.type = "Data"
  <2>1. DataSlot(i)
    BY <1>2, <1>6 DEF WInv, SlotInv
  <2>2. f.pos \in 1 .. sent /\ f.sess = sess /\ f.seq = SeqOf(f.pos) /\ sent - f.pos < tx.limit
    BY <1>1, <2>1 DEF DataSlot
  <2>3. sent <= f.pos + WindowLen - 1
    BY <1>0, <2>2
  <2>4. rx.abort_latched \/ TakenUpTo(f.pos + WindowLen - 1)
    <3>1. n <= sent /\ (rx.abort_latched \/ RxJoined)
      BY <1>0, <2>2 DEF WInv, RxInv, Counts
    <3>2. RxJoined => \A o \in Offsets : rx.buf[o] # NoByte => n + 1 + o <= sent
      BY DEF RxJoined
    <3>3. n <= f.pos + WindowLen - 1
      BY <1>0, <2>2, <2>3, <3>1
    <3>4. \A o \in Offsets : n + 1 + o <= sent => n + 1 + o <= f.pos + WindowLen - 1
      BY <1>0, <2>2, <2>3, WindowFacts
    <3> QED BY <3>1, <3>2, <3>3, <3>4 DEF TakenUpTo
  <2>5. FwdFrame(f)
    BY <1>6, <2>2, <2>4 DEF FwdFrame, FwdData
  <2>6. \A k \in 1 .. Len(fwd) : Follows(fwd[k], f)
    BY <1>0, <1>5, <1>6, <2>2, <2>3 DEF FwdFrame, FwdData, Follows
  <2> QED BY <2>5, <2>6
<1>7. CASE f.type = "Start"
  <2>1. /\ sent = 0 /\ acked = {} /\ f.pos = 0
    BY <1>1, <1>2, <1>7 DEF WInv, SlotInv
  <2>2. Active /\ Opening /\ SlotOf("Finish") = {}
    BY <1>2, <1>3, <1>4, <1>7 DEF Active, Opening
  <2>3. n = 0 /\ rx.action # "Drain"
    BY <1>0, <2>1 DEF WInv, RxInv, Counts
  <2>4. OnlyStartAcks
    BY <2>2 DEF WInv, BackInv, AcksSound, ReplySound, AckAfter, AckFrame, OnlyStartAcks
  <2>5. FwdFrame(f)
    BY <1>7, <2>1, <2>3, <2>4 DEF FwdFrame, FwdStart
  <2>6. \A k \in 1 .. Len(fwd) : Follows(fwd[k], f)
    BY <1>5, <1>7, <2>1, <2>2 DEF FwdFrame, FwdData, FwdFinish, Follows
  <2> QED BY <2>5, <2>6
<1>8. CASE f.type = "Finish"
  <2>1. /\ f.seq = sent % SeqMod /\ f.pos = sent + 1 /\ 1 .. sent \subseteq acked
    BY <1>1, <1>2, <1>8 DEF WInv, SlotInv
  <2> QED BY <1>2, <1>8, <2>1 DEF FwdFrame, FwdFinish, Follows
<1>9. CASE f.type = "Abort"
  <2>1. ~Active
    BY <1>2, <1>9 DEF Active
  <2> QED BY <1>9, <2>1 DEF FwdFrame, Follows
<1> QED BY <1>2, <1>6, <1>7, <1>8, <1>9

LEMMA TxEndWriteKeeps ==
  ASSUME WInv, TypeInv', TxEndWrite
  PROVE  WInv'
<1>0. /\ tx \in WTxType /\ fwd \in Seq(Frame) /\ rx' = rx /\ history' = history
      /\ back' = back /\ tx' = WEndWrite(tx)
  BY Pieces DEF TxEndWrite, WInv
<1>1. tx.writing \in Used(tx) /\ tx.writing \in Slots
  BY <1>0, TxTypedOf DEF TxEndWrite, WInv, TxTyped, Used
<1>2. ~WClosed(tx)
  BY <1>1 DEF WInv, TxCoherent
<1>3. SameSlots(tx', tx) /\ ~WClosed(tx')
  BY <1>0, <1>1, EndWriteFields DEF WClosed
<1>4. Alike(tx', tx)
  BY <1>2, <1>3, SameSlotsAlike
<1>5. TxCoherent' /\ SlotInv' /\ RxInv'
  BY <1>0, <1>4, QuietTx
<1>6. /\ BackInv' /\ \A g \in Frame : FwdFrame(g) => FwdFrame(g)'
      /\ fwd' = fwd => FwdInv'
  BY <1>0, <1>4, QuietWires
<1>7. PICK f \in Frame : f = WFlightFrame(tx)
  BY <1>0, <1>1, FlightFrameType
<1>8. FwdFrame(f) /\ \A k \in 1 .. Len(fwd) : Follows(fwd[k], f)
  BY <1>1, <1>7, SlotFrame DEF WFlightFrame
<1>9. fwd' = Append(fwd, f) => FwdInv'
  BY <1>0, <1>6, <1>7, <1>8, FwdAppends DEF WInv
<1>10. fwd' = Append(fwd, BadFrame) => FwdInv'
  <2>1. PICK b \in Frame : b = BadFrame
    BY FrameType
  <2>2. b.type = "Bad"
    BY <2>1 DEF BadFrame, MkFrame
  <2>3. FwdFrame(b)' /\ \A g : Follows(g, b)
    BY <2>2 DEF FwdFrame, Follows
  <2> QED BY <1>0, <1>6, <2>1, <2>3, FwdAppends DEF WInv
<1>11. fwd' = fwd \/ fwd' = Append(fwd, f) \/ fwd' = Append(fwd, BadFrame)
  BY <1>7 DEF TxEndWrite, Transmit
<1> QED BY <1>5, <1>6, <1>9, <1>10, <1>11 DEF WInv

(* The ACK at the head of the wire to an active sender. *)
LEMMA HeadAck ==
  ASSUME WInv, Active, back # <<>>, NEW a, a = back[1], IsAck(a)
  PROVE  /\ a.pos \in Nat /\ AckFrame(a)
         /\ a.pos \in 1 .. sent =>
              \E u \in 2 .. a.pos + 2 * WindowLen : u \notin acked
<1>1. back \in Seq(Frame) /\ 1 \in 1 .. Len(back)
  BY Pieces, TailFacts DEF WInv
<1>2. a \in Frame /\ a.pos \in Nat
  BY <1>1, OnWire
<1>3. AckAfter(a, 1 - 1)
  BY <1>1 DEF WInv, BackInv, AcksSound
<1> QED BY <1>2, <1>3 DEF AckAfter, Unacked

(***************************************************************************)
(* An ACK that matches a DATA slot by its SEQ is about that slot's byte,   *)
(* or is an ACK of START that frees the slot of the first byte.            *)
(***************************************************************************)
LEMMA MatchedData ==
  ASSUME WInv, Active, back # <<>>, NEW a, a = back[1], IsAck(a),
         NEW i \in SlotOf("Data"), tx.slots[i].seq = a.seq
  PROVE  \/ a.pos = tx.slots[i].pos /\ Held(a.pos)
         \/ a.pos = 0 /\ tx.slots[i].pos = 1
<1>0. /\ sent \in Nat /\ a.pos \in Nat /\ WindowLen \in Nat /\ WindowLen >= 1
      /\ SeqMod \in Nat /\ 3 * WindowLen <= SeqMod /\ tx.limit \in 1 .. WindowLen
      /\ AckFrame(a)
  BY Pieces, HeadAck, WindowFacts DEF WInv, WTxType
<1>1. PICK q \in 1 .. sent : /\ q = tx.slots[i].pos /\ a.seq = SeqOf(q)
                             /\ sent - q < WindowLen
  <2>1. DataSlot(i)
    BY DEF WInv, SlotInv
  <2> QED BY <1>0, <2>1 DEF DataSlot
<1>2. SlotOf("Start") = {} /\ SlotOf("Finish") = {}
  <2>1. tx.slots[i].kind = "Data" /\ i \in Used(tx)
    BY DEF SlotOf
  <2> QED BY <2>1 DEF WInv, TxCoherent, SlotOf
<1>3. Covered
  BY <1>2 DEF WInv, SlotInv, Streaming
<1>4. ASSUME NEW u \in 1 .. sent, u \notin acked PROVE sent - u < WindowLen
  <2>1. PICK j \in SlotOf("Data") : tx.slots[j].pos = u
    BY <1>3, <1>4 DEF Covered
  <2>2. DataSlot(j)
    BY DEF WInv, SlotInv
  <2> QED BY <1>0, <2>1, <2>2 DEF DataSlot
<1>5. CASE a.pos = 0
  <2>1. a.seq = 0 /\ acked \subseteq {1}
    BY <1>0, <1>5 DEF AckFrame
  <2>2. sent <= WindowLen + 1
    <3>1. CASE sent >= 2
      <4>1. 2 \in 1 .. sent /\ 2 \notin acked
        BY <1>0, <2>1, <3>1
      <4> QED BY <1>0, <1>4, <4>1
    <3> QED BY <1>0, <3>1
  <2>3. q - 1 \in Seqs
    BY <1>0, <1>1, <2>2 DEF Seqs
  <2>4. (q - 1) % SeqMod = q - 1
    BY <2>3, ModSmall
  <2>5. q = 1
    <3>1. q - 1 = 0
      BY <1>1, <2>1, <2>4, Zenon DEF SeqOf
    <3> QED BY <1>1, <3>1
  <2> QED BY <1>1, <1>5, <2>5
<1>6. CASE a.pos \in 1 .. sent
  <2>1. a.seq = SeqOf(a.pos) /\ Held(a.pos)
    BY <1>0, <1>6 DEF AckFrame
  <2>2. PICK u \in 2 .. a.pos + 2 * WindowLen : u \notin acked
    BY <1>6, HeadAck
  <2>3. sent < a.pos + 3 * WindowLen
    <3>1. CASE u > sent
      BY <1>0, <1>6, <2>2, <3>1
    <3>2. CASE u <= sent
      <4>1. u \in 1 .. sent
        BY <1>0, <2>2, <3>2
      <4> QED BY <1>0, <1>4, <1>6, <2>2, <4>1
    <3> QED BY <1>0, <1>6, <2>2, <3>1, <3>2
  <2>a. PICK x \in Nat : x = q - 1
    BY <1>0
  <2>b. PICK y \in Nat : y = a.pos - 1
    BY <1>0, <1>6
  <2>4. x = q - 1 /\ y = a.pos - 1
    BY <2>a, <2>b
  <2>5. x % SeqMod = y % SeqMod
    BY <1>1, <2>1, <2>4 DEF SeqOf
  <2>6. x - y < SeqMod /\ y - x < SeqMod
    <3>1. PICK p \in 1 .. sent : p = a.pos
      BY <1>6
    <3>2. q <= sent /\ sent < p + 3 * WindowLen /\ p <= sent /\ sent - q < WindowLen
      BY <1>0, <1>1, <2>3, <3>1
    <3>3. x = q - 1 /\ y = p - 1
      BY <2>4, <3>1
    <3> QED BY <1>0, <3>2, <3>3
  <2>7. x = y
    BY <2>5, <2>6, ModInjective
  <2>8. q = a.pos
    BY <1>0, <2>4, <2>7
  <2> QED BY <1>1, <2>1, <2>8
<1>7. CASE a.pos > sent
  BY <1>0, <1>2, <1>7 DEF AckFrame
<1> QED BY <1>0, <1>5, <1>6, <1>7

(* An ACK that matches the slot of FINISH: every byte was delivered. *)
LEMMA MatchedFinish ==
  ASSUME WInv, Active, back # <<>>, NEW a, a = back[1], IsAck(a),
         NEW i \in SlotOf("Finish"), tx.slots[i].seq = a.seq
  PROVE  Len(delivered) = sent
<1>0. /\ sent \in Nat /\ a.pos \in Nat /\ WindowLen \in Nat /\ WindowLen >= 1
      /\ SeqMod \in Nat /\ 3 * WindowLen <= SeqMod /\ SeqMod >= 3
      /\ AckFrame(a) /\ n \in Nat /\ Len(delivered) \in Nat /\ Len(rx.emit) \in Nat
  BY Pieces, HeadAck, WindowFacts DEF WInv
<1>1. a.seq = sent % SeqMod /\ 1 .. sent \subseteq acked
  BY DEF WInv, SlotInv
<1>2. n <= sent
  BY DEF WInv, RxInv, Counts
<1>3. CASE a.pos = 0
  <2>1. a.seq = 0 /\ acked \subseteq {1}
    BY <1>0, <1>3 DEF AckFrame
  <2>2. 2 \notin acked
    BY <2>1
  <2>3. sent <= 1
    BY <1>0, <1>1, <2>2
  <2>4. sent \in Seqs
    BY <1>0, <2>3 DEF Seqs
  <2>5. sent = 0
    BY <1>1, <2>1, <2>4, ModSmall
  <2> QED BY <1>0, <1>2, <2>5 DEF n
<1>4. CASE a.pos \in 1 .. sent
  <2>1. a.seq = SeqOf(a.pos)
    BY <1>0, <1>4 DEF AckFrame
  <2>2. PICK u \in 2 .. a.pos + 2 * WindowLen : u \notin acked
    BY <1>4, HeadAck
  <2>3. u > sent
    BY <1>0, <1>1, <1>4, <2>2
  <2>4. PICK y \in Nat : y = a.pos - 1
    BY <1>0, <1>4
  <2>5. sent % SeqMod = y % SeqMod
    BY <1>1, <2>1, <2>4 DEF SeqOf
  <2>6. sent - y < SeqMod /\ y - sent < SeqMod /\ y < sent
    BY <1>0, <1>4, <2>2, <2>3, <2>4
  <2>7. sent = y
    BY <1>0, <2>5, <2>6, ModInjective
  <2> QED BY <1>0, <2>6, <2>7
<1>5. CASE a.pos > sent
  <2>1. IsFinished(rx)
    BY <1>0, <1>5 DEF AckFrame
  <2>2. n = sent /\ rx.emit = <<>>
    BY <2>1 DEF WInv, RxInv
  <2> QED BY <1>0, <2>2 DEF n
<1> QED BY <1>0, <1>3, <1>4, <1>5

(* The wire to the sender without its head. *)
LEMMA TailStartAcks ==
  ASSUME TypeInv, OnlyStartAcks, rx' = rx, back # <<>>, back' = Tail(back)
  PROVE  OnlyStartAcks'
<1>1. \A k \in 1 .. Len(back') : k + 1 \in 1 .. Len(back) /\ back'[k] = back[k + 1]
  BY Pieces, TailFacts
<1> QED BY <1>1, OnlyStartAcksKept

(* The ACK of START: the session is open at both ends. *)
LEMMA StartAcked ==
  ASSUME WInv, TypeInv', back # <<>>, back' = Tail(back), NEW a, a = back[1], IsAck(a),
         NEW i \in SlotOf("Start"), Freed(tx', tx, i), ~WClosed(tx), tx.writing = 0,
         rx' = rx, history' = history, fwd' = fwd
  PROVE  WInv'
<1>0. sess' = sess /\ sent' = sent /\ acked' = acked /\ delivered' = delivered
  BY DEF history
<1>1. tx.slots[i].kind = "Start" /\ i \in Used(tx) /\ Used(tx) = {i}
  BY DEF SlotOf, WInv, TxCoherent
<1>2. Used(tx') = {} /\ tx'.state = "Idle" /\ tx'.next_seq = 0 /\ tx'.writing = 0
  BY <1>1 DEF Freed
<1>3. \A kind : SlotOf(kind)' = {}
  BY <1>2 DEF SlotOf
<1>4. SlotOf("Abort") = {} /\ SlotOf("Finish") = {}
  BY <1>1 DEF SlotOf
<1>5. Active /\ Opening /\ Active' /\ Streaming' /\ ~Opening' /\ ~WClosed(tx')
  BY <1>2, <1>3, <1>4 DEF Active, Opening, Streaming, WClosed
<1>6. sent = 0 /\ acked = {} /\ sent \in Nat /\ fwd \in Seq(Frame)
  BY Pieces DEF WInv, SlotInv
<1>7. ~IsClosed(rx) /\ RxJoined
  BY <1>5, HeadAck DEF AckFrame
<1>8. TxCoherent'
  BY <1>2, <1>5 DEF TxCoherent
<1>9. SlotInv'
  <2>1. 0 % SeqMod = 0
    BY SeqTypes, ModSmall
  <2>2. tx'.next_seq = sent' % SeqMod /\ Covered'
    BY <1>0, <1>2, <1>6, <2>1 DEF Covered
  <2> QED BY <1>3, <2>2 DEF SlotInv
<1>10. /\ n' = n /\ (RxJoined' <=> RxJoined) /\ (Counts' <=> Counts)
       /\ \A j : Held(j)' <=> Held(j)
       /\ \A x : TakenUpTo(x)' <=> TakenUpTo(x)
  BY <1>0, RxStays
<1>11. RxInv'
  <2>1. AcksHeld'
    BY <1>0, <1>6 DEF AcksHeld
  <2>2. ~rx'.abort_latched /\ ~IsFinished(rx')
    BY <1>7 DEF IsClosed
  <2>3. tx'.state # "Finished"
    BY <1>2
  <2> QED BY <1>0, <1>7, <1>10, <2>1, <2>2, <2>3 DEF WInv, RxInv
<1>12. FwdInv'
  <2>1. ASSUME NEW f \in Frame, FwdFrame(f) PROVE FwdFrame(f)'
    <3>1. f.type # "Finish" /\ f.type # "Abort"
      BY <1>4, <1>5, <2>1 DEF FwdFrame, FwdFinish
    <3>2. f.type = "Data" => FwdData(f)'
      BY <1>0, <1>10, <2>1 DEF FwdFrame, FwdData
    <3>3. f.type = "Start" => FwdStart(f)'
      <4>1. f.type = "Start" => OnlyStartAcks'
        BY <1>5, <2>1, TailStartAcks DEF WInv, FwdFrame, FwdStart
      <4> QED BY <1>0, <1>10, <2>1, <4>1 DEF FwdFrame, FwdStart
    <3> QED BY <2>1, <3>1, <3>2, <3>3 DEF FwdFrame
  <2> QED BY <1>6, <2>1, FwdStays DEF WInv
<1>13. BackInv'
  <2>1. ASSUME NEW b \in Frame, AckFrame(b) PROVE AckFrame(b)'
    <3>1. b.pos = 0
      BY <1>5, <2>1 DEF AckFrame
    <3> QED BY <1>0, <1>5, <1>6, <2>1, <3>1 DEF AckFrame
  <2>2. acked' \subseteq {1}
    BY <1>0, <1>6
  <2> QED BY <1>0, <1>5, <2>1, <2>2, BackReads DEF WInv
<1> QED BY <1>8, <1>9, <1>11, <1>12, <1>13 DEF WInv

(* The ACK of a byte. *)
LEMMA DataAcked ==
  ASSUME WInv, TypeInv', back # <<>>, back' = Tail(back), NEW a, a = back[1], IsAck(a),
         NEW i \in SlotOf("Data"), Freed(tx', tx, i), tx.slots[i].seq = a.seq,
         ~WClosed(tx), tx.writing = 0, rx' = rx, fwd' = fwd,
         sess' = sess, sent' = sent, delivered' = delivered,
         NEW q, q = tx.slots[i].pos, acked' = acked \cup {q}
  PROVE  WInv'
<1>0. /\ sent \in Nat /\ acked \subseteq 1 .. sent /\ fwd \in Seq(Frame) /\ tx \in WTxType
      /\ tx' \in WTxType
  BY Pieces, PiecesAfter DEF WInv
<1>1. tx.slots[i].kind = "Data" /\ i \in Used(tx)
  BY DEF SlotOf
<1>2. \A j \in Used(tx) : tx.slots[j].kind = "Data"
  BY <1>1 DEF WInv, TxCoherent
<1>3. /\ Used(tx') = Used(tx) \ {i} /\ tx'.limit = tx.limit /\ tx'.next_seq = tx.next_seq
      /\ \A j \in Used(tx') : tx'.slots[j] = tx.slots[j]
      /\ ~WClosed(tx') /\ tx'.state # "Finished"
  BY <1>1 DEF Freed, WClosed, Used
<1>4. /\ SlotOf("Data") = Used(tx) /\ SlotOf("Data")' = Used(tx) \ {i}
      /\ \A kind : kind # "Data" => SlotOf(kind) = {} /\ SlotOf(kind)' = {}
  BY <1>2, <1>3 DEF SlotOf
<1>5. Active /\ Streaming /\ Active' /\ Streaming' /\ ~Opening /\ ~Opening'
  BY <1>3, <1>4 DEF Active, Streaming, Opening
<1>6. \/ a.pos = q /\ Held(q)
      \/ a.pos = 0 /\ q = 1
  BY <1>5, MatchedData
<1>z. a.pos = 0 => q = 1
  <2>1. q \in 1 .. sent
    BY DEF WInv, SlotInv, DataSlot
  <2> QED BY <1>0, <1>6, <2>1
<1>7. AckFrame(a) /\ a.pos \in Nat
  BY <1>5, HeadAck
<1>8. TxCoherent'
  BY <1>2, <1>3 DEF TxCoherent
<1>9. SlotInv'
  <2>1. \A j \in SlotOf("Data")' : DataSlot(j)'
    BY <1>3, <1>4 DEF WInv, SlotInv, DataSlot
  <2>2. \A j, k \in SlotOf("Data")' : tx'.slots[j].pos = tx'.slots[k].pos => j = k
    BY <1>3, <1>4 DEF WInv, SlotInv
  <2>3. tx.next_seq = sent % SeqMod /\ Covered
    BY <1>5 DEF WInv, SlotInv
  <2>4. Covered'
    BY <1>3, <1>4, <2>3 DEF Covered
  <2> QED BY <1>3, <1>4, <2>1, <2>2, <2>3, <2>4 DEF SlotInv
<1>10. /\ n' = n /\ (RxJoined' <=> RxJoined) /\ (Counts' <=> Counts)
       /\ \A j : Held(j)' <=> Held(j)
       /\ \A x : TakenUpTo(x)' <=> TakenUpTo(x)
  BY RxStays
<1>11. RxInv'
  <2>1. AcksHeld'
    BY <1>6, <1>10 DEF WInv, RxInv, AcksHeld
  <2>2. ~rx'.abort_latched /\ ~IsFinished(rx')
    BY <1>4, <1>5 DEF WInv, RxInv
  <2> QED BY <1>3, <1>5, <1>10, <2>1, <2>2 DEF WInv, RxInv
<1>12. FwdInv'
  <2>1. ASSUME NEW f \in Frame, FwdFrame(f) PROVE FwdFrame(f)'
    <3>1. f.type # "Finish" /\ f.type # "Abort"
      BY <1>4, <1>5, <2>1 DEF FwdFrame, FwdFinish
    <3>2. f.type = "Data" => FwdData(f)'
      BY <1>10, <2>1 DEF FwdFrame, FwdData
    <3>3. ASSUME f.type = "Start" PROVE FwdStart(f)'
      <4>1. FwdStart(f) /\ OnlyStartAcks
        BY <1>5, <2>1, <3>3 DEF FwdFrame, FwdStart
      <4>2. OnlyStartAcks'
        BY <4>1, TailStartAcks DEF WInv
      <4>3. a.pos = 0
        <5>1. 1 \in 1 .. Len(back)
          BY Pieces, TailFacts DEF WInv
        <5> QED BY <4>1, <5>1 DEF OnlyStartAcks
      <4>4. acked' \subseteq {1}
        BY <1>z, <4>1, <4>3 DEF FwdStart
      <4> QED BY <1>10, <4>1, <4>2, <4>4 DEF FwdStart
    <3> QED BY <2>1, <3>1, <3>2, <3>3 DEF FwdFrame
  <2> QED BY <1>0, <2>1, FwdStays DEF WInv
<1>13. BackInv'
  <2>1. ASSUME NEW b \in Frame, AckFrame(b), b.pos = 0 => acked' \subseteq {1}
        PROVE  AckFrame(b)'
    <3>1. ~(b.pos > sent)
      BY <1>4, <2>1 DEF AckFrame
    <3> QED BY <1>5, <1>10, <2>1, <3>1 DEF AckFrame
  <2>2. a.pos = 0 => acked' \subseteq {1}
    BY <1>z, <1>7 DEF AckFrame
  <2>3. q = 1 \/ (IsAck(back[1]) /\ back[1].pos = q)
    BY <1>6
  <2>4. StartAcksFirst /\ ReplySound /\ Len(back) \in Nat /\ 1 \in 1 .. Len(back)
    BY <1>5, Pieces, TailFacts DEF WInv, BackInv
  <2>5. \A k \in 2 .. Len(back) : IsAck(back[k]) /\ back[k].pos = 0 => acked' \subseteq {1}
    <3>1. \A k \in 2 .. Len(back) : IsAck(back[k]) /\ back[k].pos = 0 => a.pos = 0
      <4>1. \A k \in 2 .. Len(back) : k \in 1 .. Len(back) /\ 1 < k
        BY <2>4
      <4> QED BY <2>4, <4>1 DEF StartAcksFirst
    <3> QED BY <2>2, <3>1
  <2>6. Replying(rx) /\ IsAck(rx.reply) /\ rx.reply.pos = 0 => acked' \subseteq {1}
    BY <2>2, <2>4 DEF ReplySound, OnlyStartAcks
  <2>7. acked' \subseteq acked \cup {q}
    OBVIOUS
  <2> QED BY <1>5, <2>1, <2>3, <2>5, <2>6, <2>7, BackReads DEF WInv
<1> QED BY <1>8, <1>9, <1>11, <1>12, <1>13 DEF WInv

LEMMA TxReadKeeps ==
  ASSUME WInv, TypeInv', TxRead
  PROVE  WInv'
<1>1. PICK a : /\ a = Head(back) /\ tx' = WOnControl(tx, a)
               /\ acked' = acked \cup {tx.slots[i].pos : i \in
                    {j \in Matching(tx, a) : a.type = "Ack" /\ tx.slots[j].kind = "Data"}}
  BY DEF TxRead
<1>2. /\ ~WClosed(tx) /\ tx.writing = 0 /\ back # <<>> /\ back' = Tail(back)
      /\ rx' = rx /\ fwd' = fwd /\ sess' = sess /\ sent' = sent /\ delivered' = delivered
  BY DEF TxRead, WReads
<1>3. a = back[1] /\ tx \in WTxType /\ fwd \in Seq(Frame) /\ back \in Seq(Frame)
  BY <1>1, <1>2, Pieces, TailFacts DEF WInv
<1>4. acked' = acked => history' = history
  BY <1>2 DEF history
<1>5. a.type = "Ack" => IsAck(a)
  BY DEF IsAck
<1>6. ASSUME a.type # "Ack", Emptied(tx', "Aborted") PROVE WInv'
  <2>1. acked' = acked
    BY <1>1, <1>6
  <2> QED BY <1>2, <1>4, <1>6, <2>1, GivenUp
<1>7. ASSUME a.type = "Ack" => Matching(tx, a) = {}, Retried(tx', tx) PROVE WInv'
  <2>1. acked' = acked /\ history' = history
    BY <1>1, <1>4, <1>7
  <2>2. CASE Emptied(tx', "Failed")
    BY <1>2, <2>1, <2>2, GivenUp
  <2>3. CASE Alike(tx', tx)
    <3>1. TxCoherent' /\ SlotInv' /\ RxInv'
      BY <1>2, <2>1, <2>3, QuietTx
    <3>2. OnlyStartAcks => OnlyStartAcks'
      BY <1>2, TailStartAcks DEF WInv
    <3>3. /\ \A b \in Frame : AckFrame(b) => AckFrame(b)'
          /\ \A f \in Frame : FwdFrame(f) => FwdFrame(f)'
      BY <1>2, <2>1, <2>3, <3>2, QuietFrames
    <3>4. FwdInv'
      BY <1>2, <1>3, <3>3, FwdStays DEF WInv
    <3>5. Active' <=> Active
      BY <2>3, AlikeSlots
    <3>6. BackInv'
      <4>1. Active => AcksSound /\ ReplySound
        BY DEF WInv, BackInv
      <4>2. Active => /\ \A k \in 2 .. Len(back) : IsAck(back[k]) /\ back[k].pos = 0 => acked \subseteq {1}
                      /\ Replying(rx) /\ IsAck(rx.reply) /\ rx.reply.pos = 0 => acked \subseteq {1}
        <5>1. \A k \in 2 .. Len(back) : k \in 1 .. Len(back)
          BY <1>3
        <5> QED BY <4>1, <5>1 DEF AcksSound, ReplySound, AckAfter, AckFrame
      <4>3. acked' \subseteq acked \cup {1}
        BY <2>1
      <4> QED BY <1>2, <2>1, <3>3, <3>5, <4>2, <4>3, BackReads DEF WInv
    <3> QED BY <3>1, <3>4, <3>6 DEF WInv
  <2> QED BY <1>2, <1>7, <2>1, <2>2, <2>3, RetriedKeeps
<1>8. ASSUME a.type = "Ack", NEW i \in Matching(tx, a), Freed(tx', tx, i) PROVE WInv'
  <2>1. i \in Used(tx) /\ tx.slots[i].seq = a.seq /\ tx.slots[i].kind \in FlightKinds
    BY <1>8, UsedKinds DEF Matching, WInv
  <2>2. i \in SlotOf(tx.slots[i].kind)
    BY <2>1 DEF SlotOf
  <2>3. CASE tx.slots[i].kind = "Data"
    <3>1. \A j \in Matching(tx, a) : j \in SlotOf("Data") /\ tx.slots[j].pos = tx.slots[i].pos
      <4>1. \A j \in Matching(tx, a) : j \in SlotOf("Data") /\ tx.slots[j].seq = a.seq
        BY <2>1, <2>3 DEF Matching, SlotOf, WInv, TxCoherent
      <4>2. Active
        BY <1>2, <2>1, <2>3 DEF Active, SlotOf, WInv, TxCoherent
      <4>3. \A j \in Matching(tx, a) : \/ a.pos = tx.slots[j].pos
                                       \/ a.pos = 0 /\ tx.slots[j].pos = 1
        BY <1>2, <1>3, <1>5, <1>8, <4>1, <4>2, MatchedData
      <4>4. \A j \in Matching(tx, a) : tx.slots[j].pos # 0
        BY <4>1, Pieces DEF WInv, SlotInv, DataSlot
      <4> QED BY <1>8, <4>1, <4>3, <4>4
    <3>2. acked' = acked \cup {tx.slots[i].pos}
      <4>1. {tx.slots[j].pos : j \in {k \in Matching(tx, a) : a.type = "Ack" /\ tx.slots[k].kind = "Data"}}
              = {tx.slots[i].pos}
        BY <1>8, <2>3, <3>1
      <4> QED BY <1>1, <4>1
    <3>3. PICK q : q = tx.slots[i].pos
      OBVIOUS
    <3> QED BY <1>2, <1>3, <1>5, <1>8, <2>1, <2>2, <2>3, <3>2, <3>3, DataAcked
  <2>4. CASE tx.slots[i].kind # "Data"
    <3>1. Used(tx) = {i}
      BY <2>1, <2>4 DEF WInv, TxCoherent
    <3>2. acked' = acked /\ history' = history
      BY <1>1, <1>4, <2>4, <3>1 DEF Matching
    <3>3. Used(tx') = {} /\ tx'.writing = 0 /\ tx' \in WTxType
      BY <1>2, <1>8, <3>1 DEF Freed
    <3>4. CASE tx.slots[i].kind = "Start"
      BY <1>2, <1>3, <1>5, <1>8, <2>2, <3>2, <3>4, StartAcked
    <3>5. CASE tx.slots[i].kind = "Abort"
      <4>1. Emptied(tx', "Aborted")
        BY <1>8, <3>3, <3>5 DEF Freed, Emptied
      <4> QED BY <1>2, <3>2, <4>1, GivenUp
    <3>6. CASE tx.slots[i].kind = "Finish"
      <4>1. tx'.state = "Finished" /\ WClosed(tx')
        BY <1>8, <3>6 DEF Freed, WClosed
      <4>2. Active
        BY <1>2, <3>1, <3>6 DEF Active, SlotOf
      <4>3. Len(delivered) = sent
        BY <1>2, <1>3, <1>5, <1>8, <2>1, <2>2, <3>6, <4>2, MatchedFinish
      <4>4. ~Active' /\ TxCoherent'
        BY <3>3, <4>1 DEF Active, TxCoherent
      <4>5. SlotOf("Data")' = {} /\ SlotOf("Start")' = {} /\ SlotOf("Finish")' = {}
        BY <3>3 DEF SlotOf
      <4> QED BY <1>2, <3>2, <4>3, <4>4, <4>5, Deactivated DEF WInv
    <3> QED BY <2>1, <2>4, <3>4, <3>5, <3>6 DEF FlightKinds
  <2> QED BY <2>3, <2>4
<1> QED BY <1>1, <1>2, <1>3, <1>6, <1>7, <1>8, WControlFields

-----------------------------------------------------------------------------
(* Steps of the receiver. *)

LEMMA TxStays ==
  ASSUME tx' = tx, sess' = sess, sent' = sent, acked' = acked
  PROVE  /\ (TxCoherent' <=> TxCoherent) /\ (SlotInv' <=> SlotInv)
         /\ \A kind : SlotOf(kind)' = SlotOf(kind)
         /\ (Active' <=> Active) /\ (Opening' <=> Opening) /\ (Streaming' <=> Streaming)
<1>1. \A kind : SlotOf(kind)' = SlotOf(kind)
  BY DEF SlotOf
<1>2. (Active' <=> Active) /\ (Opening' <=> Opening) /\ (Streaming' <=> Streaming)
  BY <1>1 DEF Active, Opening, Streaming
<1>3. TxCoherent' <=> TxCoherent
  BY DEF TxCoherent
<1>4. SlotInv' <=> SlotInv
  BY <1>1, <1>2 DEF SlotInv, DataSlot, Covered
<1> QED BY <1>1, <1>2, <1>3, <1>4

(* The ACKs on the wire, when the receiver does not write. *)
LEMMA AcksStay ==
  ASSUME TypeInv, AcksSound, StartAcksFirst, back' = back, acked' = acked, sent' = sent,
         \A a \in Frame, k \in 1 .. Len(back) :
           a = back[k] /\ IsAck(a) /\ AckFrame(a) => AckFrame(a)'
  PROVE  AcksSound' /\ StartAcksFirst'
<1>1. back \in Seq(Frame)
  BY Pieces
<1>2. ASSUME NEW k \in 1 .. Len(back'), NEW a, a = back'[k], IsAck(a)
      PROVE  AckAfter(a, k - 1)'
  <2>1. a \in Frame /\ AckAfter(a, k - 1) /\ k \in 1 .. Len(back)
    BY <1>1, <1>2, OnWire DEF AcksSound
  <2>2. AckFrame(a)'
    BY <1>2, <2>1 DEF AckAfter
  <2>3. a.pos \in 1 .. sent => Unacked(a.pos, k - 1)'
    BY <2>1, UnackedKept DEF AckAfter
  <2> QED BY <2>2, <2>3 DEF AckAfter
<1>3. AcksSound'
  BY <1>2 DEF AcksSound, IsAck
<1>4. StartAcksFirst'
  BY DEF StartAcksFirst, IsAck
<1> QED BY <1>3, <1>4

(* The receiver's place in the session, and what it keeps, are the same. *)
SamePlace ==
  /\ n' = n /\ rx'.expected = rx.expected /\ rx'.buf = rx.buf
  /\ rx'.finish_seq = rx.finish_seq /\ rx'.abort_latched = rx.abort_latched

LEMMA PlaceStays ==
  ASSUME SamePlace, sess' = sess, sent' = sent
  PROVE  /\ (RxJoined' <=> RxJoined)
         /\ \A i : Held(i)' <=> Held(i)
         /\ \A x : TakenUpTo(x)' <=> TakenUpTo(x)
         /\ (IsFinished(rx') <=> IsFinished(rx)) /\ (IsClosed(rx') <=> IsClosed(rx))
<1>1. RxJoined' <=> RxJoined
  BY DEF RxJoined, SamePlace
<1>2. \A i : Held(i)' <=> Held(i)
  BY DEF Held, SamePlace, n
<1>3. \A x : TakenUpTo(x)' <=> TakenUpTo(x)
  BY DEF TakenUpTo, SamePlace
<1> QED BY <1>1, <1>2, <1>3 DEF SamePlace, IsFinished, IsClosed

LEMMA QuietRx ==
  ASSUME WInv, TypeInv', tx' = tx, sess' = sess, sent' = sent, acked' = acked, back' = back,
         fwd' = fwd \/ (fwd # <<>> /\ fwd' = Tail(fwd)),
         SamePlace, Counts', IsFinished(rx) => rx'.emit = <<>>,
         tx.state = "Finished" => Len(delivered') = sent,
         rx'.action = "Drain" => rx.action = "Drain",
         Replying(rx') /\ IsAck(rx'.reply) => Replying(rx) /\ rx'.reply = rx.reply
  PROVE  WInv'
<1>0. fwd \in Seq(Frame) /\ rx.reply \in Frame
  BY Pieces, RxFields DEF WInv
<1>1. /\ (RxJoined' <=> RxJoined) /\ \A i : Held(i)' <=> Held(i)
      /\ \A x : TakenUpTo(x)' <=> TakenUpTo(x)
      /\ (IsFinished(rx') <=> IsFinished(rx)) /\ (IsClosed(rx') <=> IsClosed(rx))
      /\ n' = n /\ rx'.abort_latched = rx.abort_latched
  BY PlaceStays DEF SamePlace
<1>2. /\ TxCoherent' /\ SlotInv' /\ \A kind : SlotOf(kind)' = SlotOf(kind)
      /\ (Active' <=> Active) /\ (Opening' <=> Opening) /\ (Streaming' <=> Streaming)
  BY TxStays DEF WInv
<1>3. OnlyStartAcks => OnlyStartAcks'
  BY OnlyStartAcksKept
<1>4. RxInv'
  <2>1. AcksHeld'
    BY <1>1 DEF WInv, RxInv, AcksHeld
  <2> QED BY <1>1, <1>2, <2>1 DEF WInv, RxInv
<1>5. FwdInv'
  <2>1. ASSUME NEW f \in Frame, FwdFrame(f) PROVE FwdFrame(f)'
    <3>1. f.type = "Data" => FwdData(f)'
      BY <1>1, <2>1 DEF FwdFrame, FwdData
    <3>2. f.type = "Start" => FwdStart(f)'
      BY <1>1, <1>2, <1>3, <2>1 DEF FwdFrame, FwdStart
    <3>3. f.type = "Finish" => FwdFinish(f)'
      BY <1>2, <2>1 DEF FwdFrame, FwdFinish
    <3> QED BY <1>2, <2>1, <3>1, <3>2, <3>3 DEF FwdFrame
  <2> QED BY <1>0, <2>1, FwdStays, FwdReads DEF WInv
<1>6. BackInv'
  <2> SUFFICES ASSUME Active' PROVE AcksSound' /\ StartAcksFirst' /\ ReplySound'
    BY DEF BackInv
  <2>1. AcksSound /\ StartAcksFirst /\ ReplySound
    BY <1>2 DEF WInv, BackInv
  <2>2. ASSUME NEW a \in Frame, AckFrame(a) PROVE AckFrame(a)'
    BY <1>1, <1>2, <2>2 DEF AckFrame
  <2>3. AcksSound' /\ StartAcksFirst'
    BY <2>1, <2>2, AcksStay DEF WInv
  <2>4. ReplySound'
    <3> SUFFICES ASSUME Replying(rx'), IsAck(rx'.reply)
                 PROVE  AckAfter(rx.reply, Len(back))' /\ (rx'.reply.pos = 0 => OnlyStartAcks')
      BY DEF ReplySound, IsAck
    <3>1. PICK a \in Frame : a = rx.reply /\ a = rx'.reply
      BY <1>0
    <3>2. AckAfter(a, Len(back)) /\ (a.pos = 0 => OnlyStartAcks)
      BY <2>1, <3>1 DEF ReplySound
    <3>3. PICK m : m = Len(back)
      OBVIOUS
    <3>4. AckAfter(a, m)'
      <4>1. a.pos \in 1 .. sent => Unacked(a.pos, m)'
        BY <3>2, <3>3, UnackedKept DEF AckAfter
      <4> QED BY <2>2, <3>2, <4>1 DEF AckAfter
    <3> QED BY <1>3, <3>1, <3>2, <3>3, <3>4
  <2> QED BY <2>3, <2>4
<1> QED BY <1>2, <1>4, <1>5, <1>6 DEF WInv

LEMMA RxLimitKeeps ==
  ASSUME WInv, TypeInv', NEW m \in Limits, RxLimit(m)
  PROVE  WInv'
<1>1. rx \in WRxType
  BY Pieces DEF WInv
<1>2. /\ rx'.expected = rx.expected /\ rx'.buf = rx.buf /\ rx'.emit = rx.emit
      /\ rx'.finish_seq = rx.finish_seq /\ rx'.abort_latched = rx.abort_latched
      /\ rx'.action = rx.action /\ rx'.reply = rx.reply /\ ~Replying(rx)
  BY <1>1 DEF RxLimit, WRxSetLimit, WRxCanSetLimit, WRxType
<1>3. /\ tx' = tx /\ sess' = sess /\ sent' = sent /\ acked' = acked /\ back' = back
      /\ fwd' = fwd /\ delivered' = delivered
  BY DEF RxLimit, history
<1>4. n' = n
  BY <1>2, <1>3 DEF n
<1>5. SamePlace
  BY <1>2, <1>4 DEF SamePlace
<1>6. Counts'
  BY <1>2, <1>3, <1>4 DEF WInv, RxInv, Counts, InOrder, EmitInOrder
<1>7. ~Replying(rx')
  BY <1>2 DEF Replying
<1>8. /\ IsFinished(rx) => rx'.emit = <<>>
      /\ tx.state = "Finished" => Len(delivered') = sent
  BY <1>2, <1>3 DEF WInv, RxInv
<1> QED BY <1>2, <1>3, <1>5, <1>6, <1>7, <1>8, QuietRx

(* d and e are the bytes 1, 2, ... of session s, one sequence after the other. *)
InTurn(d, e, s) ==
  /\ \A i \in 1 .. Len(d) : d[i] = [sess |-> s, pos |-> i]
  /\ \A i \in 1 .. Len(e) : e[i] = [sess |-> s, pos |-> Len(d) + i]

(* A byte handed over by the emit queue. *)
HandedOver(d2, e2, d, e, s) ==
  /\ Len(d2) = Len(d) + 1 /\ Len(d2) + Len(e2) = Len(d) + Len(e)
  /\ InTurn(d2, e2, s)

LEMMA Popped ==
  ASSUME NEW d \in Seq(Bytes), NEW e \in Seq(Bytes), e # <<>>, NEW d2, d2 = Append(d, Head(e)),
         NEW e2, e2 = Tail(e), NEW s, InTurn(d, e, s)
  PROVE  HandedOver(d2, e2, d, e, s)
<1>1. /\ e2 \in Seq(Bytes) /\ Head(e) \in Bytes /\ Len(e) \in Nat /\ Len(e) >= 1
      /\ Len(e2) = Len(e) - 1 /\ Head(e) = e[1]
      /\ \A k \in 1 .. Len(e2) : k + 1 \in 1 .. Len(e) /\ e2[k] = e[k + 1]
  BY TailFacts
<1>2. /\ Len(d2) = Len(d) + 1 /\ Len(d) \in Nat /\ d2[Len(d) + 1] = Head(e)
      /\ \A k \in 1 .. Len(d) : d2[k] = d[k]
  BY <1>1, AppendFacts
<1>3. \A i \in 1 .. Len(d2) : d2[i] = [sess |-> s, pos |-> i]
  <2> TAKE i \in 1 .. Len(d2)
  <2>1. CASE i \in 1 .. Len(d)
    BY <1>2, <2>1 DEF InTurn
  <2>2. CASE i = Len(d) + 1
    BY <1>1, <1>2, <2>2 DEF InTurn
  <2> QED BY <1>2, <2>1, <2>2
<1>4. ASSUME NEW i \in 1 .. Len(e2) PROVE e2[i] = [sess |-> s, pos |-> Len(d2) + i]
  <2>1. i + 1 \in 1 .. Len(e) /\ e2[i] = e[i + 1]
    BY <1>1
  <2>2. Len(d) + (i + 1) = Len(d2) + i
    BY <1>1, <1>2
  <2>3. e[i + 1] = [sess |-> s, pos |-> Len(d) + (i + 1)]
    BY <2>1 DEF InTurn
  <2> QED BY <2>1, <2>2, <2>3
<1>5. Len(d2) + Len(e2) = Len(d) + Len(e)
  BY <1>1, <1>2
<1> QED BY <1>2, <1>3, <1>4, <1>5 DEF InTurn, HandedOver

LEMMA RxEmitKeeps ==
  ASSUME WInv, TypeInv', RxEmit
  PROVE  WInv'
<1>1. /\ tx' = tx /\ sess' = sess /\ sent' = sent /\ acked' = acked /\ back' = back
      /\ fwd' = fwd /\ rx.emit # <<>> /\ delivered' = Append(delivered, Head(rx.emit))
  BY DEF RxEmit
<1>2. /\ rx'.emit = Tail(rx.emit)
      /\ rx'.expected = rx.expected /\ rx'.finish_seq = rx.finish_seq
      /\ rx'.abort_latched = rx.abort_latched /\ rx'.buf = rx.buf
      /\ rx'.action = rx.action /\ rx'.reply = rx.reply
  BY Pieces, PopFields DEF RxEmit, WInv
<1>3. /\ delivered \in Seq(Bytes) /\ rx.emit \in Seq(Bytes) /\ Counts
      /\ Len(delivered) \in Nat /\ Len(rx.emit) \in Nat /\ sent \in Nat
  BY Pieces DEF WInv, RxInv
<1>4. InTurn(delivered, rx.emit, sess)
  BY <1>3 DEF Counts, InOrder, EmitInOrder, InTurn
<1>5. /\ Len(delivered') = Len(delivered) + 1
      /\ Len(delivered') + Len(rx'.emit) = Len(delivered) + Len(rx.emit)
      /\ InTurn(delivered', rx'.emit, sess)
  <2>1. PICK d2, e2 : d2 = delivered' /\ e2 = rx'.emit
    OBVIOUS
  <2>2. HandedOver(d2, e2, delivered, rx.emit, sess)
    <3>1. d2 = Append(delivered, Head(rx.emit)) /\ e2 = Tail(rx.emit) /\ rx.emit # <<>>
      BY <1>1, <1>2, <2>1
    <3>2. delivered \in Seq(Bytes) /\ rx.emit \in Seq(Bytes)
      BY <1>3
    <3> QED BY <1>4, <3>1, <3>2, Popped
  <2> QED BY <2>1, <2>2 DEF HandedOver
<1>6. n' = n
  BY <1>5 DEF n
<1>7. Len(delivered') <= n /\ n <= sent
  <2>1. Len(rx'.emit) \in Nat /\ Len(delivered') \in Nat /\ n' = Len(delivered') + Len(rx'.emit)
    BY PiecesAfter DEF n
  <2>2. n <= sent
    BY <1>3 DEF Counts
  <2> QED BY <1>6, <2>1, <2>2
<1>8. Counts'
  <2>1. InOrder'
    <3>1. Len(delivered') <= sent
      BY <1>3, <1>7, Pieces, PiecesAfter DEF WInv
    <3> QED BY <1>1, <1>5, <3>1 DEF InOrder, InTurn
  <2>2. EmitInOrder'
    BY <1>1, <1>5 DEF EmitInOrder, InTurn
  <2> QED BY <1>1, <1>3, <1>6, <2>1, <2>2 DEF Counts
<1>9. ~IsFinished(rx) /\ tx.state # "Finished"
  <2>1. Len(rx.emit) # 0
    BY <1>1, <1>3
  <2>2. Len(delivered) < sent
    BY <1>3, <1>5, <1>7, Pieces DEF WInv
  <2> QED BY <1>1, <1>3, <2>2 DEF WInv, RxInv
<1>10. SamePlace
  BY <1>2, <1>6 DEF SamePlace
<1>11. Replying(rx') <=> Replying(rx)
  BY <1>2 DEF Replying
<1> QED BY <1>1, <1>2, <1>8, <1>9, <1>10, <1>11, QuietRx

(* What a read finds, and what it leaves alone. *)
LEMMA ReadFrame ==
  ASSUME WInv, RxRead
  PROVE  /\ tx' = tx /\ sess' = sess /\ sent' = sent /\ acked' = acked /\ back' = back
         /\ delivered' = delivered /\ fwd # <<>> /\ fwd' = Tail(fwd)
         /\ rx.emit = <<>> /\ ~Replying(rx) /\ rx' = WTakeFrame(rx, fwd[1])
         /\ fwd[1] \in Frame /\ FwdFrame(fwd[1])
         /\ \A k \in 2 .. Len(fwd) : Follows(fwd[1], fwd[k]) /\ fwd[k].pos \in Nat
<1>1. fwd \in Seq(Frame) /\ fwd # <<>>
  BY Pieces DEF WInv, RxRead
<1>2. 1 \in 1 .. Len(fwd) /\ Head(fwd) = fwd[1] /\ fwd[1] \in Frame /\ Len(fwd) \in Nat
  BY <1>1, TailFacts
<1>3. \A k \in 2 .. Len(fwd) : k \in 1 .. Len(fwd) /\ 1 < k
  BY <1>2
<1>4. FwdFrame(fwd[1])
  BY <1>2 DEF WInv, FwdInv
<1>5. \A k \in 2 .. Len(fwd) : Follows(fwd[1], fwd[k]) /\ fwd[k].pos \in Nat
  BY <1>1, <1>2, <1>3, OnWire DEF WInv, FwdInv
<1> QED BY <1>1, <1>2, <1>4, <1>5 DEF RxRead, history

(***************************************************************************)
(* SEQ tells a DATA frame's place: within the window it is the distance    *)
(* from the next byte, and a duplicate is a byte already delivered.        *)
(***************************************************************************)
LEMMA DataPlace ==
  ASSUME WInv, NEW f \in Frame, f.type = "Data", FwdFrame(f), ~IsClosed(rx)
  PROVE  /\ RxJoined /\ f.pos \in 1 .. sent /\ f.sess = sess
         /\ n <= f.pos + WindowLen - 1 /\ f.seq = SeqOf(f.pos)
         /\ Ahead(rx, f.seq) < rx.limit => f.pos = n + 1 + Ahead(rx, f.seq)
         /\ IsDuplicate(rx, f.seq) => f.pos <= n
<1>0. /\ sent \in Nat /\ n \in Nat /\ WindowLen \in Nat /\ WindowLen >= 1
      /\ SeqMod \in Nat /\ 3 * WindowLen <= SeqMod /\ rx.limit \in 1 .. WindowLen
  BY Pieces, WindowFacts, RxFields DEF WInv
<1>1. /\ f.sess = sess /\ f.pos \in 1 .. sent /\ f.seq = SeqOf(f.pos)
      /\ TakenUpTo(f.pos + WindowLen - 1)
  BY DEF FwdFrame, FwdData, IsClosed
<1>2. RxJoined /\ sent <= n + 2 * WindowLen
  BY <1>0, <1>1 DEF WInv, RxInv, IsClosed, Counts
<1>3. PICK p \in 1 .. sent : p = f.pos /\ n <= p + WindowLen - 1
  BY <1>1 DEF TakenUpTo
<1>4. PICK x \in Nat : x = p - 1
  BY <1>0
<1>5. f.seq = x % SeqMod /\ rx.expected = n % SeqMod
  BY <1>1, <1>2, <1>3, <1>4 DEF SeqOf, RxJoined
<1>6. x - n < SeqMod /\ n - x < SeqMod /\ x - n < 2 * WindowLen /\ n - x <= WindowLen
  BY <1>0, <1>2, <1>3, <1>4
<1>7. Ahead(rx, f.seq) < rx.limit => p = n + 1 + Ahead(rx, f.seq)
  <2>1. CASE x >= n
    <3>1. Ahead(rx, f.seq) = x - n
      BY <1>0, <1>5, <1>6, <2>1, SubMod DEF Ahead
    <3> QED BY <1>0, <1>4, <3>1
  <2>2. CASE x < n
    <3>1. Ahead(rx, f.seq) = SeqMod + x - n
      BY <1>0, <1>5, <1>6, <2>2, SubMod DEF Ahead
    <3>2. ~(SeqMod + x - n < rx.limit)
      BY <1>0, <1>6, <2>2
    <3> QED BY <3>1, <3>2
  <2> QED BY <1>0, <2>1, <2>2
<1>8. IsDuplicate(rx, f.seq) => p <= n
  <2>1. CASE n >= x
    <3>1. Behind(rx, f.seq) = n - x
      BY <1>0, <1>5, <1>6, <2>1, SubMod DEF Behind
    <3> QED BY <1>0, <1>4, <3>1 DEF IsDuplicate
  <2>2. CASE n < x
    <3>1. Behind(rx, f.seq) = SeqMod + n - x
      BY <1>0, <1>5, <1>6, <2>2, SubMod DEF Behind
    <3>2. ~(SeqMod + n - x <= rx.limit)
      BY <1>0, <1>6, <2>2
    <3> QED BY <3>1, <3>2 DEF IsDuplicate
  <2> QED BY <1>0, <2>1, <2>2
<1> QED BY <1>1, <1>2, <1>3, <1>7, <1>8

(* A position a window ahead is acknowledged neither way. *)
LEMMA FreshUnacked ==
  ASSUME WInv, Active, ~IsClosed(rx), RxJoined, NEW p \in Nat, n <= p + WindowLen - 1
  PROVE  Unacked(p, Len(back))
<1>0. n \in Nat /\ WindowLen \in Nat /\ WindowLen >= 1 /\ sent \in Nat /\ back \in Seq(Frame)
  BY Pieces, WindowFacts DEF WInv
<1>1. PICK u \in Nat : u = n + WindowLen + 1
  BY <1>0
<1>2. u \in 2 .. p + 2 * WindowLen
  BY <1>0, <1>1
<1>3. ~Held(u)
  BY <1>1, NotHeldBeyond DEF WInv
<1>4. u \notin acked
  BY <1>2, <1>3 DEF WInv, RxInv, AcksHeld, IsClosed
<1>5. ASSUME NEW i \in 1 .. Len(back), IsAck(back[i]), back[i].pos = u PROVE FALSE
  <2>1. AckFrame(back[i])
    BY <1>5 DEF WInv, BackInv, AcksSound, AckAfter
  <2>2. CASE u \in 1 .. sent
    BY <1>3, <1>5, <2>1, <2>2 DEF AckFrame
  <2>3. CASE u > sent
    BY <1>5, <2>1, <2>3 DEF AckFrame, IsClosed
  <2> QED BY <1>0, <1>2, <2>2, <2>3
<1> QED BY <1>2, <1>4, <1>5 DEF Unacked

(* The common part of taking a DATA frame and of acknowledging it again. *)
LEMMA DataAckKeeps ==
  ASSUME WInv, TypeInv', RxRead, NEW f \in Frame, f = fwd[1], f.type = "Data",
         ~IsClosed(rx), RxJoined, f.pos \in 1 .. sent, f.seq = SeqOf(f.pos),
         n <= f.pos + WindowLen - 1,
         n' = n, rx'.emit = rx.emit, rx'.finish_seq = rx.finish_seq,
         rx'.abort_latched = rx.abort_latched, WAcks(rx', f.seq, f),
         RxJoined', Held(f.pos)', \A i : Held(i) => Held(i)',
         \A x \in Nat : TakenUpTo(x) /\ f.pos <= x => TakenUpTo(x)'
  PROVE  WInv'
<1>0. /\ tx' = tx /\ sess' = sess /\ sent' = sent /\ acked' = acked /\ back' = back
      /\ delivered' = delivered /\ fwd # <<>> /\ fwd' = Tail(fwd)
      /\ \A k \in 2 .. Len(fwd) : Follows(f, fwd[k]) /\ fwd[k].pos \in Nat
  BY ReadFrame
<1>1. /\ sent \in Nat /\ sent > 0 /\ fwd \in Seq(Frame) /\ WindowLen \in Nat
      /\ WindowLen >= 1 /\ f.pos \in Nat
  BY Pieces, WindowFacts, SMTT(30) DEF WInv
<1>2. /\ TxCoherent' /\ SlotInv' /\ \A kind : SlotOf(kind)' = SlotOf(kind)
      /\ (Active' <=> Active) /\ (Opening' <=> Opening) /\ (Streaming' <=> Streaming)
  BY <1>0, TxStays DEF WInv
<1>3. /\ ~IsClosed(rx') /\ ~IsFinished(rx') /\ ~rx'.abort_latched
      /\ ~IsFinished(rx) /\ ~rx.abort_latched
  BY DEF IsClosed, IsFinished
<1>4. ~Opening
  BY <1>1 DEF Opening, WInv, SlotInv
<1>5. rx'.reply.type = "Ack" /\ rx'.reply.seq = f.seq /\ rx'.reply.pos = f.pos
  BY DEF WAcks, MkFrame
<1>6. RxInv'
  <2>1. AcksHeld'
    BY <1>0, <1>3 DEF WInv, RxInv, AcksHeld
  <2>2. Counts'
    BY <1>0 DEF WInv, RxInv, Counts, InOrder, EmitInOrder
  <2>3. tx'.state = "Finished" => Len(delivered') = sent'
    BY <1>0 DEF WInv, RxInv
  <2> QED BY <1>0, <1>1, <1>3, <2>1, <2>2, <2>3 DEF RxInv
<1>7. FwdInv'
  <2>1. ASSUME NEW g \in Frame, NEW k \in 2 .. Len(fwd), g = fwd[k], FwdFrame(g)
        PROVE  FwdFrame(g)'
    <3>1. Follows(f, g) /\ g.pos \in Nat
      BY <1>0, <2>1
    <3>2. g.type # "Start"
      BY <3>1 DEF Follows
    <3>3. g.type = "Data" => FwdData(g)'
      <4>1. g.pos + WindowLen - 1 \in Nat
        BY <1>1, <3>1
      <4>2. g.type = "Data" => f.pos <= g.pos + WindowLen - 1
        BY <3>1 DEF Follows
      <4>3. g.type = "Data" => TakenUpTo(g.pos + WindowLen - 1)
        BY <1>3, <2>1 DEF FwdFrame, FwdData
      <4>4. g.type = "Data" => TakenUpTo(g.pos + WindowLen - 1)'
        BY <4>1, <4>2, <4>3
      <4> QED BY <1>0, <2>1, <4>4 DEF FwdFrame, FwdData
    <3>4. g.type = "Finish" => FwdFinish(g)'
      BY <1>0, <1>2, <2>1 DEF FwdFrame, FwdFinish
    <3> QED BY <1>2, <2>1, <3>2, <3>3, <3>4 DEF FwdFrame
  <2> QED BY <1>0, <1>1, <2>1, FwdReads DEF WInv
<1>8. BackInv'
  <2> SUFFICES ASSUME Active' PROVE AcksSound' /\ StartAcksFirst' /\ ReplySound'
    BY DEF BackInv
  <2>1. AcksSound /\ StartAcksFirst
    BY <1>2 DEF WInv, BackInv
  <2>2. ASSUME NEW a \in Frame, AckFrame(a) PROVE AckFrame(a)'
    <3>1. ~(a.pos > sent)
      BY <1>3, <2>2 DEF AckFrame
    <3> QED BY <1>0, <1>2, <1>4, <2>2, <3>1 DEF AckFrame
  <2>3. AcksSound' /\ StartAcksFirst'
    BY <1>0, <2>1, <2>2, AcksStay DEF WInv
  <2>4. ReplySound'
    <3>1. PICK a : a = rx'.reply
      OBVIOUS
    <3>2. PICK m : m = Len(back)
      OBVIOUS
    <3>3. a.pos = f.pos /\ a.seq = f.seq
      BY <1>5, <3>1
    <3>4. AckFrame(a)'
      BY <1>0, <1>1, <1>2, <1>4, <3>3 DEF AckFrame
    <3>5. Unacked(a.pos, m)
      BY <1>1, <1>2, <3>2, <3>3, FreshUnacked
    <3>6. Unacked(a.pos, m)'
      BY <1>0, <3>5, UnackedKept
    <3>7. AckAfter(a, m)'
      BY <3>4, <3>6 DEF AckAfter
    <3>8. a.pos # 0
      BY <1>1, <3>3
    <3> QED BY <1>0, <3>1, <3>2, <3>7, <3>8 DEF ReplySound
  <2> QED BY <2>3, <2>4
<1> QED BY <1>2, <1>6, <1>7, <1>8 DEF WInv

LEMMA AcceptedKeeps ==
  ASSUME WInv, TypeInv', RxRead, NEW f \in Frame, f = fwd[1], WAccepted(rx', rx, f)
  PROVE  WInv'
<1>0. /\ sess' = sess /\ sent' = sent /\ delivered' = delivered /\ FwdFrame(f)
  BY ReadFrame
<1>1. PICK o \in Offsets :
        /\ o = Ahead(rx, f.seq) /\ o < rx.limit /\ rx'.buf = KeptBuf(rx, o, Byte(f))
  BY DEF WAccepted
<1>2. /\ f.type = "Data" /\ ~IsClosed(rx) /\ WAcks(rx', f.seq, f)
      /\ rx'.expected = rx.expected /\ rx'.finish_seq = rx.finish_seq
      /\ rx'.abort_latched = rx.abort_latched /\ rx'.emit = rx.emit
  BY DEF WAccepted
<1>3. /\ RxJoined /\ f.pos \in 1 .. sent /\ f.sess = sess /\ f.seq = SeqOf(f.pos)
      /\ n <= f.pos + WindowLen - 1 /\ f.pos = n + 1 + o
  BY <1>0, <1>1, <1>2, DataPlace
<1>4. n' = n /\ n \in Nat /\ sent \in Nat /\ rx.buf \in [Offsets -> Bytes]
  BY <1>0, <1>2, Pieces, RxFields DEF n, WInv
<1>5. Byte(f) = [sess |-> sess, pos |-> f.pos] /\ Byte(f) # NoByte
  BY <1>3, <1>4 DEF Byte, NoByte
<1>6. /\ rx'.buf[o] = [sess |-> sess, pos |-> f.pos]
      /\ \A k \in Offsets : k # o => rx'.buf[k] = rx.buf[k]
  <2>1. CASE rx.buf[o] = NoByte
    BY <1>1, <1>4, <1>5, <2>1 DEF KeptBuf
  <2>2. CASE rx.buf[o] # NoByte
    BY <1>1, <1>3, <2>2 DEF KeptBuf, RxJoined
  <2> QED BY <2>1, <2>2
<1>7. RxJoined'
  <2>1. ASSUME NEW k \in Offsets, rx'.buf[k] # NoByte
        PROVE  rx'.buf[k] = [sess |-> sess, pos |-> n + 1 + k] /\ n + 1 + k <= sent
    <3>1. CASE k = o
      BY <1>3, <1>4, <1>6, <3>1
    <3>2. CASE k # o
      BY <1>3, <1>6, <2>1, <3>2 DEF RxJoined
    <3> QED BY <3>1, <3>2
  <2> QED BY <1>0, <1>2, <1>3, <1>4, <2>1 DEF RxJoined
<1>8. Held(f.pos)'
  BY <1>0, <1>6 DEF Held
<1>9. ASSUME NEW i, Held(i) PROVE Held(i)'
  <2>1. CASE i <= Len(delivered) + Len(rx.emit)
    BY <1>0, <1>2, <2>1 DEF Held
  <2>2. ASSUME NEW k \in Offsets, rx.buf[k] = [sess |-> sess, pos |-> i] PROVE Held(i)'
    <3>1. CASE k # o
      BY <1>0, <1>6, <2>2, <3>1 DEF Held
    <3>2. CASE k = o
      <4>1. CASE rx.buf[o] = NoByte
        <5>1. i = 0
          BY <2>2, <3>2, <4>1 DEF NoByte
        <5>2. i <= Len(delivered') + Len(rx'.emit)
          BY <5>1, PiecesAfter
        <5> QED BY <5>2 DEF Held
      <4>2. CASE rx.buf[o] # NoByte
        <5>1. rx'.buf[k] = rx.buf[k]
          BY <1>1, <3>2, <4>2 DEF KeptBuf
        <5> QED BY <1>0, <2>2, <5>1 DEF Held
      <4> QED BY <4>1, <4>2
    <3> QED BY <3>1, <3>2
  <2> QED BY <1>9, <2>1, <2>2 DEF Held
<1>10. ASSUME NEW x \in Nat, TakenUpTo(x), f.pos <= x PROVE TakenUpTo(x)'
  <2>1. \A k \in Offsets : rx'.buf[k] # NoByte => n + 1 + k <= x
    BY <1>3, <1>6, <1>10 DEF TakenUpTo
  <2> QED BY <1>4, <1>10, <2>1 DEF TakenUpTo
<1> QED BY <1>2, <1>3, <1>4, <1>7, <1>8, <1>9, <1>10, DataAckKeeps

LEMMA RepeatedKeeps ==
  ASSUME WInv, TypeInv', RxRead, NEW f \in Frame, f = fwd[1], WRepeated(rx', rx, f)
  PROVE  WInv'
<1>0. /\ sess' = sess /\ sent' = sent /\ delivered' = delivered /\ FwdFrame(f)
  BY ReadFrame
<1>1. /\ f.type = "Data" /\ ~IsClosed(rx) /\ WAcks(rx', f.seq, f)
      /\ rx'.expected = rx.expected /\ rx'.finish_seq = rx.finish_seq
      /\ rx'.abort_latched = rx.abort_latched /\ rx'.emit = rx.emit /\ rx'.buf = rx.buf
      /\ IsDuplicate(rx, f.seq)
  BY DEF WRepeated, SameRx
<1>2. /\ RxJoined /\ f.pos \in 1 .. sent /\ f.seq = SeqOf(f.pos)
      /\ n <= f.pos + WindowLen - 1 /\ f.pos <= n
  BY <1>0, <1>1, DataPlace
<1>3. n' = n
  BY <1>0, <1>1 DEF n
<1>4. SamePlace
  BY <1>1, <1>3 DEF SamePlace
<1>5. /\ RxJoined' /\ \A i : Held(i)' <=> Held(i)
      /\ \A x : TakenUpTo(x)' <=> TakenUpTo(x)
  BY <1>0, <1>2, <1>4, PlaceStays
<1>6. Held(f.pos)'
  BY <1>2, <1>5 DEF Held, n
<1> QED BY <1>1, <1>2, <1>3, <1>5, <1>6, DataAckKeeps

(* The other outcomes of a read leave the wire to the sender alone, and    *)
(* what they change of the receiver is little.                             *)
LEMMA RestartedKeeps ==
  ASSUME WInv, TypeInv', RxRead, NEW f \in Frame, f = fwd[1], WRestarted(rx', f)
  PROVE  WInv'
<1>0. /\ tx' = tx /\ sess' = sess /\ sent' = sent /\ acked' = acked /\ back' = back
      /\ delivered' = delivered /\ fwd # <<>> /\ fwd' = Tail(fwd)
      /\ rx.emit = <<>> /\ FwdFrame(f)
  BY ReadFrame
<1>1. /\ f.type = "Start" /\ rx'.expected = 0 /\ ~rx'.abort_latched /\ ~IsFinished(rx')
      /\ rx'.buf = EmptyBuf /\ rx'.emit = <<>> /\ rx'.action = "Started"
      /\ rx'.reply.type = "Ack" /\ rx'.reply.seq = 0 /\ rx'.reply.pos = f.pos
  BY DEF WRestarted, WAcks, MkFrame, IsFinished
<1>2. /\ f.pos = 0 /\ n = 0 /\ acked \subseteq {1} /\ (Active => OnlyStartAcks)
  BY <1>0, <1>1 DEF FwdFrame, FwdStart
<1>3. /\ TxCoherent' /\ SlotInv' /\ \A kind : SlotOf(kind)' = SlotOf(kind)
      /\ (Active' <=> Active) /\ (Opening' <=> Opening) /\ (Streaming' <=> Streaming)
  BY <1>0, TxStays DEF WInv
<1>4. n' = 0 /\ fwd \in Seq(Frame) /\ WindowLen \in Nat /\ WindowLen >= 1 /\ sent \in Nat
  BY <1>0, <1>1, <1>2, Pieces, WindowFacts DEF n, WInv
<1>5. RxJoined'
  <2>1. 0 % SeqMod = 0
    BY SeqTypes, ModSmall
  <2> QED BY <1>1, <1>4, <2>1 DEF RxJoined, EmptyBuf
<1>6. ~IsClosed(rx') /\ Replying(rx')
  BY <1>1 DEF IsClosed, Replying
<1>7. RxInv'
  <2>1. AcksHeld'
    BY <1>0, <1>2 DEF AcksHeld
  <2>2. Counts'
    BY <1>0, <1>1, <1>2, <1>4 DEF WInv, RxInv, Counts, InOrder, EmitInOrder
  <2>3. tx'.state = "Finished" => Len(delivered') = sent'
    BY <1>0 DEF WInv, RxInv
  <2> QED BY <1>1, <1>5, <2>1, <2>2, <2>3 DEF RxInv
<1>8. Active => OnlyStartAcks'
  BY <1>0, <1>1, <1>2, OnlyStartAcksKept
<1>9. FwdInv'
  <2>1. ASSUME NEW g \in Frame, FwdFrame(g) PROVE FwdFrame(g)'
    <3>1. g.type = "Data" => FwdData(g)'
      <4>1. g.type = "Data" => g.pos \in 1 .. sent
        BY <2>1 DEF FwdFrame, FwdData
      <4>2. g.type = "Data" => TakenUpTo(g.pos + WindowLen - 1)'
        BY <1>1, <1>4, <4>1 DEF TakenUpTo, EmptyBuf
      <4> QED BY <1>0, <2>1, <4>2 DEF FwdFrame, FwdData
    <3>2. g.type = "Start" => FwdStart(g)'
      BY <1>0, <1>1, <1>2, <1>3, <1>4, <1>8, <2>1 DEF FwdFrame, FwdStart
    <3>3. g.type = "Finish" => FwdFinish(g)'
      BY <1>0, <1>3, <2>1 DEF FwdFrame, FwdFinish
    <3> QED BY <1>3, <2>1, <3>1, <3>2, <3>3 DEF FwdFrame
  <2> QED BY <1>0, <1>4, <2>1, FwdReads DEF WInv
<1>10. BackInv'
  <2> SUFFICES ASSUME Active' PROVE AcksSound' /\ StartAcksFirst' /\ ReplySound'
    BY DEF BackInv
  <2>1. AcksSound /\ StartAcksFirst /\ OnlyStartAcks
    BY <1>2, <1>3 DEF WInv, BackInv
  <2>2. ASSUME NEW a, a.pos = 0, a.seq = 0 PROVE AckFrame(a)'
    BY <1>0, <1>2, <1>4, <1>5, <1>6, <2>2 DEF AckFrame
  <2>3. ASSUME NEW a \in Frame, NEW k \in 1 .. Len(back), a = back[k], IsAck(a), AckFrame(a)
        PROVE  AckFrame(a)'
    <3>1. a.pos = 0 /\ a.seq = 0
      BY <2>1, <2>3 DEF OnlyStartAcks, AckFrame
    <3> QED BY <2>2, <3>1
  <2>4. AcksSound' /\ StartAcksFirst'
    BY <1>0, <2>1, <2>3, AcksStay DEF WInv
  <2>5. ReplySound'
    <3>1. PICK a : a = rx'.reply
      OBVIOUS
    <3>2. PICK m : m = Len(back')
      OBVIOUS
    <3>3. AckFrame(a)' /\ a.pos = 0
      BY <1>1, <1>2, <2>2, <3>1
    <3>4. AckAfter(a, m)'
      BY <3>3 DEF AckAfter
    <3> QED BY <1>3, <1>8, <3>1, <3>2, <3>4 DEF ReplySound
  <2> QED BY <2>4, <2>5
<1> QED BY <1>3, <1>7, <1>9, <1>10 DEF WInv

LEMMA CancelledKeeps ==
  ASSUME WInv, TypeInv', RxRead, NEW f \in Frame, f = fwd[1], WCancelled(rx', rx, f)
  PROVE  WInv'
<1>0. /\ tx' = tx /\ sess' = sess /\ sent' = sent /\ acked' = acked /\ back' = back
      /\ delivered' = delivered /\ fwd # <<>> /\ fwd' = Tail(fwd)
      /\ rx.emit = <<>> /\ FwdFrame(f)
  BY ReadFrame
<1>1. /\ f.type = "Abort" /\ rx'.abort_latched /\ ~IsFinished(rx')
      /\ rx'.emit = <<>> /\ rx'.action = "Aborted"
  BY DEF WCancelled, IsFinished
<1>2. /\ TxCoherent' /\ SlotInv' /\ \A kind : SlotOf(kind)' = SlotOf(kind)
      /\ (Active' <=> Active) /\ (Opening' <=> Opening) /\ (Streaming' <=> Streaming)
  BY <1>0, TxStays DEF WInv
<1>3. ~Active /\ ~Streaming
  BY <1>0, <1>1 DEF FwdFrame, Streaming
<1>4. n' = n /\ fwd \in Seq(Frame)
  BY <1>0, <1>1, Pieces DEF n, WInv
<1>5. RxInv'
  <2>1. AcksHeld'
    BY <1>1 DEF AcksHeld
  <2>2. Counts'
    BY <1>0, <1>1, <1>4 DEF WInv, RxInv, Counts, InOrder, EmitInOrder
  <2>3. tx'.state = "Finished" => Len(delivered') = sent'
    BY <1>0 DEF WInv, RxInv
  <2> QED BY <1>1, <1>2, <1>3, <2>1, <2>2, <2>3 DEF RxInv
<1>6. FwdInv'
  <2>1. ASSUME NEW g \in Frame, FwdFrame(g) PROVE FwdFrame(g)'
    <3>1. g.type = "Data" => FwdData(g)'
      BY <1>0, <1>1, <2>1 DEF FwdFrame, FwdData
    <3>2. g.type = "Start" => FwdStart(g)'
      BY <1>0, <1>1, <1>2, <1>3, <1>4, <2>1 DEF FwdFrame, FwdStart
    <3>3. g.type = "Finish" => FwdFinish(g)'
      BY <1>0, <1>2, <1>3, <2>1 DEF FwdFrame, FwdFinish
    <3> QED BY <1>2, <1>3, <2>1, <3>1, <3>2, <3>3 DEF FwdFrame
  <2> QED BY <1>0, <1>4, <2>1, FwdReads DEF WInv
<1>7. BackInv'
  BY <1>2, <1>3 DEF BackInv
<1> QED BY <1>2, <1>5, <1>6, <1>7 DEF WInv

(* FINISH, taken or met again: every byte has been delivered, and the      *)
(* reorder buffer that is cleared was empty.                               *)
LEMMA FinishedKeeps ==
  ASSUME WInv, TypeInv', RxRead, NEW f \in Frame, f = fwd[1], n = sent,
         rx'.expected = rx.expected, rx'.abort_latched = rx.abort_latched,
         rx'.buf = EmptyBuf, rx'.emit = <<>>, IsFinished(rx'), rx'.action # "Drain",
         \/ f.type = "Finish" /\ WAcks(rx', f.seq, f)
         \/ IsFinished(rx) /\ ~Replying(rx')
  PROVE  WInv'
<1>0. /\ tx' = tx /\ sess' = sess /\ sent' = sent /\ acked' = acked /\ back' = back
      /\ delivered' = delivered /\ fwd # <<>> /\ fwd' = Tail(fwd)
      /\ rx.emit = <<>> /\ FwdFrame(f)
      /\ \A k \in 2 .. Len(fwd) : Follows(f, fwd[k])
  BY ReadFrame
<1>1. /\ TxCoherent' /\ SlotInv' /\ \A kind : SlotOf(kind)' = SlotOf(kind)
      /\ (Active' <=> Active) /\ (Opening' <=> Opening) /\ (Streaming' <=> Streaming)
  BY <1>0, TxStays DEF WInv
<1>2. /\ n' = n /\ fwd \in Seq(Frame) /\ sent \in Nat /\ n \in Nat /\ acked \subseteq 1 .. sent
      /\ Len(delivered) \in Nat
  BY <1>0, Pieces DEF n, WInv
<1>3. RxJoined => RxJoined'
  BY <1>0, <1>2 DEF RxJoined, EmptyBuf
<1>4. \A i : i \in 1 .. sent => Held(i)'
  BY <1>0, <1>2 DEF Held, n
<1>5. \A x : TakenUpTo(x) => TakenUpTo(x)'
  BY <1>2 DEF TakenUpTo, EmptyBuf
<1>6. f.type = "Finish" => /\ f.pos = sent + 1 /\ f.seq = sent % SeqMod
                           /\ Active => SlotOf("Finish") # {} /\ ~Opening
  <2>1. SlotOf("Finish") # {} => SlotOf("Start") = {}
    BY DEF SlotOf, WInv, TxCoherent
  <2> QED BY <1>0, <2>1 DEF FwdFrame, FwdFinish, Opening
<1>7. Streaming => SlotOf("Finish") # {}
  BY <1>6 DEF WInv, RxInv, Streaming
<1>8. RxInv'
  <2>1. AcksHeld'
    BY <1>0, <1>2, <1>4 DEF AcksHeld
  <2>2. Counts'
    BY <1>0, <1>2 DEF WInv, RxInv, Counts, InOrder, EmitInOrder
  <2>3. tx'.state = "Finished" => Len(delivered') = sent'
    BY <1>0 DEF WInv, RxInv
  <2> QED BY <1>0, <1>1, <1>2, <1>3, <1>7, <2>1, <2>2, <2>3 DEF WInv, RxInv
<1>9. FwdInv'
  <2>1. ASSUME NEW g \in Frame, NEW k \in 2 .. Len(fwd), g = fwd[k], FwdFrame(g)
        PROVE  FwdFrame(g)'
    <3>1. g.type = "Data" => FwdData(g)'
      BY <1>0, <1>5, <2>1 DEF FwdFrame, FwdData
    <3>2. g.type = "Start" => FwdStart(g)'
      <4>1. g.type = "Start" => ~Replying(rx')
        BY <1>0, <2>1 DEF Follows
      <4>2. g.type = "Start" /\ OnlyStartAcks => OnlyStartAcks'
        BY <1>0, <4>1, OnlyStartAcksKept
      <4> QED BY <1>0, <1>1, <1>2, <2>1, <4>2 DEF FwdFrame, FwdStart
    <3>3. g.type = "Finish" => FwdFinish(g)'
      BY <1>0, <1>1, <2>1 DEF FwdFrame, FwdFinish
    <3> QED BY <1>1, <2>1, <3>1, <3>2, <3>3 DEF FwdFrame
  <2> QED BY <1>0, <1>2, <2>1, FwdReads DEF WInv
<1>10. BackInv'
  <2> SUFFICES ASSUME Active' PROVE AcksSound' /\ StartAcksFirst' /\ ReplySound'
    BY DEF BackInv
  <2>1. AcksSound /\ StartAcksFirst
    BY <1>1 DEF WInv, BackInv
  <2>2. ASSUME NEW a \in Frame, AckFrame(a) PROVE AckFrame(a)'
    <3>1. ~Opening
      BY <1>1, <1>6, <2>2 DEF AckFrame, IsClosed
    <3> QED BY <1>0, <1>1, <1>4, <2>2, <3>1 DEF AckFrame
  <2>3. AcksSound' /\ StartAcksFirst'
    BY <1>0, <2>1, <2>2, AcksStay DEF WInv
  <2>4. CASE IsFinished(rx) /\ ~Replying(rx')
    BY <2>3, <2>4 DEF ReplySound
  <2>5. CASE f.type = "Finish" /\ WAcks(rx', f.seq, f)
    <3>1. PICK a : a = rx'.reply /\ a.pos = sent + 1 /\ a.seq = sent % SeqMod
      BY <1>6, <2>5 DEF WAcks, MkFrame
    <3>2. PICK m : m = Len(back')
      OBVIOUS
    <3>3. a.pos \in Nat /\ a.pos # 0 /\ a.pos > sent /\ a.pos \notin 1 .. sent
      BY <1>2, <3>1
    <3>4. AckFrame(a)'
      BY <1>0, <1>1, <1>6, <2>5, <3>1, <3>3 DEF AckFrame
    <3>5. AckAfter(a, m)'
      BY <1>0, <3>3, <3>4 DEF AckAfter
    <3>6. ReplySound'
      BY <3>1, <3>2, <3>3, <3>5 DEF ReplySound
    <3> QED BY <2>3, <3>6
  <2> QED BY <2>4, <2>5
<1> QED BY <1>1, <1>8, <1>9, <1>10 DEF WInv

LEMMA ClosedKeeps ==
  ASSUME WInv, TypeInv', RxRead, NEW f \in Frame, f = fwd[1], WConcluded(rx', rx, f)
  PROVE  WInv'
<1>0. FwdFrame(f) /\ sent \in Nat /\ n \in Nat /\ WindowLen \in Nat /\ WindowLen >= 1
  BY ReadFrame, Pieces, WindowFacts DEF WInv
<1>1. /\ f.type = "Finish" /\ ~rx.abort_latched
      /\ rx'.expected = rx.expected /\ rx'.abort_latched = rx.abort_latched
      /\ rx'.finish_seq = f.seq /\ f.seq \in Seqs
      /\ rx'.buf = EmptyBuf /\ rx'.emit = <<>> /\ rx'.action = "Finished"
      /\ WAcks(rx', f.seq, f)
  BY DEF WConcluded
<1>2. f.seq # NoSeq
  BY <1>1, WindowFacts DEF Seqs, NoSeq
<1>3. f.seq = sent % SeqMod
  BY <1>0, <1>1 DEF FwdFrame, FwdFinish
<1>4. n = sent
  <2>1. CASE rx.finish_seq = f.seq
    BY <1>2, <2>1 DEF WInv, RxInv, IsFinished
  <2>2. CASE f.seq = rx.expected
    <3>1. n <= sent /\ sent <= n + 2 * WindowLen
      BY DEF WInv, RxInv, Counts
    <3>2. CASE sent = 0
      BY <1>0, <3>1, <3>2
    <3>3. CASE sent > 0
      <4>1. n % SeqMod = sent % SeqMod
        BY <1>1, <1>3, <2>2, <3>3 DEF WInv, RxInv, RxJoined
      <4>2. n - sent < SeqMod /\ sent - n < SeqMod
        BY <1>0, <3>1, WindowFacts
      <4> QED BY <1>0, <4>1, <4>2, ModInjective
    <3> QED BY <1>0, <3>2, <3>3
  <2> QED BY <2>1, <2>2 DEF WConcluded
<1>5. IsFinished(rx')
  BY <1>1, <1>2 DEF IsFinished
<1> QED BY <1>1, <1>4, <1>5, FinishedKeeps

LEMMA RxReadKeeps ==
  ASSUME WInv, TypeInv', RxRead
  PROVE  WInv'
<1>0. /\ tx' = tx /\ sess' = sess /\ sent' = sent /\ acked' = acked /\ back' = back
      /\ delivered' = delivered /\ fwd # <<>> /\ fwd' = Tail(fwd)
      /\ rx.emit = <<>> /\ ~Replying(rx) /\ rx' = WTakeFrame(rx, fwd[1])
  BY ReadFrame
<1>1. PICK f \in Frame : f = fwd[1]
  BY ReadFrame
<1>2. rx \in WRxType
  BY Pieces DEF WInv
<1>3. \/ WSkipped(rx', rx) \/ WNacked(rx', rx)
      \/ WAccepted(rx', rx, f) \/ WRepeated(rx', rx, f) \/ WRestarted(rx', f)
      \/ WCancelled(rx', rx, f) \/ WConcluded(rx', rx, f)
      \/ IsFinished(rx) /\ rx' = ClearWindow(rx)
  <2>1. PICK u : u = rx' /\ u = WTakeFrame(rx, f)
    BY <1>0, <1>1
  <2>2. \/ WSkipped(u, rx) \/ WNacked(u, rx)
        \/ WAccepted(u, rx, f) \/ WRepeated(u, rx, f) \/ WRestarted(u, f)
        \/ WCancelled(u, rx, f) \/ WConcluded(u, rx, f)
        \/ IsFinished(rx) /\ u = ClearWindow(rx)
    BY <1>0, <1>2, <2>1, WReadOutcomes
  <2> QED BY <2>1, <2>2
<1>4. ASSUME WSkipped(rx', rx) \/ WNacked(rx', rx) PROVE WInv'
  <2>1. /\ rx'.expected = rx.expected /\ rx'.finish_seq = rx.finish_seq
        /\ rx'.abort_latched = rx.abort_latched /\ rx'.buf = rx.buf /\ rx'.emit = rx.emit
        /\ rx'.action # "Drain" /\ ~(Replying(rx') /\ IsAck(rx'.reply))
    BY <1>4 DEF WSkipped, WNacked, SameRx, Replying, IsAck
  <2>2. n' = n
    BY <1>0, <2>1 DEF n
  <2>3. SamePlace
    BY <2>1, <2>2 DEF SamePlace
  <2>4. Counts'
    BY <1>0, <2>1, <2>2 DEF WInv, RxInv, Counts, InOrder, EmitInOrder
  <2>5. tx.state = "Finished" => Len(delivered') = sent
    BY <1>0 DEF WInv, RxInv
  <2> QED BY <1>0, <2>1, <2>3, <2>4, <2>5, QuietRx
<1>5. ASSUME IsFinished(rx), rx' = ClearWindow(rx) PROVE WInv'
  <2>1. /\ rx'.buf = EmptyBuf /\ rx'.emit = <<>>
        /\ rx'.expected = rx.expected /\ rx'.finish_seq = rx.finish_seq
        /\ rx'.abort_latched = rx.abort_latched /\ rx'.action = rx.action
    BY <1>2, <1>5, ClearFields
  <2>2. n = sent
    BY <1>5 DEF WInv, RxInv
  <2>3. IsFinished(rx') /\ ~Replying(rx') /\ rx'.action # "Drain"
    BY <1>0, <1>5, <2>1 DEF IsFinished, Replying
  <2> QED BY <1>1, <1>5, <2>1, <2>2, <2>3, FinishedKeeps
<1> QED BY <1>1, <1>3, <1>4, <1>5, AcceptedKeeps, RepeatedKeeps, RestartedKeeps,
           CancelledKeeps, ClosedKeeps

(* What the line makes of a reply: v is w with at most one more frame, and *)
(* no ACK but f.                                                           *)
Written(v, w, f) ==
  /\ v \in Seq(Frame) /\ Len(v) \in Nat /\ Len(w) <= Len(v)
  /\ \A k \in 1 .. Len(w) : v[k] = w[k]
  /\ \A k \in 1 .. Len(v) : IsAck(v[k]) =>
       k \in 1 .. Len(w) \/ (k = Len(w) + 1 /\ v[k] = f)

LEMMA WrittenReply ==
  ASSUME NEW w \in Seq(Frame), NEW f \in Frame, NEW v,
         v = w \/ v = Append(w, f) \/ v = Append(w, BadFrame)
  PROVE  Written(v, w, f)
<1>1. BadFrame \in Frame /\ ~IsAck(BadFrame)
  BY ByteType DEF BadFrame, MkFrame, IsAck
<1>2. CASE v = w
  BY <1>2 DEF Written
<1>3. ASSUME NEW b \in Frame, v = Append(w, b), IsAck(b) => b = f
      PROVE  Written(v, w, f)
  <2>1. /\ v \in Seq(Frame) /\ Len(v) = Len(w) + 1 /\ Len(w) \in Nat /\ v[Len(w) + 1] = b
        /\ \A k \in 1 .. Len(w) : v[k] = w[k]
    BY <1>3, AppendFacts
  <2> QED BY <1>3, <2>1 DEF Written
<1> QED BY <1>1, <1>2, <1>3

(* The reply goes out; what was kept stays kept. *)
LEMMA RepliedKeeps ==
  ASSUME WInv, TypeInv', RxReply, Counts',
         RxJoined => RxJoined',
         \A i \in Nat : Held(i) => Held(i)',
         \A x \in Nat : TakenUpTo(x) => TakenUpTo(x)',
         rx'.finish_seq = rx.finish_seq, rx'.abort_latched = rx.abort_latched,
         rx'.action = "None", rx.action # "Drain" => n' = n /\ rx'.emit = <<>>,
         tx.state = "Finished" => Len(delivered') = sent
  PROVE  WInv'
<1>0. /\ tx' = tx /\ sess' = sess /\ sent' = sent /\ acked' = acked /\ fwd' = fwd
      /\ rx.emit = <<>> /\ Replying(rx) /\ ~Replying(rx')
  BY DEF RxReply, Replying
<1>1. /\ fwd \in Seq(Frame) /\ back \in Seq(Frame) /\ rx.reply \in Frame
      /\ sent \in Nat /\ acked \subseteq Nat /\ Len(back) \in Nat
      /\ WindowLen \in Nat /\ WindowLen >= 1
  <2>1. /\ fwd \in Seq(Frame) /\ back \in Seq(Frame) /\ sent \in Nat /\ acked \subseteq 1 .. sent
        /\ rx \in WRxType /\ Len(back) \in Nat
    BY Pieces DEF WInv
  <2> QED BY <2>1, RxFields, WindowFacts
<1>2. Written(back', back, rx.reply)
  <2>1. back' = back \/ back' = Append(back, rx.reply) \/ back' = Append(back, BadFrame)
    BY DEF RxReply, Transmit
  <2>2. PICK v : v = back'
    OBVIOUS
  <2>3. Written(v, back, rx.reply)
    BY <1>1, <2>1, <2>2, WrittenReply
  <2> QED BY <2>2, <2>3
<1>3. /\ TxCoherent' /\ SlotInv' /\ \A kind : SlotOf(kind)' = SlotOf(kind)
      /\ (Active' <=> Active) /\ (Opening' <=> Opening) /\ (Streaming' <=> Streaming)
  BY <1>0, TxStays DEF WInv
<1>4. (IsFinished(rx') <=> IsFinished(rx)) /\ (IsClosed(rx') <=> IsClosed(rx))
  BY DEF IsFinished, IsClosed
<1>5. OnlyStartAcks => OnlyStartAcks'
  BY <1>0, <1>2 DEF Written, OnlyStartAcks, IsAck
<1>6. RxInv'
  <2>1. AcksHeld'
    BY <1>0, <1>1 DEF WInv, RxInv, AcksHeld
  <2> QED BY <1>0, <1>3, <1>4, <2>1 DEF WInv, RxInv
<1>7. FwdInv'
  <2>1. ASSUME NEW f \in Frame, FwdFrame(f) PROVE FwdFrame(f)'
    <3>1. f.type = "Data" => FwdData(f)'
      <4>1. f.type = "Data" => f.pos + WindowLen - 1 \in Nat
        BY <1>1, <2>1 DEF FwdFrame, FwdData
      <4>2. PICK x : x = f.pos + WindowLen - 1
        OBVIOUS
      <4> QED BY <1>0, <2>1, <4>1, <4>2 DEF FwdFrame, FwdData
    <3>2. f.type = "Start" => FwdStart(f)'
      BY <1>0, <1>3, <1>5, <2>1 DEF FwdFrame, FwdStart
    <3>3. f.type = "Finish" => FwdFinish(f)'
      BY <1>0, <1>3, <2>1 DEF FwdFrame, FwdFinish
    <3> QED BY <1>3, <2>1, <3>1, <3>2, <3>3 DEF FwdFrame
  <2> QED BY <1>0, <1>1, <2>1, FwdStays DEF WInv
<1>8. BackInv'
  <2> SUFFICES ASSUME Active' PROVE AcksSound' /\ StartAcksFirst' /\ ReplySound'
    BY DEF BackInv
  <2>1. AcksSound /\ StartAcksFirst /\ ReplySound
    BY <1>3 DEF WInv, BackInv
  <2>2. ASSUME NEW a \in Frame, NEW m \in Nat, m <= Len(back), AckAfter(a, m)
        PROVE  AckAfter(a, m)'
    <3>1. AckFrame(a)'
      <4>1. a.pos \in Nat
        BY FrameFields
      <4> QED BY <1>0, <1>3, <1>4, <2>2, <4>1 DEF AckAfter, AckFrame
    <3>2. \A i \in 1 .. m : back'[i] = back[i]
      BY <1>1, <1>2, <2>2 DEF Written
    <3>3. a.pos \in 1 .. sent => Unacked(a.pos, m)'
      BY <1>0, <2>2, <3>2, UnackedKept DEF AckAfter
    <3> QED BY <1>0, <3>1, <3>3 DEF AckAfter
  <2>3. AcksSound'
    <3>1. ASSUME NEW k \in 1 .. Len(back'), NEW a, a = back'[k], IsAck(a)
          PROVE  AckAfter(a, k - 1)'
      <4>1. CASE k \in 1 .. Len(back)
        <5>1. a \in Frame /\ AckAfter(a, k - 1)
          BY <1>1, <1>2, <2>1, <3>1, <4>1, OnWire DEF AcksSound, Written
        <5> QED BY <1>1, <2>2, <4>1, <5>1
      <4>2. CASE k = Len(back) + 1 /\ a = rx.reply
        <5>1. k - 1 = Len(back) /\ k - 1 \in Nat /\ k - 1 <= Len(back)
          BY <1>1, <4>2
        <5>2. AckAfter(a, k - 1)
          BY <1>0, <2>1, <3>1, <4>2, <5>1 DEF ReplySound
        <5> QED BY <1>1, <2>2, <4>2, <5>1, <5>2
      <4> QED BY <1>2, <3>1, <4>1, <4>2 DEF Written
    <3> QED BY <3>1 DEF AcksSound, IsAck
  <2>4. StartAcksFirst'
    <3>1. ASSUME NEW j \in 1 .. Len(back'), NEW k \in 1 .. Len(back'), j < k,
                 IsAck(back'[j]), IsAck(back'[k]), back'[k].pos = 0
          PROVE  back'[j].pos = 0
      <4>1. j \in 1 .. Len(back) /\ back'[j] = back[j]
        BY <1>1, <1>2, <3>1 DEF Written
      <4>2. CASE k \in 1 .. Len(back)
        BY <1>2, <2>1, <3>1, <4>1, <4>2 DEF Written, StartAcksFirst
      <4>3. CASE k = Len(back) + 1 /\ back'[k] = rx.reply
        BY <1>0, <2>1, <3>1, <4>1, <4>3 DEF ReplySound, OnlyStartAcks
      <4> QED BY <1>2, <3>1, <4>2, <4>3 DEF Written
    <3> QED BY <3>1 DEF StartAcksFirst, IsAck
  <2> QED BY <1>0, <2>3, <2>4 DEF ReplySound
<1> QED BY <1>3, <1>6, <1>7, <1>8 DEF WInv

LEMMA AddMod ==
  ASSUME NEW a \in Nat, NEW k \in Nat
  PROVE  ((a % SeqMod) + k) % SeqMod = (a + k) % SeqMod
<1> DEFINE q == a \div SeqMod
           r == a % SeqMod
<1>1. q \in Int /\ r \in Nat /\ a = SeqMod * q + r
  BY DivMod, SeqModAssumption DEF Seqs
<1> HIDE DEF q, r
<1> DEFINE q2 == (r + k) \div SeqMod
           r2 == (r + k) % SeqMod
<1>2. q2 \in Int /\ r2 \in Seqs /\ r + k = SeqMod * q2 + r2
  BY <1>1, DivMod
<1> HIDE DEF q2, r2
<1>3. a + k \in Nat /\ q + q2 \in Int /\ a + k = SeqMod * (q + q2) + r2
  BY <1>1, <1>2, SeqModAssumption DEF Seqs
<1>4. (a + k) % SeqMod = r2
  BY <1>2, <1>3, ModUnique
<1> QED BY <1>4 DEF r, r2

(* drain_in_order moves the bytes n + 1, ..., n + run out of the buffer. *)
LEMMA DrainedBytes ==
  ASSUME WInv, RxJoined, rx.emit = <<>>, NEW u, NEW run, Drains(u, rx, run)
  PROVE  /\ run \in Nat /\ n + run <= sent /\ Len(u.emit) = run
         /\ InTurn(delivered, u.emit, sess)
         /\ u.expected = (n + run) % SeqMod
         /\ \A o \in Offsets : u.buf[o] # NoByte => o + run \in Offsets /\ u.buf[o] = rx.buf[o + run]
         /\ \A o \in Offsets : o + run \in Offsets => u.buf[o] = rx.buf[o + run]
         /\ run > 0 => run - 1 \in Offsets /\ rx.buf[run - 1] # NoByte
<1>0. /\ n \in Nat /\ sent \in Nat /\ n <= sent /\ WindowLen \in Nat /\ WindowLen >= 1
      /\ n = Len(delivered) /\ rx.buf \in [Offsets -> Bytes]
  BY Pieces, WindowFacts, RxFields DEF WInv, RxInv, Counts, n
<1>1. run \in Nat /\ run <= WindowLen /\ \A i \in Offsets : i < run => rx.buf[i] # NoByte
  BY <1>0 DEF Drains
<1>2. run > 0 => run - 1 \in Offsets /\ rx.buf[run - 1] # NoByte
  BY <1>0, <1>1 DEF Offsets
<1>3. n + run <= sent
  <2>1. run > 0 => n + 1 + (run - 1) <= sent
    BY <1>2 DEF RxJoined
  <2> QED BY <1>0, <1>1, <2>1
<1> DEFINE em == [i \in 1 .. run |-> rx.buf[i - 1]]
<1>4. \A i \in 1 .. run : i - 1 \in Offsets
  BY <1>0, <1>1 DEF Offsets
<1>5. em \in Seq(Bytes) /\ Len(em) = run
  <2>1. em \in [1 .. run -> Bytes]
    BY <1>0, <1>4
  <2>2. DOMAIN em = 1 .. run
    OBVIOUS
  <2> HIDE DEF em
  <2> QED BY <1>1, <2>1, <2>2
<1>6. u.emit = em
  <2>1. u.emit = <<>> \o em
    BY DEF Drains
  <2> HIDE DEF em
  <2> QED BY <1>5, <2>1
<1>7. ASSUME NEW i \in 1 .. run PROVE em[i] = [sess |-> sess, pos |-> Len(delivered) + i]
  <2>1. i - 1 \in Offsets /\ rx.buf[i - 1] # NoByte /\ n + 1 + (i - 1) = Len(delivered) + i
    BY <1>0, <1>1, <1>4
  <2> QED BY <2>1 DEF RxJoined
<1>8. InTurn(delivered, u.emit, sess)
  <2>1. \A i \in 1 .. Len(delivered) : delivered[i] = [sess |-> sess, pos |-> i]
    BY DEF WInv, RxInv, Counts, InOrder
  <2> HIDE DEF em
  <2> QED BY <1>5, <1>6, <1>7, <2>1 DEF InTurn
<1>9. u.expected = (n + run) % SeqMod
  BY <1>0, <1>1, AddMod DEF Drains, RxJoined
<1>10. \A o \in Offsets : u.buf[o] = IF o + run \in Offsets THEN rx.buf[o + run] ELSE NoByte
  BY DEF Drains
<1> HIDE DEF em
<1> QED BY <1>1, <1>2, <1>3, <1>5, <1>6, <1>8, <1>9, <1>10

(* Of the bytes drained the first is handed over at once. *)
LEMMA DrainedReply ==
  ASSUME WInv, TypeInv', RxReply, rx.action = "Drain"
  PROVE  /\ RxJoined /\ rx'.action = "None"
         /\ rx'.finish_seq = rx.finish_seq /\ rx'.abort_latched = rx.abort_latched
         /\ \E run \in Nat :
              /\ n' = n + run /\ n + run <= sent
              /\ InTurn(delivered', rx'.emit, sess)
              /\ rx'.expected = (n + run) % SeqMod
              /\ \A o \in Offsets : rx'.buf[o] # NoByte =>
                   o + run \in Offsets /\ rx'.buf[o] = rx.buf[o + run]
              /\ \A o \in Offsets : o + run \in Offsets => rx'.buf[o] = rx.buf[o + run]
              /\ \A o \in Offsets : o < run => rx.buf[o] # NoByte
              /\ run > 0 => run - 1 \in Offsets /\ rx.buf[run - 1] # NoByte
<1>0. /\ rx \in WRxType /\ rx.emit = <<>> /\ delivered \in Seq(Bytes) /\ RxJoined
      /\ n = Len(delivered) /\ n \in Nat /\ Len(delivered) \in Nat
  BY Pieces DEF WInv, RxInv, IsClosed, RxReply, n
<1>1. PICK u : /\ u = WTakePending(rx)
               /\ IF u.emit = <<>>
                    THEN rx' = u /\ delivered' = delivered
                    ELSE rx' = PopEmit(u) /\ delivered' = Append(delivered, Head(u.emit))
  BY DEF RxReply
<1>2. u \in WRxType /\ u.action = "None" /\ \E run : Drains(u, rx, run)
  BY <1>0, <1>1, WPendingFields
<1>3. PICK run : Drains(u, rx, run)
  BY <1>2
<1>4. /\ run \in Nat /\ n + run <= sent /\ Len(u.emit) = run
      /\ InTurn(delivered, u.emit, sess)
      /\ u.expected = (n + run) % SeqMod
      /\ \A o \in Offsets : u.buf[o] # NoByte => o + run \in Offsets /\ u.buf[o] = rx.buf[o + run]
      /\ \A o \in Offsets : o + run \in Offsets => u.buf[o] = rx.buf[o + run]
      /\ run > 0 => run - 1 \in Offsets /\ rx.buf[run - 1] # NoByte
  BY <1>0, <1>3, DrainedBytes
<1>5. /\ u.finish_seq = rx.finish_seq /\ u.abort_latched = rx.abort_latched
      /\ \A o \in Offsets : o < run => rx.buf[o] # NoByte
  BY <1>3 DEF Drains
<1>6. /\ rx'.expected = u.expected /\ rx'.finish_seq = u.finish_seq
      /\ rx'.abort_latched = u.abort_latched /\ rx'.buf = u.buf /\ rx'.action = u.action
      /\ n' = n + run /\ InTurn(delivered', rx'.emit, sess)
  <2>1. CASE u.emit = <<>>
    <3>1. rx' = u /\ delivered' = delivered
      BY <1>1, <2>1
    <3>2. n' = Len(delivered) + Len(u.emit)
      BY <3>1 DEF n
    <3> QED BY <1>0, <1>4, <3>1, <3>2
  <2>2. CASE u.emit # <<>>
    <3>1. rx' = PopEmit(u) /\ delivered' = Append(delivered, Head(u.emit))
      BY <1>1, <2>2
    <3>2. PICK d2, w : d2 = delivered' /\ w = rx'
      OBVIOUS
    <3>3. /\ w.emit = Tail(u.emit) /\ w.expected = u.expected /\ w.finish_seq = u.finish_seq
          /\ w.abort_latched = u.abort_latched /\ w.buf = u.buf /\ w.action = u.action
      BY <1>2, <2>2, <3>1, <3>2, PopFields
    <3>4. u.emit \in Seq(Bytes)
      BY <1>2, RxFields
    <3>5. HandedOver(d2, w.emit, delivered, u.emit, sess)
      BY <1>0, <1>4, <2>2, <3>1, <3>2, <3>3, <3>4, Popped
    <3>6. n' = Len(d2) + Len(w.emit)
      BY <3>2 DEF n
    <3> QED BY <1>0, <1>4, <3>2, <3>3, <3>5, <3>6 DEF HandedOver
  <2> QED BY <2>1, <2>2
<1> QED BY <1>0, <1>2, <1>4, <1>5, <1>6

LEMMA DrainKeeps ==
  ASSUME WInv, TypeInv', RxReply, rx.action = "Drain"
  PROVE  WInv'
<1>0. /\ sess' = sess /\ sent' = sent
      /\ RxJoined /\ rx'.action = "None"
      /\ rx'.finish_seq = rx.finish_seq /\ rx'.abort_latched = rx.abort_latched
  BY DrainedReply DEF RxReply
<1>1. PICK run \in Nat :
        /\ n' = n + run /\ n + run <= sent
        /\ InTurn(delivered', rx'.emit, sess)
        /\ rx'.expected = (n + run) % SeqMod
        /\ \A o \in Offsets : rx'.buf[o] # NoByte =>
             o + run \in Offsets /\ rx'.buf[o] = rx.buf[o + run]
        /\ \A o \in Offsets : o + run \in Offsets => rx'.buf[o] = rx.buf[o + run]
        /\ \A o \in Offsets : o < run => rx.buf[o] # NoByte
        /\ run > 0 => run - 1 \in Offsets /\ rx.buf[run - 1] # NoByte
  BY DrainedReply
<1>2. /\ n \in Nat /\ sent \in Nat /\ sent <= n + 2 * WindowLen /\ Offsets \subseteq Nat
      /\ WindowLen \in Nat /\ WindowLen >= 1 /\ Offsets = 0 .. WindowLen - 1
      /\ Len(delivered') \in Nat /\ Len(rx'.emit) \in Nat /\ n' = Len(delivered') + Len(rx'.emit)
      /\ n = Len(delivered) + Len(rx.emit) /\ Len(delivered) \in Nat
      /\ rx.emit = <<>> /\ Len(rx.emit) = 0
  BY Pieces, PiecesAfter, WindowFacts DEF WInv, RxInv, Counts, Offsets, n, RxReply
<1>3. ASSUME NEW o \in Offsets, rx'.buf[o] # NoByte
      PROVE  /\ o + run \in Offsets /\ rx.buf[o + run] # NoByte /\ rx'.buf[o] = rx.buf[o + run]
             /\ n' + 1 + o = n + 1 + (o + run)
  <2>1. o + run \in Offsets /\ rx'.buf[o] = rx.buf[o + run]
    BY <1>1, <1>3
  <2>2. o \in Nat /\ n' = n + run
    BY <1>1, <1>2
  <2>3. n' + 1 + o = n + 1 + (o + run)
    BY <1>2, <2>2
  <2> QED BY <1>3, <2>1, <2>3
<1>4. RxJoined'
  <2>1. ASSUME NEW o \in Offsets, rx'.buf[o] # NoByte
        PROVE  rx'.buf[o] = [sess |-> sess, pos |-> n' + 1 + o] /\ n' + 1 + o <= sent
    BY <1>0, <1>3, <2>1 DEF RxJoined
  <2> QED BY <1>0, <1>1, <2>1 DEF RxJoined
<1>5. ASSUME NEW i \in Nat, Held(i) PROVE Held(i)'
  <2>1. CASE i <= n
    BY <1>1, <1>2, <2>1 DEF Held
  <2>2. ASSUME NEW o \in Offsets, rx.buf[o] = [sess |-> sess, pos |-> i] PROVE Held(i)'
    <3>1. CASE o < run
      <4>1. rx.buf[o] = [sess |-> sess, pos |-> n + 1 + o]
        BY <1>0, <1>1, <3>1 DEF RxJoined
      <4>2. i = n + 1 + o
        BY <2>2, <4>1
      <4>3. i <= n'
        BY <1>1, <1>2, <3>1, <4>2
      <4> QED BY <1>2, <4>3 DEF Held
    <3>2. CASE ~(o < run)
      <4>1. o - run \in Offsets /\ (o - run) + run = o
        BY <1>1, <1>2, <3>2
      <4>2. rx'.buf[o - run] = [sess |-> sess, pos |-> i]
        BY <1>1, <2>2, <4>1
      <4> QED BY <1>0, <4>1, <4>2 DEF Held
    <3> QED BY <3>1, <3>2
  <2> QED BY <1>2, <1>5, <2>1, <2>2 DEF Held
<1>6. ASSUME NEW x \in Nat, TakenUpTo(x) PROVE TakenUpTo(x)'
  <2>1. n' <= x
    <3>1. run > 0 => n + 1 + (run - 1) <= x
      BY <1>1, <1>6 DEF TakenUpTo
    <3> QED BY <1>1, <1>2, <1>6, <3>1 DEF TakenUpTo
  <2>2. \A o \in Offsets : rx'.buf[o] # NoByte => n' + 1 + o <= x
    BY <1>3, <1>6 DEF TakenUpTo
  <2> QED BY <2>1, <2>2 DEF TakenUpTo
<1>7. Counts'
  <2>1. InOrder'
    BY <1>0, <1>1, <1>2 DEF InOrder, InTurn
  <2>2. EmitInOrder'
    BY <1>0, <1>1 DEF EmitInOrder, InTurn
  <2>3. n' <= sent /\ sent <= n' + 2 * WindowLen
    BY <1>1, <1>2
  <2> QED BY <1>0, <2>1, <2>2, <2>3 DEF Counts
<1>8. tx.state = "Finished" => Len(delivered') = sent
  <2>1. tx.state = "Finished" => Len(delivered) = sent
    BY DEF WInv, RxInv
  <2>2. Len(delivered) <= Len(delivered')
    <3>1. delivered \in Seq(Bytes) /\ rx \in WRxType
      BY Pieces DEF WInv
    <3>2. PICK u : /\ u = WTakePending(rx)
                   /\ IF u.emit = <<>>
                        THEN rx' = u /\ delivered' = delivered
                        ELSE rx' = PopEmit(u) /\ delivered' = Append(delivered, Head(u.emit))
      BY DEF RxReply
    <3>3. u.emit \in Seq(Bytes)
      BY <3>1, <3>2, WPendingFields, RxFields
    <3>4. u.emit # <<>> => Head(u.emit) \in Bytes
      BY <3>3
    <3> QED BY <1>2, <3>1, <3>2, <3>4, AppendFacts
  <2> QED BY <1>1, <1>2, <2>1, <2>2
<1> QED BY <1>0, <1>4, <1>5, <1>6, <1>7, <1>8, RepliedKeeps

LEMMA RxReplyKeeps ==
  ASSUME WInv, TypeInv', RxReply
  PROVE  WInv'
<1>1. CASE rx.action # "Drain"
  <2>1. PICK u : /\ u = WTakePending(rx) /\ rx.emit = <<>> /\ sess' = sess /\ sent' = sent
                 /\ u.emit = <<>> => rx' = u /\ delivered' = delivered
    BY DEF RxReply
  <2>2. SameRx(u, rx) /\ u.action = "None"
    BY <1>1, <2>1, Pieces, WPendingFields DEF WInv
  <2>3. /\ rx'.expected = rx.expected /\ rx'.finish_seq = rx.finish_seq
        /\ rx'.abort_latched = rx.abort_latched /\ rx'.buf = rx.buf
        /\ rx'.emit = <<>> /\ rx.emit = <<>> /\ rx'.action = "None"
        /\ delivered' = delivered /\ sess' = sess /\ sent' = sent
    BY <2>1, <2>2 DEF SameRx
  <2>4. n' = n
    BY <2>3 DEF n
  <2>5. SamePlace
    BY <2>3, <2>4 DEF SamePlace
  <2>6. Counts'
    BY <2>3, <2>4 DEF WInv, RxInv, Counts, InOrder, EmitInOrder
  <2>7. tx.state = "Finished" => Len(delivered') = sent
    BY <2>3 DEF WInv, RxInv
  <2>8. /\ (RxJoined' <=> RxJoined) /\ \A i : Held(i)' <=> Held(i)
        /\ \A x : TakenUpTo(x)' <=> TakenUpTo(x)
    BY <2>3, <2>5, PlaceStays
  <2> QED BY <2>3, <2>4, <2>6, <2>7, <2>8, RepliedKeeps
<1> QED BY <1>1, DrainKeeps

-----------------------------------------------------------------------------
(* WInv holds when the line comes up, and every step keeps it. *)

LEMMA WInvInit == Init => WInv
<1> SUFFICES ASSUME Init PROVE WInv
  OBVIOUS
<1>0. TypeInv
  BY TypeInit
<1>1. /\ tx = WTxInit /\ rx = WRxInit /\ fwd = <<>> /\ back = <<>>
      /\ sess = 0 /\ sent = 0 /\ acked = {} /\ delivered = <<>>
  BY DEF Init
<1>2. /\ Used(tx) = {} /\ tx.writing = 0 /\ tx.next_seq = 0 /\ tx.state # "Finished"
  BY <1>1 DEF WTxInit, Used, Cleared, NoSlot
<1>3. /\ rx.expected = 0 /\ rx.action = "None" /\ rx.emit = <<>> /\ ~rx.abort_latched
      /\ rx.finish_seq = NoSeq /\ \A o \in Offsets : rx.buf[o] = NoByte
  BY <1>1 DEF WRxInit
<1>4. n = 0 /\ Len(delivered) = 0 /\ Len(rx.emit) = 0 /\ Len(fwd) = 0 /\ Len(back) = 0
  BY <1>1, <1>3 DEF n
<1>5. \A kind : SlotOf(kind) = {}
  BY <1>2 DEF SlotOf
<1>6. TxCoherent
  BY <1>2 DEF TxCoherent
<1>7. 0 % SeqMod = 0 /\ 1 .. 0 = {}
  BY ModSmall, WindowFacts, SeqModAssumption DEF Seqs
<1>8. SlotInv
  BY <1>1, <1>2, <1>5, <1>7 DEF SlotInv, Covered
<1>9. RxInv
  <2>1. RxJoined
    BY <1>3, <1>4, <1>7 DEF RxJoined
  <2>2. Counts
    BY <1>1, <1>4, WindowFacts DEF Counts, InOrder, EmitInOrder
  <2>3. AcksHeld /\ ~IsFinished(rx)
    BY <1>1, <1>3 DEF AcksHeld, IsFinished
  <2> QED BY <1>1, <1>2, <1>3, <2>1, <2>2, <2>3 DEF RxInv
<1>10. FwdInv
  BY <1>4 DEF FwdInv
<1>11. BackInv
  BY <1>3, <1>4 DEF BackInv, AcksSound, StartAcksFirst, ReplySound, Replying
<1> QED BY <1>0, <1>6, <1>8, <1>9, <1>10, <1>11 DEF WInv

LEMMA WInvStep ==
  ASSUME DrainedRestart, WInv, [Next]_vars
  PROVE  WInv'
<1>1. TypeInv'
  BY TypeStep DEF WInv
<1>2. \/ AppStart \/ AppOffer \/ AppFinish \/ AppAbort \/ PeerAbort
      \/ (\E m \in Limits : TxLimit(m) \/ RxLimit(m))
      \/ TxBeginWrite \/ TxEndWrite \/ TxRead \/ TxEmptyRead
      \/ RxEmit \/ RxRead \/ RxReply
      \/ UNCHANGED vars
  BY DEF Next, TxPoll, RxPoll
<1> QED BY <1>1, <1>2, AppStartKeeps, AppOfferKeeps, AppFinishKeeps, AppAbortKeeps,
           PeerAbortKeeps, TxLimitKeeps, RxLimitKeeps, TxBeginWriteKeeps, TxEndWriteKeeps,
           TxReadKeeps, TxEmptyReadKeeps, RxEmitKeeps, RxReadKeeps, RxReplyKeeps, StutterKeeps

(***************************************************************************)
(* When offer_start is called on a drained line only, WInv always holds:   *)
(* the SEQ of whatever is under way, at most three windows from where the  *)
(* two ends stand, tells its position.                                     *)
(***************************************************************************)
THEOREM WindowInvariance ==
  ASSUME DrainedRestart = TRUE
  PROVE  Spec => []WInv
<1>1. WInv /\ [Next]_vars => WInv'
  BY WInvStep
<1> QED BY <1>1, WInvInit, PTL DEF Spec

(***************************************************************************)
(* "Delivers only in order" (window/rx.rs): handle_data, drain_in_order    *)
(* and pop_emit hand over a prefix of the bytes offered in the session,    *)
(* whatever is hit, repeated and acknowledged out of order, across the     *)
(* wrap of SEQ.                                                            *)
(***************************************************************************)
THEOREM DeliversInOrder ==
  ASSUME DrainedRestart = TRUE
  PROVE  Spec => []InOrder
<1>1. WInv => InOrder
  BY DEF WInv, RxInv, Counts
<1> QED BY <1>1, WindowInvariance, PTL

(***************************************************************************)
(* handle_finish clears the reorder buffer, and the sender takes the ACK   *)
(* of FINISH for the end: neither happens before every byte offered has    *)
(* been delivered.                                                         *)
(***************************************************************************)
THEOREM ClosesComplete ==
  ASSUME DrainedRestart = TRUE
  PROVE  Spec => []CloseIsComplete
<1>1. WInv => CloseIsComplete
  <2> SUFFICES ASSUME WInv, tx.state = "Finished" \/ IsFinished(rx)
               PROVE  Len(delivered \o rx.emit) = sent
    BY DEF CloseIsComplete
  <2>1. /\ delivered \in Seq(Bytes) /\ rx.emit \in Seq(Bytes)
        /\ Len(delivered) \in Nat /\ Len(rx.emit) \in Nat /\ sent \in Nat
    BY Pieces DEF WInv
  <2>2. Len(delivered \o rx.emit) = Len(delivered) + Len(rx.emit)
    BY <2>1
  <2>3. n <= sent /\ (IsFinished(rx) => n = sent)
        /\ (tx.state = "Finished" => Len(delivered) = sent)
    BY DEF WInv, RxInv, Counts
  <2> QED BY <2>1, <2>2, <2>3 DEF n
<1> QED BY <1>1, WindowInvariance, PTL

(***************************************************************************)
(* on_ack (window/tx.rs) frees a slot, and with it the sender's only copy  *)
(* of the byte, once the receiver delivered the byte or keeps it; the      *)
(* first byte, whose SEQ is that of START, is excepted.                    *)
(***************************************************************************)
THEOREM AcksWhatIsHeld ==
  ASSUME DrainedRestart = TRUE
  PROVE  Spec => []AckedIsHeld
<1>1. WInv => AckedIsHeld
  BY DEF WInv, RxInv, AcksHeld, AckedIsHeld
<1> QED BY <1>1, WindowInvariance, PTL

-----------------------------------------------------------------------------
(* Step by step, Window implements ByteStream. *)

(* The status the sender's state and slots stand for. *)
LEMMA StatusValues ==
  ASSUME TxCoherent
  PROVE  /\ tx.state = "Finished" => Status = "done"
         /\ tx.state = "Failed" => Status = "failed"
         /\ tx.state = "Aborted" => Status = "cancelled"
         /\ ~WClosed(tx) /\ SlotOf("Abort") # {} => Status = "cancelled"
         /\ ~WClosed(tx) /\ SlotOf("Abort") = {} => Status = "open"
<1>1. (\E i \in Slots : tx.slots[i].kind = "Abort") <=> SlotOf("Abort") # {}
  BY DEF SlotOf, Used
<1>2. WClosed(tx) => SlotOf("Abort") = {}
  BY DEF TxCoherent, SlotOf
<1> QED BY <1>1, <1>2 DEF Status, WClosed

(* The same in the next state. *)
LEMMA StatusAfter ==
  ASSUME TxCoherent'
  PROVE  /\ tx'.state = "Finished" => Status' = "done"
         /\ tx'.state = "Failed" => Status' = "failed"
         /\ tx'.state = "Aborted" => Status' = "cancelled"
         /\ ~WClosed(tx') /\ SlotOf("Abort")' # {} => Status' = "cancelled"
         /\ ~WClosed(tx') /\ SlotOf("Abort")' = {} => Status' = "open"
<1>1. (\E i \in Slots : tx'.slots[i].kind = "Abort") <=> SlotOf("Abort")' # {}
  BY DEF SlotOf, Used
<1>2. WClosed(tx') => SlotOf("Abort")' = {}
  BY DEF TxCoherent, SlotOf
<1> QED BY <1>1, <1>2 DEF Status, WClosed

(* What the application sees of a step that hands over at most one byte. *)
LEMMA DeliversNext ==
  ASSUME WInv, Counts', tx' = tx, sess' = sess, sent' = sent,
         NEW b \in Bytes, delivered' = Append(delivered, b)
  PROVE  Service!Next
<1>1. /\ delivered \in Seq(Bytes) /\ Len(delivered) \in Nat /\ sent \in Nat
  BY Pieces DEF WInv
<1>2. Len(delivered') = Len(delivered) + 1 /\ delivered'[Len(delivered) + 1] = b
  BY <1>1, AppendFacts
<1>3. Len(delivered') <= sent /\ Len(delivered) + 1 \in 1 .. Len(delivered')
  BY <1>1, <1>2 DEF Counts, InOrder
<1>4. b = [sess |-> sess, pos |-> Len(delivered) + 1]
  BY <1>2, <1>3 DEF Counts, InOrder
<1>5. Len(delivered) < sent
  BY <1>1, <1>2, <1>3
<1>6. Status' = Status
  BY DEF Status
<1> QED BY <1>4, <1>5, <1>6 DEF Service!Next, Service!Deliver

LEMMA RefinesInit == Init => Service!Init
BY DEF Init, WTxInit, Cleared, NoSlot, Service!Init, Status

LEMMA RefinesStep == WInv /\ WInv' /\ [Next]_vars => [Service!Next]_(Service!vars)
<1> SUFFICES ASSUME WInv, WInv', [Next]_vars
             PROVE  Service!Next \/ UNCHANGED Service!vars
  OBVIOUS
<1>0. tx \in WTxType /\ rx \in WRxType /\ sess \in Nat /\ sent \in Nat
  BY Pieces DEF WInv
<1>t. TxCoherent /\ TxCoherent'
  BY DEF WInv
<1>q. sess' = sess /\ sent' = sent /\ delivered' = delivered /\ Status' = Status
        => UNCHANGED Service!vars
  BY DEF Service!vars
<1>c. sess' = sess /\ sent' = sent /\ delivered' = delivered /\ Status' = "cancelled"
        => Service!Next
  BY DEF Service!Next, Service!Cancel
<1>f. ASSUME ~WClosed(tx), tx'.state = "Failed", sess' = sess, sent' = sent,
             delivered' = delivered
      PROVE  Service!Next
  <2>1. Status \in {"open", "cancelled"} /\ Status' = "failed"
    BY <1>t, <1>f, StatusValues, StatusAfter
  <2> QED BY <1>f, <2>1 DEF Service!Next, Service!Fail
<1>s. ASSUME ~WClosed(tx), ~WClosed(tx'), Alike(tx', tx)
      PROVE  Status' = Status
  BY <1>t, <1>s, AlikeSlots, StatusValues, StatusAfter
<1>1. CASE AppStart
  <2>1. tx.writing = 0 /\ tx' = WOfferStart(tx, sess + 1) /\ sess + 1 \in Nat
    BY <1>0, <1>1 DEF AppStart, WCanOfferStart
  <2>2. ~WClosed(tx') /\ SlotOf("Abort")' = {}
    <3>1. Sole(tx', "Start", 0, sess + 1, 0)
      BY <1>0, <2>1, WOfferStartFields
    <3> QED BY <3>1, SoleSlot
  <2>3. Status' = "open"
    BY <1>t, <2>2, StatusAfter
  <2> QED BY <1>1, <2>3 DEF AppStart, Service!Next, Service!Open
<1>2. CASE AppOffer
  <2>1. ~WClosed(tx) /\ SlotOf("Abort") = {} /\ Used(tx) # Slots
    BY <1>2 DEF AppOffer, WCanOffer, HasSessionFlight, SlotOf
  <2>2. PICK i : Inserted(tx', tx, i, "Data", tx.next_seq, sess, sent + 1)
    <3>1. sent + 1 \in Nat
      BY <1>0
    <3> QED BY <1>0, <1>2, <2>1, <3>1, WOfferFields DEF AppOffer
  <2>3. ~WClosed(tx') /\ SlotOf("Abort")' = {}
    <3>1. ~WClosed(tx')
      BY <2>2 DEF Inserted, WClosed
    <3>2. \A j \in Used(tx') : tx'.slots[j].kind # "Abort"
      BY <2>1, <2>2 DEF Inserted, Carries, SlotOf, Used
    <3> QED BY <3>1, <3>2 DEF SlotOf
  <2>4. Status = "open" /\ Status' = "open"
    BY <1>t, <2>1, <2>3, StatusValues, StatusAfter
  <2> QED BY <1>2, <2>4 DEF AppOffer, Service!Next, Service!Offer
<1>3. CASE AppFinish
  <2>1. /\ ~WClosed(tx) /\ Used(tx) = {} /\ SlotOf("Abort") = {} /\ sent + 1 \in Nat
        /\ tx' = WOfferFinish(tx, sess, sent + 1)
    BY <1>0, <1>3 DEF AppFinish, WCanOfferFinish, SlotOf
  <2>2. ~WClosed(tx') /\ SlotOf("Abort")' = {}
    <3>1. Sole(tx', "Finish", tx.next_seq, sess, sent + 1)
      BY <1>0, <2>1, WOfferFinishFields
    <3> QED BY <3>1, SoleSlot
  <2>3. Status = "open" /\ Status' = "open"
    BY <1>t, <2>1, <2>2, StatusValues, StatusAfter
  <2> QED BY <1>q, <1>3, <2>3 DEF AppFinish, history
<1>4. CASE AppAbort
  <2>1. ~WClosed(tx') /\ SlotOf("Abort")' # {}
    <3>1. sent + 1 \in Nat
      BY <1>0
    <3>2. Sole(tx', "Abort", 0, sess, sent + 1)
      BY <1>0, <1>4, <3>1, WOfferAbortFields DEF AppAbort
    <3> QED BY <3>2, SoleSlot
  <2>2. Status' = "cancelled"
    BY <1>t, <2>1, StatusAfter
  <2> QED BY <1>c, <1>4, <2>2 DEF AppAbort, history
<1>5. CASE PeerAbort
  <2>1. Status' = Status
    BY <1>5 DEF PeerAbort, Status
  <2> QED BY <1>q, <1>5, <2>1 DEF PeerAbort, history
<1>6. ASSUME NEW m \in Limits, TxLimit(m) \/ RxLimit(m)
      PROVE  UNCHANGED Service!vars
  <2>1. tx'.slots = tx.slots /\ tx'.state = tx.state
    BY <1>0, <1>6 DEF TxLimit, RxLimit, WSetLimit, WTxType
  <2>2. Status' = Status
    BY <2>1 DEF Status
  <2> QED BY <1>q, <1>6, <2>2 DEF TxLimit, RxLimit, history
<1>7. CASE TxBeginWrite
  <2>1. SameSlots(tx', tx) /\ ~WClosed(tx) /\ ~WClosed(tx')
    BY <1>0, <1>7, BeginWriteFields DEF TxBeginWrite, WWantsWrite, WClosed
  <2>2. Status' = Status
    BY <1>s, <2>1, SameSlotsAlike
  <2> QED BY <1>q, <1>7, <2>2 DEF TxBeginWrite, history
<1>8. CASE TxEndWrite
  <2>1. tx.writing \in Slots /\ ~WClosed(tx) /\ tx' = WEndWrite(tx)
    BY <1>0, <1>8 DEF TxEndWrite, WTxType, WInv, TxCoherent
  <2>2. SameSlots(tx', tx) /\ ~WClosed(tx')
    BY <1>0, <2>1, EndWriteFields DEF WClosed
  <2>3. Status' = Status
    BY <1>s, <2>1, <2>2, SameSlotsAlike
  <2> QED BY <1>q, <1>8, <2>3 DEF TxEndWrite, history
<1>r. ASSUME ~WClosed(tx), Retried(tx', tx), sess' = sess, sent' = sent,
             delivered' = delivered
      PROVE  Service!Next \/ UNCHANGED Service!vars
  <2>1. CASE Emptied(tx', "Failed")
    BY <1>f, <1>r, <2>1 DEF Emptied
  <2>2. CASE SameSlots(tx', tx) /\ tx'.state \in {"Retrying", tx.state}
    <3>1. ~WClosed(tx')
      BY <1>r, <2>2 DEF WClosed
    <3> QED BY <1>q, <1>r, <1>s, <2>2, <3>1, SameSlotsAlike
  <2> QED BY <1>r, <2>1, <2>2 DEF Retried
<1>9. CASE TxRead
  <2>1. PICK a : a = Head(back) /\ tx' = WOnControl(tx, a)
    BY <1>9 DEF TxRead
  <2>2. /\ ~WClosed(tx) /\ tx.writing = 0
        /\ sess' = sess /\ sent' = sent /\ delivered' = delivered
    BY <1>9 DEF TxRead, WReads
  <2>3. CASE Emptied(tx', "Aborted")
    <3>1. Status' = "cancelled"
      BY <1>t, <2>3, StatusAfter DEF Emptied
    <3> QED BY <1>c, <2>2, <3>1
  <2>4. ASSUME NEW i \in Matching(tx, a), Freed(tx', tx, i)
        PROVE  Service!Next \/ UNCHANGED Service!vars
    <3>1. i \in Used(tx) /\ tx.slots[i].kind \in FlightKinds
      BY <2>4, UsedKinds DEF Matching, WInv
    <3>2. tx.slots[i].kind # "Abort" => SlotOf("Abort") = {}
      <4>1. ASSUME NEW j \in SlotOf("Abort"), tx.slots[i].kind # "Abort" PROVE FALSE
        BY <3>1, <4>1 DEF SlotOf, WInv, TxCoherent
      <4> QED BY <4>1
    <3>3. CASE tx.slots[i].kind \in {"Data", "Start"}
      <4>1. ~WClosed(tx')
        BY <2>4, <3>3 DEF Freed, WClosed
      <4>2. SlotOf("Abort")' = {}
        BY <2>4, <3>2, <3>3 DEF Freed, SlotOf, Used
      <4>3. Status = "open" /\ Status' = "open"
        BY <1>t, <2>2, <3>2, <3>3, <4>1, <4>2, StatusValues, StatusAfter
      <4> QED BY <1>q, <2>2, <4>3
    <3>4. CASE tx.slots[i].kind = "Finish"
      <4>1. tx'.state = "Finished"
        BY <2>4, <3>4 DEF Freed
      <4>2. Status = "open" /\ Status' = "done"
        BY <1>t, <2>2, <3>2, <3>4, <4>1, StatusValues, StatusAfter
      <4>3. Len(delivered) = sent
        BY <2>2, <4>1 DEF WInv, RxInv
      <4> QED BY <2>2, <4>2, <4>3 DEF Service!Next, Service!Complete
    <3>5. CASE tx.slots[i].kind = "Abort"
      <4>1. Status' = "cancelled"
        BY <1>t, <2>4, <3>5, StatusAfter DEF Freed
      <4> QED BY <1>c, <2>2, <4>1
    <3> QED BY <3>1, <3>3, <3>4, <3>5 DEF FlightKinds
  <2> QED BY <1>0, <1>r, <2>1, <2>2, <2>3, <2>4, WControlFields
<1>10. CASE TxEmptyRead
  <2>1. /\ ~WClosed(tx) /\ tx.writing = 0 /\ tx' = WOnEmptyRead(tx)
        /\ sess' = sess /\ sent' = sent /\ delivered' = delivered
    BY <1>10 DEF TxEmptyRead, WReads, history
  <2>2. Retried(tx', tx)
    BY <1>0, <2>1, EmptyReadFields
  <2> QED BY <1>r, <2>1, <2>2
<1>11. CASE RxEmit
  <2>1. Head(rx.emit) \in Bytes
    BY <1>0, <1>11, RxFields DEF RxEmit
  <2> QED BY <1>11, <2>1, DeliversNext DEF RxEmit, WInv, RxInv
<1>12. CASE RxRead
  <2>1. Status' = Status
    BY <1>12 DEF RxRead, Status
  <2> QED BY <1>q, <1>12, <2>1 DEF RxRead, history
<1>13. CASE RxReply
  <2>1. PICK u : /\ u = WTakePending(rx)
                 /\ IF u.emit = <<>>
                      THEN rx' = u /\ delivered' = delivered
                      ELSE rx' = PopEmit(u) /\ delivered' = Append(delivered, Head(u.emit))
    BY <1>13 DEF RxReply
  <2>2. Status' = Status /\ tx' = tx /\ sess' = sess /\ sent' = sent
    BY <1>13 DEF RxReply, Status
  <2>3. u.emit # <<>> => Head(u.emit) \in Bytes
    BY <1>0, <2>1, WPendingFields, RxFields
  <2>4. CASE u.emit = <<>>
    BY <1>q, <2>1, <2>2, <2>4
  <2>5. CASE u.emit # <<>>
    BY <2>1, <2>2, <2>3, <2>5, DeliversNext DEF WInv, RxInv
  <2> QED BY <2>4, <2>5
<1>14. CASE UNCHANGED vars
  <2>1. Status' = Status
    BY <1>14 DEF vars, Status
  <2> QED BY <1>q, <1>14, <2>1 DEF vars, history
<1> QED BY <1>1, <1>2, <1>3, <1>4, <1>5, <1>6, <1>7, <1>8, <1>9, <1>10, <1>11, <1>12,
           <1>13, <1>14 DEF Next, TxPoll, RxPoll

(***************************************************************************)
(* The windowed link is the byte stream that the stop-and-wait link is:    *)
(* every behaviour of sender, wires and receiver, seen through Status, is  *)
(* one of ByteStream.                                                      *)
(***************************************************************************)
THEOREM Refinement ==
  ASSUME DrainedRestart = TRUE
  PROVE  Spec => ImplementsByteStream
<1>1. Spec => []WInv
  BY WindowInvariance
<1> QED BY <1>1, RefinesInit, RefinesStep, PTL DEF Spec, ImplementsByteStream, Service!Spec
=============================================================================
