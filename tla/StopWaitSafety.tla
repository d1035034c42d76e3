--------------------------- MODULE StopWaitSafety ---------------------------
(***************************************************************************)
(* Proofs about StopWait for every sequence modulus, retry policy and      *)
(* bound: type correctness; IInv is an invariant when sessions open on a   *)
(* drained line, with it InOrder, CloseIsComplete and AckedLead; and step  *)
(* by step StopWait implements ByteStream.                                 *)
(***************************************************************************)
EXTENDS StopWaitInv, HalvesProofs

-----------------------------------------------------------------------------
(* One frame more on a wire, or a hit on the line. *)
LEMMA TransmitType ==
  ASSUME NEW w \in Seq(Frame), NEW f \in Frame, NEW v,
         v \in {w, Append(w, f), Append(w, BadFrame)}
  PROVE  v \in Seq(Frame)
BY FrameType

LEMMA TypeInit == Init => TypeOK
<1> SUFFICES ASSUME Init PROVE TypeOK
  OBVIOUS
<1>1. TxInit \in TxType /\ ~TxInit.writing
  BY SeqTypes, FlightType DEF TxInit, TxType, TxStates
<1>2. RxInit \in RxType
  BY SeqTypes, NoReplyType DEF RxInit, RxType, FrameLen
<1>3. tx \in TxType /\ ~tx.writing /\ rx \in RxType
  BY <1>1, <1>2 DEF Init
<1> QED BY <1>3 DEF Init, TypeOK

(* The parts of TypeOK that the sender's, the receiver's and the wires'    *)
(* steps may disturb.                                                      *)
TxOK == tx \in TxType /\ (tx.writing => InFlight(tx))
RestOK == /\ fwd \in Seq(Frame) /\ back \in Seq(Frame)
          /\ sess \in Nat /\ sent \in Nat /\ acked \in Nat
          /\ delivered \in Seq([sess : Nat, pos : Nat])
          /\ faults \in Nat /\ aborts \in Nat

LEMMA TypeStep == TypeOK /\ [Next]_vars => TypeOK'
<1> SUFFICES ASSUME TypeOK, [Next]_vars PROVE TypeOK'
  OBVIOUS
<1>0. TxOK /\ rx \in RxType /\ RestOK
  BY DEF TypeOK, TxOK, RestOK
<1>q. TxOK' /\ rx' \in RxType /\ RestOK' => TypeOK'
  BY DEF TypeOK, TxOK, RestOK
<1>1. CASE AppStart
  <2>1. tx' = OfferStart(tx, sess + 1) /\ sess + 1 \in Nat /\ ~tx.writing
    BY <1>0, <1>1 DEF AppStart, CanOfferStart, RestOK
  <2>2. TxOK'
    BY <1>0, <2>1, TxOpsType, OfferStartFields DEF TxOK, InFlight
  <2> QED BY <1>0, <1>q, <1>1, <2>2 DEF AppStart, RestOK
<1>2. CASE AppOffer
  <2>1. tx' = Offer(tx, sess, sent + 1) /\ sent + 1 \in Nat
    BY <1>0, <1>2 DEF AppOffer, RestOK
  <2>2. TxOK'
    BY <1>0, <2>1, TxOpsType, OfferFields DEF TxOK, InFlight, RestOK
  <2> QED BY <1>0, <1>q, <1>2, <2>2 DEF AppOffer, RestOK
<1>3. CASE AppFinish
  <2>1. tx' = OfferFinish(tx, sess, sent + 1) /\ sent + 1 \in Nat
    BY <1>0, <1>3 DEF AppFinish, RestOK
  <2>2. TxOK'
    BY <1>0, <2>1, TxOpsType, OfferFinishFields DEF TxOK, InFlight, RestOK
  <2> QED BY <1>0, <1>q, <1>3, <2>2 DEF AppFinish, RestOK, history
<1>4. CASE AppAbort
  <2>1. tx' = OfferAbort(tx, sess, sent + 1) /\ sent + 1 \in Nat
    BY <1>0, <1>4 DEF AppAbort, RestOK
  <2>2. TxOK'
    BY <1>0, <2>1, TxOpsType, OfferAbortFields DEF TxOK, InFlight, RestOK
  <2>3. fwd' \in Seq(Frame)
    BY <1>0, <1>4, FrameType, FrameSeq DEF AppAbort, RestOK
  <2> QED BY <1>0, <1>q, <1>4, <2>2, <2>3 DEF AppAbort, RestOK, history
<1>5. CASE PeerAbort
  <2>1. MkFrame("Abort", 0, sess, 0) \in Frame
    BY <1>0, FrameType, SeqTypes DEF FrameTypes, RestOK
  <2>2. back' \in Seq(Frame)
    BY <1>0, <1>5, <2>1, FrameSeq DEF PeerAbort, RestOK
  <2> QED BY <1>0, <1>q, <1>5, <2>2 DEF PeerAbort, RestOK, TxOK, InFlight, history
<1>6. CASE TxBeginWrite
  <2>1. TxOK'
    BY <1>0, <1>6, TxOpsType, WriteFields
       DEF TxBeginWrite, TxOK, InFlight, WantsWrite, SameFlight
  <2> QED BY <1>0, <1>q, <1>6, <2>1 DEF TxBeginWrite, RestOK, history
<1>7. CASE TxEndWrite
  <2>1. FlightFrame(tx) \in Frame
    <3>1. tx.flight \in Flight /\ tx.flight.kind # "None"
      BY <1>0, <1>7 DEF TxOK, TxEndWrite, InFlight, TxType
    <3>2. /\ tx.flight.kind \in FrameTypes /\ tx.flight.seq \in Seqs
          /\ tx.flight.sess \in Nat /\ tx.flight.pos \in Nat
      BY <3>1 DEF Flight, FlightKinds, FrameTypes
    <3> QED BY <3>2, FrameType DEF FlightFrame
  <2>2. TxOK'
    BY <1>0, <1>7, TxOpsType, WriteFields
       DEF TxEndWrite, TxOK, InFlight, SameFlight
  <2>3. fwd' \in Seq(Frame) /\ faults' \in Nat
    BY <1>0, <1>7, <2>1, TransmitType DEF TxEndWrite, Transmit, RestOK
  <2> QED BY <1>0, <1>q, <1>7, <2>2, <2>3 DEF TxEndWrite, RestOK, history
<1>8. CASE TxRead
  <2>1. Head(back) \in Frame /\ back' \in Seq(Frame) /\ acked' \in Nat
    BY <1>0, <1>8, FrameSeq DEF TxRead, RestOK
  <2>2. tx' = OnControl(tx, Head(back)) /\ Waits(tx) /\ ~tx.writing
    BY <1>8 DEF TxRead, Waits
  <2>3. tx' \in TxType
    BY <1>0, <2>1, <2>2, TxOpsType DEF TxOK
  <2>4. ~tx'.writing
    BY <1>0, <2>1, <2>2, ControlFields, ForceAbortFields, AckFields DEF TxOK
  <2> QED BY <1>0, <1>q, <1>8, <2>1, <2>3, <2>4 DEF TxRead, RestOK, TxOK
<1>9. CASE TxEmptyRead
  <2>1. tx' = OnEmptyRead(tx) /\ Waits(tx) /\ ~tx.writing
    BY <1>9 DEF TxEmptyRead, Waits
  <2>2. tx' \in TxType
    BY <1>0, <2>1, TxOpsType DEF TxOK
  <2>3. ~tx'.writing
    BY <1>0, <2>1, AttemptFields DEF TxOK
  <2> QED BY <1>0, <1>q, <1>9, <2>2, <2>3 DEF TxEmptyRead, RestOK, TxOK, history
<1>10. CASE RxRead
  <2>1. Head(fwd) \in Frame /\ fwd' \in Seq(Frame)
    BY <1>0, <1>10, FrameSeq DEF RxRead, RestOK
  <2>2. rx' \in RxType
    BY <1>0, <1>10, <2>1, RxOpsType DEF RxRead
  <2> QED BY <1>0, <1>q, <1>10, <2>1, <2>2 DEF RxRead, RestOK, TxOK, InFlight, history
<1>11. CASE RxReply
  <2>1. rx.reply \in Frame
    BY <1>0 DEF RxType
  <2>2. rx' \in RxType
    BY <1>0, <1>11, RxOpsType DEF RxReply
  <2>3. back' \in Seq(Frame) /\ faults' \in Nat
    BY <1>0, <1>11, <2>1, TransmitType DEF RxReply, Transmit, RestOK
  <2>4. delivered' \in Seq([sess : Nat, pos : Nat])
    <3>1. [sess |-> rx.reply.sess, pos |-> rx.reply.pos] \in [sess : Nat, pos : Nat]
      BY <2>1, FrameFields
    <3>2. CASE rx.action = "Deliver"
      BY <1>0, <1>11, <3>1, <3>2 DEF RxReply, RestOK
    <3>3. CASE rx.action # "Deliver"
      BY <1>0, <1>11, <3>3 DEF RxReply, RestOK
    <3> QED BY <3>2, <3>3
  <2> QED BY <1>0, <1>q, <1>11, <2>2, <2>3, <2>4 DEF RxReply, RestOK, TxOK, InFlight
<1>12. CASE UNCHANGED vars
  BY <1>12 DEF vars, history, TypeOK, InFlight
<1> QED BY <1>1, <1>2, <1>3, <1>4, <1>5, <1>6, <1>7, <1>8, <1>9, <1>10, <1>11,
           <1>12 DEF Next, TxPoll, RxPoll

(* Sender, receiver, wires and histories keep their types: no handler of   *)
(* tx.rs or rx.rs leaves the state space, for every policy and modulus.    *)
THEOREM TypeCorrect == Spec => []TypeOK
BY TypeInit, TypeStep, PTL DEF Spec

-----------------------------------------------------------------------------
(* The types of the pieces the invariant speaks of. *)
LEMMA Pieces ==
  ASSUME TypeOK
  PROVE  /\ tx \in TxType /\ rx \in RxType
         /\ n \in Nat /\ sent \in Nat /\ acked \in Nat /\ sess \in Nat
         /\ rx.reply \in Frame
         /\ tx.seq \in Seqs /\ tx.flight.seq \in Seqs /\ rx.expected \in Seqs
         /\ rx.finish_seq \in Seqs \cup {NoSeq}
         /\ Len(fwd) \in Nat /\ Len(back) \in Nat
         /\ \A k \in 1 .. Len(fwd) : fwd[k] \in Frame
         /\ \A k \in 1 .. Len(back) : back[k] \in Frame
<1>1. n \in Nat
  BY DEF TypeOK, n
<1>2. tx.seq \in Seqs /\ tx.flight.seq \in Seqs
  BY DEF TypeOK, TxType, Flight
<1>3. rx.expected \in Seqs /\ rx.reply \in Frame /\ rx.finish_seq \in Seqs \cup {NoSeq}
  BY DEF TypeOK, RxType
<1>4. /\ Len(fwd) \in Nat /\ Len(back) \in Nat
      /\ \A k \in 1 .. Len(fwd) : fwd[k] \in Frame
      /\ \A k \in 1 .. Len(back) : back[k] \in Frame
  BY DEF TypeOK
<1> QED BY <1>1, <1>2, <1>3, <1>4 DEF TypeOK

(* The sender and the receiver are never more than two positions apart. *)
LEMMA Near ==
  ASSUME IInv
  PROVE  /\ n \in Nat /\ sent \in Nat /\ acked \in Nat
         /\ n <= sent /\ acked <= sent /\ sent <= acked + 1
         /\ acked <= n + 1 /\ sent <= n + 2
         /\ n # 0 => acked <= n
         /\ Taken \in Nat /\ n <= Taken /\ Taken <= n + 1 /\ Taken <= sent
         /\ rx.action # "Deliver" => Taken = n
<1>1. n \in Nat /\ sent \in Nat /\ acked \in Nat
  BY Pieces DEF IInv
<1>2. n <= sent /\ acked <= sent /\ sent <= acked + 1
  BY DEF IInv, Counts, InOrder, n
<1>3. acked <= n \/ (acked = 1 /\ n = 0)
  BY DEF IInv, Counts, AckedLead, n
<1>4. rx.action = "Deliver" => n + 1 <= sent
  BY DEF IInv, RxCoherent
<1> QED BY <1>1, <1>2, <1>3, <1>4 DEF Taken

(* A wire that carries the same frames, or loses its first, keeps FwdInv   *)
(* when each frame keeps its own condition.                                *)
LEMMA FwdKeeps ==
  ASSUME TypeOK, FwdInv, fwd' = fwd \/ (fwd # <<>> /\ fwd' = Tail(fwd)),
         \A f \in Frame, k \in 1 .. Len(fwd) :
            f = fwd[k] /\ (fwd' = fwd \/ k > 1) => FwdFrame(f)'
  PROVE  FwdInv'
<1> DEFINE D == 1 .. Len(fwd)
           L(k) == fwd[k].type \in Ordered
<1>1. \A j, k \in D : j < k /\ L(j) /\ L(k) => fwd[j].pos <= fwd[k].pos
  BY DEF FwdInv
<1>2. CASE fwd' = fwd
  <2>1. \A k \in 1 .. Len(fwd') : fwd[k] \in Frame /\ fwd'[k] = fwd[k]
    BY <1>2, Pieces
  <2>2. \A k \in 1 .. Len(fwd') : FwdFrame(fwd[k])'
    BY <1>2, <2>1
  <2> QED BY <1>1, <1>2, <2>1, <2>2 DEF FwdInv
<1>3. CASE fwd # <<>> /\ fwd' = Tail(fwd) /\ fwd' # fwd
  <2>1. /\ Len(fwd) \in Nat /\ Len(fwd') = Len(fwd) - 1
        /\ \A k \in 1 .. Len(fwd') : k + 1 \in D /\ fwd'[k] = fwd[k + 1]
    BY <1>3, TailFacts DEF TypeOK
  <2>2. \A k \in 1 .. Len(fwd') : k + 1 > 1 /\ fwd'[k] \in Frame
    BY <2>1, Pieces
  <2>3. \A k \in 1 .. Len(fwd') : FwdFrame(fwd[k])'
    BY <2>1, <2>2
  <2>4. ASSUME NEW j \in 1 .. Len(fwd'), NEW k \in 1 .. Len(fwd'), j < k,
               fwd'[j].type \in Ordered, fwd'[k].type \in Ordered
        PROVE  fwd'[j].pos <= fwd'[k].pos
    <3>1. j + 1 \in D /\ k + 1 \in D /\ j + 1 < k + 1
      BY <2>1, <2>4
    <3>2. fwd'[j] = fwd[j + 1] /\ fwd'[k] = fwd[k + 1]
      BY <2>1
    <3> HIDE DEF D
    <3> QED BY <1>1, <2>4, <3>1, <3>2
  <2>5. Ordered' = Ordered
    BY DEF Ordered
  <2> QED BY <2>3, <2>4, <2>5 DEF FwdInv
<1> QED BY <1>2, <1>3

(* The same for a frame more at the end, which must not be out of order. *)
LEMMA FwdGrows ==
  ASSUME TypeOK, FwdInv, NEW g \in Frame, fwd' = Append(fwd, g),
         \A f \in Frame : FwdFrame(f) => FwdFrame(f)',
         FwdFrame(g)',
         g.type \in Ordered =>
           \A k \in 1 .. Len(fwd) : fwd[k].type \in Ordered => fwd[k].pos <= g.pos
  PROVE  FwdInv'
<1> DEFINE l == Len(fwd)
<1>1. /\ l \in Nat /\ Len(fwd') = l + 1 /\ fwd'[l + 1] = g
      /\ \A k \in 1 .. l : fwd'[k] = fwd[k] /\ fwd[k] \in Frame
  BY AppendFacts, Pieces DEF TypeOK
<1>2. \A k \in 1 .. Len(fwd') : k \in 1 .. l \/ k = l + 1
  BY <1>1
<1>3. \A k \in 1 .. l : FwdFrame(fwd[k])
  BY DEF FwdInv
<1>4. ASSUME NEW k \in 1 .. Len(fwd')
      PROVE  FwdFrame(fwd[k])'
  BY <1>1, <1>2, <1>3
<1>5. ASSUME NEW j \in 1 .. Len(fwd'), NEW k \in 1 .. Len(fwd'), j < k,
             fwd'[j].type \in Ordered, fwd'[k].type \in Ordered
      PROVE  fwd'[j].pos <= fwd'[k].pos
  <2>1. j \in 1 .. l /\ fwd'[j] = fwd[j]
    BY <1>1, <1>2, <1>5
  <2>2. CASE k = l + 1
    BY <1>1, <1>5, <2>1, <2>2
  <2>3. CASE k \in 1 .. l
    <3>1. fwd'[k] = fwd[k]
      BY <1>1, <2>3
    <3> QED BY <1>5, <2>1, <2>3, <3>1 DEF FwdInv
  <2> QED BY <1>2, <2>2, <2>3
<1>6. Ordered' = Ordered
  BY DEF Ordered
<1> QED BY <1>4, <1>5, <1>6 DEF FwdInv

(* Likewise for the wire back and the reply that is being written to it. *)
LEMMA BackKeeps ==
  ASSUME TypeOK, BackInv, Active' => Active,
         back' = back \/ (back # <<>> /\ back' = Tail(back)),
         Active' => \A a \in Frame, k \in 1 .. Len(back) :
            a = back[k] /\ a.type = "Ack" /\ (back' = back \/ k > 1) =>
              /\ AckFrame(a)'
              /\ a.pos \in 1 .. sent' => a.pos <= n'
              /\ Replying(rx') /\ rx'.reply.type = "Ack" => a.pos <= rx'.reply.pos,
         Active' /\ Replying(rx') /\ rx'.reply.type = "Ack" => AckFrame(rx.reply)'
  PROVE  BackInv'
<1> SUFFICES ASSUME Active' PROVE BackInv'
  BY DEF BackInv
<1> DEFINE D == 1 .. Len(back)
           W == 1 .. Len(back')
<1>1. \A j, k \in D : j < k /\ back[j].type = "Ack" /\ back[k].type = "Ack"
                        => back[j].pos <= back[k].pos
  BY DEF BackInv
<1>2. PICK d \in {0, 1} :
        /\ \A k \in W : k + d \in D /\ back'[k] = back[k + d] /\ back[k + d] \in Frame
        /\ d = 0 => back' = back
  <2>1. CASE back' = back
    BY <2>1, Pieces
  <2>2. CASE back # <<>> /\ back' = Tail(back)
    BY <2>2, TailFacts, Pieces DEF TypeOK
  <2> QED BY <2>1, <2>2
<1>3. \A k \in W : d = 0 \/ k + d > 1
  BY <1>2
<1>4. ASSUME NEW k \in W, back'[k].type = "Ack"
      PROVE  /\ AckFrame(back[k])'
             /\ back'[k].pos \in 1 .. sent' => back'[k].pos <= n'
             /\ Replying(rx') /\ rx'.reply.type = "Ack" => back'[k].pos <= rx'.reply.pos
  BY <1>2, <1>3, <1>4
<1>5. ASSUME NEW j \in W, NEW k \in W, j < k,
             back'[j].type = "Ack", back'[k].type = "Ack"
      PROVE  back'[j].pos <= back'[k].pos
  <2>1. j + d \in D /\ k + d \in D /\ j + d < k + d
    BY <1>2, <1>5
  <2>2. back'[j] = back[j + d] /\ back'[k] = back[k + d]
    BY <1>2
  <2> HIDE DEF D
  <2> QED BY <1>1, <1>5, <2>1, <2>2
<1>6. Replying(rx)' <=> Replying(rx')
  BY DEF Replying
<1> QED BY <1>4, <1>5, <1>6 DEF BackInv

LEMMA BackGrows ==
  ASSUME TypeOK, BackInv, Active' => Active,
         NEW g \in Frame, back' = Append(back, g),
         Active' => \A a \in Frame, k \in 1 .. Len(back) :
            a = back[k] /\ a.type = "Ack" =>
              /\ AckFrame(a)'
              /\ a.pos \in 1 .. sent' => a.pos <= n'
              /\ Replying(rx') /\ rx'.reply.type = "Ack" => a.pos <= rx'.reply.pos
              /\ g.type = "Ack" => a.pos <= g.pos,
         Active' /\ g.type = "Ack" =>
            AckFrame(g)' /\ (g.pos \in 1 .. sent' => g.pos <= n') /\ ~Replying(rx'),
         Active' /\ Replying(rx') /\ rx'.reply.type = "Ack" => AckFrame(rx.reply)'
  PROVE  BackInv'
<1> SUFFICES ASSUME Active' PROVE BackInv'
  BY DEF BackInv
<1> DEFINE l == Len(back)
           W == 1 .. Len(back')
<1>1. /\ l \in Nat /\ Len(back') = l + 1 /\ back'[l + 1] = g
      /\ \A k \in 1 .. l : back'[k] = back[k] /\ back[k] \in Frame
  BY AppendFacts, Pieces DEF TypeOK
<1>2. \A k \in W : k \in 1 .. l \/ k = l + 1
  BY <1>1
<1>4. ASSUME NEW k \in W, back'[k].type = "Ack"
      PROVE  /\ AckFrame(back[k])'
             /\ back'[k].pos \in 1 .. sent' => back'[k].pos <= n'
             /\ Replying(rx') /\ rx'.reply.type = "Ack" => back'[k].pos <= rx'.reply.pos
  <2>1. CASE k = l + 1
    BY <1>1, <1>4, <2>1
  <2>2. CASE k \in 1 .. l
    BY <1>1, <1>4, <2>2
  <2> QED BY <1>2, <2>1, <2>2
<1>5. ASSUME NEW j \in W, NEW k \in W, j < k,
             back'[j].type = "Ack", back'[k].type = "Ack"
      PROVE  back'[j].pos <= back'[k].pos
  <2>1. j \in 1 .. l /\ back'[j] = back[j] /\ back[j] \in Frame
    BY <1>1, <1>2, <1>5
  <2>2. CASE k = l + 1
    BY <1>1, <1>5, <2>1, <2>2
  <2>3. CASE k \in 1 .. l
    <3>1. back'[k] = back[k]
      BY <1>1, <2>3
    <3> QED BY <1>5, <2>1, <2>3, <3>1 DEF BackInv
  <2> QED BY <1>2, <2>2, <2>3
<1>6. Replying(rx)' <=> Replying(rx')
  BY DEF Replying
<1> QED BY <1>4, <1>5, <1>6 DEF BackInv

-----------------------------------------------------------------------------
(* Steps of the sender that neither start nor acknowledge a byte: the      *)
(* flight stays the same, or the session is over for the sender.           *)
LEMMA SenderStep ==
  ASSUME IInv, TypeOK', UNCHANGED <<rx, history>>,
         back' = back \/ (back # <<>> /\ back' = Tail(back)),
         Active' => Active /\ SameFlight(tx', tx),
         tx'.state = "Finished" => n = sent
  PROVE  /\ Counts' /\ BackInv' /\ RxCoherent'
         /\ \A f \in Frame : FwdFrame(f) => FwdFrame(f)'
<1>0. /\ sess' = sess /\ sent' = sent /\ acked' = acked /\ delivered' = delivered
      /\ rx' = rx /\ n' = n /\ Taken' = Taken
  BY DEF history, n, Taken
<1>1. /\ Active' => /\ Active /\ tx'.flight.kind = tx.flight.kind
                    /\ tx'.seq = tx.seq /\ tx'.flight.seq = tx.flight.seq
                    /\ tx'.flight.pos = tx.flight.pos
      /\ Opening' => Opening /\ Active'
      /\ Streaming' => Streaming /\ Active'
  BY DEF SameFlight, Opening, Streaming
<1>2. Counts'
  <2>1. Counts
    BY DEF IInv
  <2>2. InOrder' /\ AckedLead'
    BY <1>0, <2>1 DEF Counts, InOrder, AckedLead
  <2> QED BY <1>0, <1>1, <2>1, <2>2 DEF Counts
<1>3. RxCoherent'
  <2>1. RxCoherent
    BY DEF IInv
  <2> QED BY <1>0, <1>1, <2>1 DEF RxCoherent, IsFinished, IsClosed
<1>4. \A f \in Frame : FwdFrame(f) => FwdFrame(f)'
  BY <1>0, <1>1 DEF FwdFrame, IsFinished, Ordered
<1>5. \A a \in Frame : Active' /\ AckFrame(a) => AckFrame(a)'
  BY <1>0, <1>1 DEF AckFrame, IsFinished, IsClosed
<1>6. BackInv'
  <2>1. Active' => \A a \in Frame, k \in 1 .. Len(back) :
          a = back[k] /\ a.type = "Ack" =>
            /\ AckFrame(a)'
            /\ a.pos \in 1 .. sent => a.pos <= n
            /\ Replying(rx) /\ rx.reply.type = "Ack" => a.pos <= rx.reply.pos
    BY <1>1, <1>5 DEF IInv, BackInv
  <2>2. Active' /\ Replying(rx) /\ rx.reply.type = "Ack" => AckFrame(rx.reply)'
    BY <1>0, <1>1, <1>5, Pieces DEF IInv, BackInv
  <2> QED BY <1>0, <1>1, <2>1, <2>2, BackKeeps DEF IInv
<1> QED BY <1>2, <1>3, <1>4, <1>6

LEMMA StepAppStart ==
  ASSUME IInv, TypeOK', DrainedRestart = TRUE, AppStart
  PROVE  IInv'
<1>1. /\ tx'.state = "Sending" /\ ~tx'.writing /\ tx'.flight.kind = "Start"
      /\ tx'.flight.seq = 0 /\ tx'.flight.sess = sess' /\ tx'.flight.pos = 0
  BY Pieces, OfferStartFields, ZenonT(40) DEF IInv, AppStart, CanOfferStart
<1>2. /\ fwd' = <<>> /\ back' = <<>> /\ rx' = rx /\ rx.action = "None"
      /\ sent' = 0 /\ acked' = 0 /\ delivered' = <<>> /\ n' = 0
  BY DEF AppStart, Drained, Replying, n
<1>3. Opening' /\ ~Streaming' /\ Active'
  BY <1>1 DEF Opening, Streaming, Active
<1>4. TxCoherent'
  BY <1>1 DEF TxCoherent
<1>5. Counts'
  BY <1>1, <1>2, <1>3 DEF Counts, InOrder, AckedLead
<1>6. FwdInv' /\ BackInv'
  BY <1>2 DEF FwdInv, BackInv, Replying
<1>7. RxCoherent'
  BY <1>1, <1>2, <1>3 DEF RxCoherent
<1> QED BY <1>4, <1>5, <1>6, <1>7 DEF IInv

(* An idle sender in a session: no FINISH or ABORT is under way. *)
LEMMA IdleSender ==
  ASSUME IInv, CanOfferData(tx)
  PROVE  /\ Active /\ Streaming /\ tx.flight.kind = "None" /\ ~tx.writing
         /\ sent = acked /\ tx.seq = acked % SeqMod
         /\ ~IsFinished(rx) /\ ~rx.abort_latched /\ rx.expected = n % SeqMod
         /\ \A f \in Frame : FwdFrame(f) => f.type \notin {"Finish", "Abort"}
         /\ \A a \in Frame : AckFrame(a) => a.pos <= sent
<1>1. Active /\ Streaming /\ tx.flight.kind = "None" /\ ~tx.writing
  BY DEF CanOfferData, InFlight, Active, Streaming
<1>2. sent = acked /\ tx.seq = acked % SeqMod
  BY <1>1 DEF IInv, Counts
<1>3. ~IsFinished(rx) /\ ~rx.abort_latched /\ rx.expected = n % SeqMod
  BY <1>1 DEF IInv, RxCoherent
<1>4. \A f \in Frame : FwdFrame(f) => f.type \notin {"Finish", "Abort"}
  BY <1>1 DEF FwdFrame
<1>5. \A a \in Frame : AckFrame(a) => a.pos <= sent
  BY <1>1, FrameFields, Pieces DEF AckFrame, IInv
<1> QED BY <1>1, <1>2, <1>3, <1>4, <1>5

LEMMA StepAppOffer ==
  ASSUME IInv, TypeOK', AppOffer
  PROVE  IInv'
<1>0. CanOfferData(tx)
  BY DEF AppOffer
<1>1. /\ tx'.state = "Sending" /\ ~tx'.writing /\ tx'.flight.kind = "Data"
      /\ tx'.flight.seq = tx.seq /\ tx'.flight.sess = sess /\ tx'.flight.pos = sent + 1
      /\ tx'.seq = tx.seq
  <2>1. tx' = Offer(tx, sess, sent + 1) /\ tx \in TxType /\ ~tx.writing
    BY <1>0, IdleSender, Pieces DEF IInv, AppOffer
  <2>2. tx'.writing = tx.writing
    BY <2>1 DEF Offer, Begin, TxType
  <2>3. ~tx'.writing
    BY <2>1, <2>2
  <2> QED BY <2>1, <2>3 DEF Offer, Begin, TxType
<1>2. /\ fwd' = fwd /\ back' = back /\ rx' = rx /\ sess' = sess
      /\ sent' = sent + 1 /\ acked' = acked /\ delivered' = delivered
      /\ n' = n /\ Taken' = Taken
  BY DEF AppOffer, n, Taken
<1>3. ~Opening' /\ Streaming' /\ Active'
  BY <1>1 DEF Opening, Streaming, Active
<1>4. TxCoherent'
  BY <1>1, <1>2 DEF TxCoherent
<1>5. Counts'
  BY <1>0, <1>1, <1>2, <1>3, IdleSender, Near DEF IInv, Counts, InOrder, AckedLead
<1>6. \A f \in Frame : FwdFrame(f) => FwdFrame(f)'
  BY <1>0, <1>1, <1>2, <1>3, IdleSender, Near, FrameFields
     DEF FwdFrame, IsFinished, Ordered
<1>7. FwdInv'
  BY <1>2, <1>6, FwdKeeps, Pieces DEF IInv, FwdInv
<1>8. \A a \in Frame : AckFrame(a) =>
        AckFrame(a)' /\ (a.pos \in 1 .. sent' => a.pos \in 1 .. sent)
  BY <1>0, <1>1, <1>2, <1>3, IdleSender, Near, FrameFields
     DEF AckFrame, IsFinished, IsClosed
<1>9. BackInv'
  <2>1. \A a \in Frame, k \in 1 .. Len(back) : a = back[k] /\ a.type = "Ack" =>
            /\ AckFrame(a)'
            /\ a.pos \in 1 .. sent' => a.pos <= n
            /\ Replying(rx) /\ rx.reply.type = "Ack" => a.pos <= rx.reply.pos
    BY <1>0, <1>8, IdleSender DEF IInv, BackInv
  <2>2. Replying(rx) /\ rx.reply.type = "Ack" => AckFrame(rx.reply)'
    BY <1>0, <1>2, <1>8, IdleSender, Pieces DEF IInv, BackInv
  <2> QED BY <1>0, <1>2, <2>1, <2>2, IdleSender, BackKeeps DEF IInv
<1>10. RxCoherent'
  BY <1>0, <1>1, <1>2, <1>3, IdleSender, Near DEF IInv, RxCoherent, IsFinished, IsClosed
<1> QED BY <1>4, <1>5, <1>7, <1>9, <1>10 DEF IInv

LEMMA StepAppFinish ==
  ASSUME IInv, TypeOK', AppFinish
  PROVE  IInv'
<1>0. CanOfferData(tx)
  BY DEF AppFinish
<1>1. /\ tx'.state = "Sending" /\ ~tx'.writing /\ tx'.flight.kind = "Finish"
      /\ tx'.flight.seq = tx.seq /\ tx'.flight.sess = sess /\ tx'.flight.pos = sent + 1
      /\ tx'.seq = tx.seq
  <2>1. tx' = OfferFinish(tx, sess, sent + 1) /\ tx \in TxType /\ ~tx.writing
    BY <1>0, IdleSender, Pieces DEF IInv, AppFinish
  <2>2. tx'.writing = tx.writing
    BY <2>1 DEF OfferFinish, Begin, TxType
  <2>3. ~tx'.writing
    BY <2>1, <2>2
  <2> QED BY <2>1, <2>3 DEF OfferFinish, Begin, TxType
<1>2. /\ fwd' = fwd /\ back' = back /\ rx' = rx /\ sess' = sess
      /\ sent' = sent /\ acked' = acked /\ delivered' = delivered
      /\ n' = n /\ Taken' = Taken
  BY DEF AppFinish, n, Taken, history
<1>3. ~Opening' /\ Streaming' /\ Active'
  BY <1>1 DEF Opening, Streaming, Active
<1>4. TxCoherent'
  BY <1>1, <1>2 DEF TxCoherent
<1>5. Counts'
  BY <1>0, <1>1, <1>2, <1>3, IdleSender DEF IInv, Counts, InOrder, AckedLead
<1>6. \A f \in Frame : FwdFrame(f) => FwdFrame(f)'
  BY <1>0, <1>1, <1>2, <1>3, IdleSender DEF FwdFrame, IsFinished, Ordered
<1>7. FwdInv'
  BY <1>2, <1>6, FwdKeeps, Pieces DEF IInv, FwdInv
<1>8. \A a \in Frame : AckFrame(a) => AckFrame(a)'
  BY <1>0, <1>1, <1>2, <1>3, IdleSender, Near, FrameFields
     DEF AckFrame, IsFinished, IsClosed
<1>9. BackInv'
  <2>1. \A a \in Frame, k \in 1 .. Len(back) : a = back[k] /\ a.type = "Ack" =>
            /\ AckFrame(a)'
            /\ a.pos \in 1 .. sent => a.pos <= n
            /\ Replying(rx) /\ rx.reply.type = "Ack" => a.pos <= rx.reply.pos
    BY <1>0, <1>8, IdleSender DEF IInv, BackInv
  <2>2. Replying(rx) /\ rx.reply.type = "Ack" => AckFrame(rx.reply)'
    BY <1>0, <1>2, <1>8, IdleSender, Pieces DEF IInv, BackInv
  <2> QED BY <1>0, <1>2, <2>1, <2>2, IdleSender, BackKeeps DEF IInv
<1>10. RxCoherent'
  BY <1>0, <1>1, <1>2, <1>3, IdleSender DEF IInv, RxCoherent, IsFinished, IsClosed
<1> QED BY <1>4, <1>5, <1>7, <1>9, <1>10 DEF IInv

LEMMA StepAppAbort ==
  ASSUME IInv, TypeOK', AppAbort
  PROVE  IInv'
<1>1. /\ tx'.state = "Sending" /\ tx'.flight.kind = "Abort"
      /\ tx'.flight.seq = 0 /\ tx'.flight.sess = sess /\ tx'.flight.pos = sent + 1
  <2>1. tx' = OfferAbort(tx, sess, sent + 1) /\ tx \in TxType
    BY Pieces DEF IInv, AppAbort
  <2> QED BY <2>1 DEF OfferAbort, Begin, TxType
<1>2. ~tx'.writing
  <2>1. tx' = OfferAbort(tx, sess, sent + 1) /\ tx \in TxType
    BY Pieces DEF IInv, AppAbort
  <2> QED BY <2>1 DEF OfferAbort, Begin, TxType
<1>3. UNCHANGED <<rx, history>> /\ back' = back /\ ~Active' /\ sent' = sent /\ sess' = sess
  BY <1>1 DEF AppAbort, Active, history
<1>4. TxCoherent'
  BY <1>1, <1>2, <1>3 DEF TxCoherent
<1>5. /\ Counts' /\ BackInv' /\ RxCoherent'
      /\ \A f \in Frame : FwdFrame(f) => FwdFrame(f)'
  BY <1>1, <1>3, SenderStep
<1>6. FwdInv'
  <2>1. CASE fwd' = fwd
    BY <1>5, <2>1, FwdKeeps, Pieces DEF IInv, FwdInv
  <2>2. ASSUME NEW m \in 1 .. FrameLen - 1, fwd' = Append(fwd, TornFrame(m))
        PROVE  FwdInv'
    <3> DEFINE g == TornFrame(m)
    <3>1. g \in Frame /\ g.type = "Torn" /\ g.seq = m
      BY FrameType DEF TornFrame, MkFrame
    <3>2. FwdFrame(g)' /\ g.type \notin Ordered
      BY <3>1 DEF FwdFrame, Ordered
    <3> HIDE DEF g
    <3> QED BY <1>5, <2>2, <3>1, <3>2, FwdGrows DEF IInv, g
  <2> QED BY <2>1, <2>2 DEF AppAbort
<1> QED BY <1>4, <1>5, <1>6 DEF IInv

LEMMA StepPeerAbort ==
  ASSUME IInv, TypeOK', PeerAbort
  PROVE  IInv'
<1> DEFINE g == MkFrame("Abort", 0, sess, 0)
<1>1. /\ UNCHANGED <<rx, history>> /\ back' = Append(back, g) /\ fwd' = fwd /\ tx' = tx
      /\ sess' = sess /\ sent' = sent /\ acked' = acked /\ delivered' = delivered
      /\ rx' = rx /\ n' = n /\ Taken' = Taken
  BY DEF PeerAbort, history, n, Taken
<1>2. g \in Frame /\ g.type = "Abort"
  BY FrameType, SeqTypes, Pieces DEF FrameTypes, MkFrame, IInv
<1>3. Active' = Active /\ Streaming' = Streaming /\ Opening' = Opening
  BY <1>1 DEF Active, Streaming, Opening
<1>4. TxCoherent' /\ Counts' /\ RxCoherent'
  BY <1>1, <1>3 DEF IInv, TxCoherent, Counts, RxCoherent, InOrder, AckedLead,
                    IsFinished, IsClosed
<1>5. \A f \in Frame : FwdFrame(f) => FwdFrame(f)'
  BY <1>1, <1>3 DEF FwdFrame, Ordered, IsFinished
<1>6. FwdInv'
  BY <1>1, <1>5, FwdKeeps, Pieces DEF IInv, FwdInv
<1>7. \A a \in Frame : AckFrame(a) => AckFrame(a)'
  BY <1>1, <1>3 DEF AckFrame, IsFinished, IsClosed
<1>8. BackInv'
  <2> HIDE DEF g
  <2>1. Active' => \A a \in Frame, k \in 1 .. Len(back) :
          a = back[k] /\ a.type = "Ack" =>
            /\ AckFrame(a)'
            /\ a.pos \in 1 .. sent' => a.pos <= n'
            /\ Replying(rx') /\ rx'.reply.type = "Ack" => a.pos <= rx'.reply.pos
            /\ g.type = "Ack" => a.pos <= g.pos
    BY <1>1, <1>2, <1>3, <1>7 DEF IInv, BackInv
  <2>2. Active' /\ Replying(rx') /\ rx'.reply.type = "Ack" => AckFrame(rx.reply)'
    BY <1>1, <1>3, <1>7, Pieces DEF IInv, BackInv
  <2>3. g.type # "Ack"
    BY <1>2
  <2> QED BY <1>1, <1>2, <1>3, <2>1, <2>2, <2>3, BackGrows DEF IInv
<1> QED BY <1>4, <1>6, <1>8 DEF IInv

-----------------------------------------------------------------------------
(* Sender::poll. *)

Terminal == {"Finished", "Aborted", "Failed"}

(* A sender with a flight in its hands is in no terminal state. *)
LEMMA Airborne ==
  ASSUME IInv, InFlight(tx)
  PROVE  /\ tx.state \notin Terminal \cup {"Idle"}
         /\ Active <=> tx.flight.kind # "Abort"
         /\ tx.flight.kind \in FlightKinds
BY Pieces DEF IInv, TxCoherent, InFlight, Active, Terminal, TxType, Flight

(* The flight goes on. *)
LEMMA QuietStep ==
  ASSUME IInv, TypeOK', InFlight(tx), UNCHANGED <<rx, history>>,
         back' = back \/ (back # <<>> /\ back' = Tail(back)),
         SameFlight(tx', tx), tx'.state \notin Terminal \cup {"Idle"},
         tx'.writing => ~tx'.flight.waiting
  PROVE  /\ TxCoherent' /\ Counts' /\ BackInv' /\ RxCoherent'
         /\ \A f \in Frame : FwdFrame(f) => FwdFrame(f)'
<1>1. Active' => Active
  BY Airborne DEF SameFlight, Active
<1>2. /\ Counts' /\ BackInv' /\ RxCoherent'
      /\ \A f \in Frame : FwdFrame(f) => FwdFrame(f)'
  BY <1>1, SenderStep DEF Terminal
<1>3. TxCoherent'
  BY DEF IInv, TxCoherent, SameFlight, InFlight, Terminal, history
<1> QED BY <1>2, <1>3

(* The flight ends without a byte acknowledged. *)
LEMMA EndStep ==
  ASSUME IInv, TypeOK', UNCHANGED <<rx, history, fwd>>,
         back' = back \/ (back # <<>> /\ back' = Tail(back)),
         tx'.flight.kind = "None", tx'.state \in Terminal, ~tx'.writing,
         tx'.state = "Finished" => n = sent
  PROVE  IInv'
<1>1. ~Active'
  BY DEF Active, Terminal
<1>2. /\ Counts' /\ BackInv' /\ RxCoherent'
      /\ \A f \in Frame : FwdFrame(f) => FwdFrame(f)'
  BY <1>1, SenderStep
<1>3. TxCoherent'
  BY DEF TxCoherent, Terminal
<1>4. FwdInv'
  BY <1>2, FwdKeeps, Pieces DEF IInv, FwdInv
<1> QED BY <1>2, <1>3, <1>4 DEF IInv

LEMMA StepTxBeginWrite ==
  ASSUME IInv, TypeOK', TxBeginWrite
  PROVE  IInv'
<1>1. /\ SameFlight(tx', tx) /\ tx'.state = "Sending"
      /\ tx'.flight.waiting = tx.flight.waiting
  BY WriteFields, Pieces DEF TxBeginWrite, IInv
<1>2. InFlight(tx) /\ ~tx.flight.waiting /\ UNCHANGED <<rx, history, fwd, back>>
  BY DEF TxBeginWrite, WantsWrite
<1>3. ~tx'.flight.waiting
  BY <1>1, <1>2
<1>4. /\ TxCoherent' /\ Counts' /\ BackInv' /\ RxCoherent'
      /\ \A f \in Frame : FwdFrame(f) => FwdFrame(f)'
  BY <1>1, <1>2, <1>3, QuietStep DEF Terminal
<1>5. FwdInv'
  BY <1>2, <1>4, FwdKeeps, Pieces DEF IInv, FwdInv
<1> QED BY <1>4, <1>5 DEF IInv

(* The frame a sender writes fits behind everything it wrote before. *)
LEMMA FlightFits ==
  ASSUME IInv, InFlight(tx)
  PROVE  LET g == FlightFrame(tx)
         IN  /\ g \in Frame /\ FwdFrame(g)
             /\ \A f \in Frame : FwdFrame(f) /\ f.type \in Ordered => f.pos <= g.pos
<1> DEFINE g == FlightFrame(tx)
<1>0. /\ g.type = tx.flight.kind /\ g.seq = tx.flight.seq
      /\ g.sess = tx.flight.sess /\ g.pos = tx.flight.pos
  BY DEF FlightFrame, MkFrame
<1>1. tx.flight.kind \in FlightKinds /\ tx.flight.sess = sess
  BY Airborne DEF IInv, TxCoherent, InFlight
<1>2. g \in Frame
  <2>1. tx.flight.kind \in FrameTypes /\ tx.flight.seq \in Seqs
    BY <1>1, Pieces DEF FlightKinds, FrameTypes, IInv
  <2>2. tx.flight.sess \in Nat /\ tx.flight.pos \in Nat
    BY DEF IInv, TypeOK, TxType, Flight
  <2> QED BY <2>1, <2>2, FrameType DEF FlightFrame
<1> HIDE DEF g
<1>3. CASE tx.flight.kind = "Data"
  <2>1. Active /\ ~Opening
    BY <1>3, Airborne DEF Opening
  <2>2. sent = acked + 1 /\ tx.flight.pos = sent /\ tx.flight.seq = SeqOf(sent)
    BY <1>3, <2>1, Near DEF IInv, Counts, SeqOf
  <2>3. FwdFrame(g)
    BY <1>0, <1>1, <1>3, <2>2, Near DEF FwdFrame, Ordered
  <2>4. \A f \in Frame : FwdFrame(f) /\ f.type \in Ordered => f.pos <= g.pos
    BY <1>0, <1>3, <2>1, <2>2, Near DEF FwdFrame, Ordered
  <2> QED BY <1>2, <2>3, <2>4 DEF g
<1>4. CASE tx.flight.kind = "Start"
  <2>1. Active /\ Opening /\ ~Streaming
    BY <1>4, Airborne DEF Opening, Streaming
  <2>2. sent = 0 /\ tx.flight.pos = 0
    BY <1>4, <2>1 DEF IInv, Counts
  <2>3. FwdFrame(g)
    BY <1>0, <1>4, <2>1, <2>2, Near DEF FwdFrame, Ordered
  <2>4. \A f \in Frame : FwdFrame(f) /\ f.type \in Ordered => f.pos <= g.pos
    BY <1>0, <1>4, <2>1, <2>2, FrameFields DEF FwdFrame, Ordered
  <2> QED BY <1>2, <2>3, <2>4 DEF g
<1>5. CASE tx.flight.kind = "Finish"
  <2>1. Active
    BY <1>5, Airborne
  <2>2. sent = acked /\ tx.flight.pos = sent + 1 /\ tx.flight.seq = sent % SeqMod
    BY <1>5, <2>1 DEF IInv, Counts
  <2>3. FwdFrame(g)
    BY <1>0, <1>5, <2>1, <2>2 DEF FwdFrame, Ordered
  <2>4. \A f \in Frame : FwdFrame(f) /\ f.type \in Ordered => f.pos <= g.pos
    BY <1>0, <2>1, <2>2, Near, FrameFields DEF FwdFrame, Ordered
  <2> QED BY <1>2, <2>3, <2>4 DEF g
<1>6. CASE tx.flight.kind = "Abort"
  <2>1. ~Active /\ tx.flight.pos = sent + 1
    BY <1>6, Airborne DEF IInv, TxCoherent
  <2>2. FwdFrame(g)
    BY <1>0, <1>6, <2>1 DEF FwdFrame, Ordered
  <2>3. \A f \in Frame : FwdFrame(f) /\ f.type \in Ordered => f.pos <= g.pos
    BY <1>0, <2>1, Near, FrameFields DEF FwdFrame, Ordered
  <2> QED BY <1>2, <2>2, <2>3 DEF g
<1> QED BY <1>1, <1>3, <1>4, <1>5, <1>6 DEF FlightKinds

LEMMA StepTxEndWrite ==
  ASSUME IInv, TypeOK', TxEndWrite
  PROVE  IInv'
<1> DEFINE g == FlightFrame(tx)
<1>1. SameFlight(tx', tx) /\ tx'.state = "WaitingAck" /\ ~tx'.writing
  BY WriteFields, Pieces DEF TxEndWrite, IInv
<1>2. /\ InFlight(tx) /\ UNCHANGED <<rx, history, back>>
      /\ fwd' \in {fwd, Append(fwd, g), Append(fwd, BadFrame)}
  BY DEF TxEndWrite, Transmit, IInv, TypeOK
<1>3. /\ TxCoherent' /\ Counts' /\ BackInv' /\ RxCoherent'
      /\ \A f \in Frame : FwdFrame(f) => FwdFrame(f)'
  BY <1>1, <1>2, QuietStep DEF Terminal
<1>4. CASE fwd' = fwd
  <2>1. FwdInv'
    BY <1>3, <1>4, FwdKeeps, Pieces DEF IInv, FwdInv
  <2> QED BY <1>3, <2>1 DEF IInv
<1>5. CASE fwd' = Append(fwd, g)
  <2>1. PICK h \in Frame :
          /\ h = g /\ FwdFrame(h)
          /\ \A f \in Frame : FwdFrame(f) /\ f.type \in Ordered => f.pos <= h.pos
    BY <1>2, FlightFits
  <2>2. FwdFrame(h)' /\ fwd' = Append(fwd, h)
    BY <1>3, <1>5, <2>1
  <2>3. \A k \in 1 .. Len(fwd) : fwd[k].type \in Ordered => fwd[k].pos <= h.pos
    BY <2>1, Pieces DEF IInv, FwdInv
  <2>4. FwdInv'
    BY <1>3, <2>2, <2>3, FwdGrows DEF IInv
  <2> QED BY <1>3, <2>4 DEF IInv
<1>6. CASE fwd' = Append(fwd, BadFrame)
  <2>1. BadFrame \in Frame /\ BadFrame.type = "Bad"
    BY FrameType DEF BadFrame, MkFrame
  <2>2. FwdFrame(BadFrame)' /\ BadFrame.type \notin Ordered
    BY <2>1 DEF FwdFrame, Ordered
  <2>3. FwdInv'
    BY <1>3, <1>6, <2>1, <2>2, FwdGrows DEF IInv
  <2> QED BY <1>3, <2>3 DEF IInv
<1> QED BY <1>2, <1>4, <1>5, <1>6

LEMMA StepTxEmptyRead ==
  ASSUME IInv, TypeOK', TxEmptyRead
  PROVE  IInv'
<1>1. /\ Waits(tx) /\ InFlight(tx) /\ ~tx.writing /\ tx' = OnEmptyRead(tx)
      /\ UNCHANGED <<rx, history, fwd, back>>
  BY DEF TxEmptyRead, Waits
<1>2. /\ tx'.writing = tx.writing
      /\ \/ tx'.flight.kind = "None" /\ tx'.state = "Failed"
         \/ SameFlight(tx', tx) /\ tx'.state \in {"Retrying", tx.state}
  BY <1>1, AttemptFields, Pieces DEF IInv
<1>3. ~tx'.writing
  BY <1>1, <1>2
<1>4. CASE tx'.flight.kind = "None" /\ tx'.state = "Failed"
  BY <1>1, <1>3, <1>4, EndStep DEF Terminal
<1>5. CASE SameFlight(tx', tx) /\ tx'.state \in {"Retrying", tx.state}
  <2>1. tx'.state \notin Terminal \cup {"Idle"}
    BY <1>1, <1>5, Airborne DEF Terminal
  <2>2. /\ TxCoherent' /\ Counts' /\ BackInv' /\ RxCoherent'
        /\ \A f \in Frame : FwdFrame(f) => FwdFrame(f)'
    BY <1>1, <1>3, <1>5, <2>1, QuietStep
  <2>3. FwdInv'
    BY <1>1, <2>2, FwdKeeps, Pieces DEF IInv, FwdInv
  <2> QED BY <2>2, <2>3 DEF IInv
<1> QED BY <1>2, <1>4, <1>5

(* What an ACK that answers the flight of an active sender is about: the   *)
(* byte in flight (or, in front of the first byte, START), or FINISH.      *)
LEMMA AnsweredBy ==
  ASSUME IInv, Active, NEW a \in Frame, AckFrame(a), a.seq = tx.flight.seq,
         a.pos \in 1 .. sent => a.pos <= n
  PROVE  /\ tx.flight.kind = "Data" =>
              (a.pos = 0 /\ acked = 0) \/ (a.pos = acked + 1 /\ acked + 1 <= n)
         /\ tx.flight.kind = "Finish" => n = sent
<1>0. a.pos \in Nat /\ n \in Nat /\ sent \in Nat /\ acked \in Nat
  BY FrameFields, Near
<1>1. ASSUME NEW c \in Nat, c <= 1, 0 = c % SeqMod
      PROVE  c = 0
  <2>1. c \in Seqs
    BY <1>1, SeqModAssumption DEF Seqs
  <2> QED BY <1>1, <2>1, ModSmall
<1>2. CASE tx.flight.kind = "Data"
  <2>1. sent = acked + 1 /\ tx.flight.seq = acked % SeqMod
    BY <1>2 DEF IInv, Counts
  <2>2. CASE a.pos = 0
    BY <1>0, <1>1, <1>2, <2>1, <2>2 DEF AckFrame
  <2>3. CASE a.pos \in 1 .. sent
    <3>1. a.pos - 1 \in Nat /\ (a.pos - 1) % SeqMod = acked % SeqMod /\ a.pos >= acked
      BY <1>0, <2>1, <2>3 DEF AckFrame, SeqOf
    <3>2. a.pos - 1 = acked
      <4> DEFINE p == a.pos - 1
      <4>1. p \in Nat /\ p % SeqMod = acked % SeqMod
        BY <3>1
      <4>2. p - acked < SeqMod /\ acked - p < SeqMod
        BY <1>0, <2>1, <2>3, <3>1, SeqModAssumption
      <4> HIDE DEF p
      <4>3. p = acked
        BY <1>0, <4>1, <4>2, ModInjective
      <4> QED BY <4>3 DEF p
    <3> QED BY <1>0, <1>2, <2>3, <3>2
  <2>4. CASE a.pos > sent
    BY <1>2, <2>4 DEF AckFrame
  <2> QED BY <1>0, <2>2, <2>3, <2>4
<1>3. CASE tx.flight.kind = "Finish"
  <2>1. sent = acked /\ tx.flight.seq = sent % SeqMod
    BY <1>3 DEF IInv, Counts
  <2>2. CASE a.pos = 0
    <3>1. sent = 0
      BY <1>0, <1>1, <2>1, <2>2 DEF AckFrame
    <3> QED BY <1>3, <3>1, Near
  <2>3. CASE a.pos \in 1 .. sent
    <3>1. /\ a.pos = sent /\ a.pos - 1 \in Nat
          /\ (a.pos - 1) % SeqMod = sent % SeqMod
      BY <1>0, <2>1, <2>3 DEF AckFrame, SeqOf
    <3>2. a.pos - 1 = sent
      <4> DEFINE p == a.pos - 1
      <4>1. p \in Nat /\ p % SeqMod = sent % SeqMod
        BY <3>1
      <4>2. p - sent < SeqMod /\ sent - p < SeqMod
        BY <1>0, <3>1, SeqModAssumption
      <4> HIDE DEF p
      <4>3. p = sent
        BY <1>0, <4>1, <4>2, ModInjective
      <4> QED BY <4>3 DEF p
    <3> QED BY <1>0, <3>1, <3>2
  <2>4. CASE a.pos > sent
    BY <1>3, <2>4 DEF AckFrame
  <2> QED BY <1>0, <2>2, <2>3, <2>4
<1> QED BY <1>2, <1>3

(* The ACK of START: the byte stream is open. *)
LEMMA StepAckStart ==
  ASSUME IInv, TypeOK', TxRead, tx' = OnAck(tx), tx.flight.kind = "Start",
         Head(back).type = "Ack"
  PROVE  IInv'
<1>1. /\ Opening /\ Active /\ ~Streaming /\ InFlight(tx) /\ ~tx.writing
      /\ back # <<>> /\ back' = Tail(back)
      /\ fwd' = fwd /\ rx' = rx /\ sess' = sess /\ sent' = sent /\ acked' = acked
      /\ delivered' = delivered /\ n' = n /\ Taken' = Taken
  BY Airborne DEF TxRead, Waits, Opening, Streaming, InFlight, n, Taken
<1>2. /\ tx'.flight.kind = "None" /\ tx'.state = "Idle" /\ tx'.seq = 0
      /\ tx'.writing = tx.writing
  BY AckFields, Pieces DEF IInv
<1>3. ~tx'.writing
  BY <1>1, <1>2
<1>4. Active' /\ Streaming' /\ ~Opening'
  BY <1>2 DEF Active, Streaming, Opening
<1>5. sent = 0 /\ acked = 0 /\ n = 0 /\ 0 % SeqMod = 0
  BY <1>1, Near, ModSmall, SeqTypes DEF IInv, Counts
<1>6. rx.expected = 0 /\ ~IsClosed(rx)
  <2>1. Head(back) = back[1] /\ 1 \in 1 .. Len(back)
    BY <1>1, TailFacts DEF IInv, TypeOK
  <2> QED BY <1>1, <2>1 DEF IInv, BackInv, AckFrame
<1>7. TxCoherent'
  BY <1>2, <1>3 DEF TxCoherent
<1>8. Counts'
  BY <1>1, <1>2, <1>4, <1>5 DEF IInv, Counts, InOrder, AckedLead
<1>9. RxCoherent'
  BY <1>1, <1>2, <1>4, <1>5, <1>6 DEF IInv, RxCoherent, IsFinished, IsClosed
<1>10. \A f \in Frame : FwdFrame(f) => FwdFrame(f)'
  BY <1>1, <1>2, <1>4, <1>5, <1>6 DEF FwdFrame, Ordered, IsFinished, IsClosed
<1>11. FwdInv'
  BY <1>1, <1>10, FwdKeeps, Pieces DEF IInv, FwdInv
<1>12. \A a \in Frame : AckFrame(a) => AckFrame(a)' /\ a.pos = 0
  BY <1>1, <1>4, <1>5 DEF AckFrame
<1>13. BackInv'
  <2>1. \A a \in Frame, k \in 1 .. Len(back) : a = back[k] /\ a.type = "Ack" =>
            /\ AckFrame(a)'
            /\ a.pos \in 1 .. sent' => a.pos <= n'
            /\ Replying(rx') /\ rx'.reply.type = "Ack" => a.pos <= rx'.reply.pos
    BY <1>1, <1>12 DEF IInv, BackInv
  <2>2. Replying(rx') /\ rx'.reply.type = "Ack" => AckFrame(rx.reply)'
    BY <1>1, <1>12, Pieces DEF IInv, BackInv
  <2> QED BY <1>1, <2>1, <2>2, BackKeeps DEF IInv
<1> QED BY <1>7, <1>8, <1>9, <1>11, <1>13 DEF IInv

(* The ACK of a byte. *)
LEMMA StepAckData ==
  ASSUME IInv, TypeOK', TxRead, tx' = OnAck(tx), tx.flight.kind = "Data",
         Head(back).type = "Ack", Head(back).seq = tx.flight.seq
  PROVE  IInv'
<1>1. /\ Streaming /\ Active /\ ~Opening /\ InFlight(tx) /\ ~tx.writing
      /\ back # <<>> /\ back' = Tail(back)
      /\ fwd' = fwd /\ rx' = rx /\ sess' = sess /\ sent' = sent /\ acked' = acked + 1
      /\ delivered' = delivered /\ n' = n /\ Taken' = Taken
  BY Airborne DEF TxRead, Waits, Opening, Streaming, InFlight, n, Taken, Answers
<1>2. /\ tx'.flight.kind = "None" /\ tx'.state = "Idle" /\ tx'.seq = Advance(tx.seq)
      /\ tx'.writing = tx.writing
  BY AckFields, Pieces DEF IInv
<1>3. ~tx'.writing
  BY <1>1, <1>2
<1>4. Active' /\ Streaming' /\ ~Opening'
  BY <1>2 DEF Active, Streaming, Opening
<1>5. sent = acked + 1 /\ tx.seq = acked % SeqMod
  BY <1>1 DEF IInv, Counts
<1>6. /\ Head(back) = back[1] /\ Head(back) \in Frame /\ 1 \in 1 .. Len(back)
      /\ Len(back) \in Nat
  BY <1>1, TailFacts DEF IInv, TypeOK
<1> DEFINE h == Head(back)
<1>7. /\ AckFrame(h) /\ (h.pos \in 1 .. sent => h.pos <= n)
      /\ \A k \in 1 .. Len(back) : k > 1 /\ back[k].type = "Ack" => h.pos <= back[k].pos
      /\ Replying(rx) /\ rx.reply.type = "Ack" => h.pos <= rx.reply.pos
  BY <1>1, <1>6 DEF IInv, BackInv
<1>8. (h.pos = 0 /\ acked = 0) \/ (h.pos = acked + 1 /\ acked + 1 <= n)
  BY <1>1, <1>6, <1>7, AnsweredBy
<1>9. TxCoherent'
  BY <1>2, <1>3 DEF TxCoherent
<1>10. Counts'
  <2>1. tx'.seq = acked' % SeqMod
    BY <1>1, <1>2, <1>5, AdvanceMod, Near
  <2>2. InOrder' /\ AckedLead'
    <3>1. InOrder'
      BY <1>1 DEF IInv, Counts, InOrder
    <3>2. n = 0 => delivered = <<>>
      BY DEF n, IInv, TypeOK
    <3>3. acked' <= n \/ (acked' = 1 /\ n = 0)
      BY <1>1, <1>8, Near
    <3> QED BY <1>1, <3>1, <3>2, <3>3 DEF AckedLead, n
  <2> QED BY <1>1, <1>2, <1>4, <1>5, <2>1, <2>2, Near DEF Counts
<1>11. RxCoherent'
  BY <1>1, <1>2, <1>4 DEF IInv, RxCoherent, IsFinished, IsClosed
<1>12. \A f \in Frame : FwdFrame(f) => FwdFrame(f)'
  BY <1>1, <1>2, <1>4 DEF FwdFrame, Ordered, IsFinished, IsClosed
<1>13. FwdInv'
  BY <1>1, <1>12, FwdKeeps, Pieces DEF IInv, FwdInv
<1>14. \A a \in Frame : AckFrame(a) /\ h.pos <= a.pos => AckFrame(a)'
  <2> HIDE DEF h
  <2> SUFFICES ASSUME NEW a \in Frame, AckFrame(a), h.pos <= a.pos
               PROVE  AckFrame(a)'
    OBVIOUS
  <2>1. a.pos \in Nat
    BY FrameFields
  <2>2. a.pos <= sent
    BY <1>1, <2>1, Near DEF AckFrame
  <2>3. a.pos = 0 => acked' <= 1
    BY <1>1, <1>8, <2>1, Near
  <2>4. a.pos \in 1 .. sent => a.pos >= acked'
    BY <1>1, <1>8, <2>1, Near
  <2> QED BY <1>1, <1>4, <2>1, <2>2, <2>3, <2>4, Near DEF AckFrame
<1>15. BackInv'
  <2>1. \A a \in Frame, k \in 1 .. Len(back) : a = back[k] /\ a.type = "Ack" /\ k > 1 =>
            /\ AckFrame(a)'
            /\ a.pos \in 1 .. sent' => a.pos <= n'
            /\ Replying(rx') /\ rx'.reply.type = "Ack" => a.pos <= rx'.reply.pos
    BY <1>1, <1>7, <1>14 DEF IInv, BackInv
  <2>2. Replying(rx') /\ rx'.reply.type = "Ack" => AckFrame(rx.reply)'
    BY <1>1, <1>7, <1>14, Pieces DEF IInv, BackInv
  <2>3. back' # back
    <3>1. Len(back') = Len(back) - 1
      BY <1>1, TailFacts DEF IInv, TypeOK
    <3> QED BY <1>6, <3>1
  <2> QED BY <1>1, <2>1, <2>2, <2>3, BackKeeps DEF IInv
<1> QED BY <1>9, <1>10, <1>11, <1>13, <1>15 DEF IInv

LEMMA StepTxRead ==
  ASSUME IInv, TypeOK', TxRead
  PROVE  IInv'
<1> DEFINE h == Head(back)
<1>1. /\ Waits(tx) /\ InFlight(tx) /\ ~tx.writing /\ tx' = OnControl(tx, h)
      /\ UNCHANGED <<rx, fwd, sess, sent, delivered>>
      /\ back # <<>> /\ back' = Tail(back) /\ h \in Frame /\ h = back[1]
      /\ 1 \in 1 .. Len(back)
  BY TailFacts DEF TxRead, Waits, IInv, TypeOK
<1>2. \/ h.type = "Abort" /\ tx' = ForceAbort(tx)
      \/ h.type = "Ack" /\ h.seq = tx.flight.seq /\ tx' = OnAck(tx)
      \/ /\ ~(h.type = "Ack" /\ h.seq = tx.flight.seq)
         /\ tx'.writing = tx.writing
         /\ \/ tx'.flight.kind = "None" /\ tx'.state = "Failed"
            \/ SameFlight(tx', tx) /\ tx'.state \in {"Retrying", tx.state}
  BY <1>1, ControlFields, Pieces DEF IInv
<1>3. ~(h.type = "Ack" /\ h.seq = tx.flight.seq /\ tx.flight.kind = "Data")
        => UNCHANGED <<rx, history, fwd>>
  BY <1>1 DEF TxRead, Answers, history
<1>4. CASE h.type = "Abort" /\ tx' = ForceAbort(tx)
  BY <1>1, <1>3, <1>4, ForceAbortFields, EndStep, Pieces DEF IInv, Terminal
<1>5. CASE h.type = "Ack" /\ h.seq = tx.flight.seq /\ tx' = OnAck(tx)
  <2>1. CASE tx.flight.kind = "Data"
    BY <1>5, <2>1, StepAckData
  <2>2. CASE tx.flight.kind = "Start"
    BY <1>5, <2>2, StepAckStart
  <2>3. CASE tx.flight.kind \in {"Finish", "Abort"}
    <3>1. tx'.flight.kind = "None" /\ tx'.writing = tx.writing
      BY <1>5, AckFields, Pieces DEF IInv
    <3>2. ~tx'.writing
      BY <1>1, <3>1
    <3>3. tx'.state \in {"Finished", "Aborted"}
      BY <1>5, <2>3, AckFields, Pieces DEF IInv
    <3>4. tx'.state = "Finished" => tx.flight.kind = "Finish"
      BY <1>5, <2>3, AckFields, Pieces DEF IInv
    <3>5. tx.flight.kind = "Finish" => n = sent
      <4>1. tx.flight.kind = "Finish" => Active
        BY <1>1, Airborne
      <4>2. Active => AckFrame(h) /\ (h.pos \in 1 .. sent => h.pos <= n)
        BY <1>1, <1>5 DEF IInv, BackInv
      <4> QED BY <1>1, <1>5, <4>1, <4>2, AnsweredBy
    <3> QED BY <1>1, <1>3, <2>3, <3>1, <3>2, <3>3, <3>4, <3>5, EndStep DEF Terminal
  <2> QED BY <1>1, <2>1, <2>2, <2>3, Airborne DEF FlightKinds
<1>6. CASE /\ ~(h.type = "Ack" /\ h.seq = tx.flight.seq)
           /\ tx'.writing = tx.writing
           /\ tx'.flight.kind = "None" /\ tx'.state = "Failed"
  BY <1>1, <1>3, <1>6, EndStep DEF Terminal
<1>7. CASE /\ ~(h.type = "Ack" /\ h.seq = tx.flight.seq)
           /\ tx'.writing = tx.writing
           /\ SameFlight(tx', tx) /\ tx'.state \in {"Retrying", tx.state}
  <2>1. tx'.state \notin Terminal \cup {"Idle"} /\ ~tx'.writing
    BY <1>1, <1>7, Airborne DEF Terminal
  <2>2. /\ TxCoherent' /\ Counts' /\ BackInv' /\ RxCoherent'
        /\ \A f \in Frame : FwdFrame(f) => FwdFrame(f)'
    BY <1>1, <1>3, <1>7, <2>1, QuietStep
  <2>3. FwdInv'
    BY <1>1, <2>2, FwdKeeps, Pieces DEF IInv, FwdInv
  <2> QED BY <2>2, <2>3 DEF IInv
<1> QED BY <1>2, <1>4, <1>5, <1>6, <1>7

-----------------------------------------------------------------------------
(* Receiver::poll. *)

(* A remainder tells apart positions at most two apart. *)
LEMMA SameRemainder ==
  ASSUME NEW a \in Nat, NEW b \in Nat, a % SeqMod = b % SeqMod, a <= b + 2, b <= a + 2
  PROVE  a = b
<1>1. a - b < SeqMod /\ b - a < SeqMod
  BY SeqModAssumption
<1> QED BY <1>1, ModInjective

(* Which byte an open receiver takes a DATA frame for: SEQ identifies it   *)
(* although it is only a remainder.                                        *)
LEMMA DataPosition ==
  ASSUME IInv, ~Replying(rx), ~IsClosed(rx), NEW f \in Frame, FwdFrame(f),
         f.type = "Data"
  PROVE  /\ f.seq = rx.expected => f.pos = n + 1
         /\ f.seq # rx.expected /\ f.seq = Previous(rx.expected) => f.pos = n
<1>0. /\ f.pos \in Nat /\ n \in Nat /\ sent \in Nat
      /\ f.pos >= 1 /\ f.pos >= n /\ f.pos <= n + 2 /\ f.seq = SeqOf(f.pos) /\ sent > 0
  BY FrameFields, Near DEF FwdFrame, Replying
<1>1. rx.expected = n % SeqMod
  BY <1>0 DEF IInv, RxCoherent, IsClosed
<1> DEFINE p == f.pos - 1
<1>2. p \in Nat /\ f.seq = p % SeqMod /\ p + 1 >= n /\ p <= n + 1 /\ f.pos = p + 1
  BY <1>0 DEF SeqOf
<1> HIDE DEF p
<1>3. f.seq = rx.expected => p = n
  BY <1>0, <1>1, <1>2, SameRemainder
<1>4. ASSUME f.seq # rx.expected, f.seq = Previous(rx.expected)
      PROVE  p + 1 = n
  <2>1. p # n
    BY <1>1, <1>2, <1>4
  <2>2. CASE p = n + 1
    <3>1. CASE n = 0
      <4>1. 1 \in Seqs /\ 0 \in Seqs /\ SeqMod - 1 \in Seqs
        BY SeqModAssumption DEF Seqs
      <4>2. 1 % SeqMod = 1 /\ 0 % SeqMod = 0 /\ (SeqMod - 1) % SeqMod = SeqMod - 1
        BY <4>1, ModSmall
      <4>3. Previous(0) = SeqMod - 1
        BY <4>2, SeqModAssumption DEF Previous
      <4>4. f.seq = 1 /\ rx.expected = 0
        BY <1>1, <1>2, <2>2, <3>1, <4>2
      <4>5. 1 = SeqMod - 1
        BY <1>4, <4>3, <4>4, Zenon
      <4> QED BY <4>5, SeqModAssumption
    <3>2. CASE n # 0
      <4>1. PICK m \in Nat : n = m + 1
        BY <1>0, <3>2
      <4>2. Previous(rx.expected) = m % SeqMod
        BY <1>1, <4>1, PreviousMod
      <4>3. p = m
        BY <1>2, <1>4, <2>2, <4>1, <4>2, SameRemainder
      <4> QED BY <2>2, <4>1, <4>3
    <3> QED BY <3>1, <3>2
  <2> QED BY <1>0, <1>2, <2>1, <2>2
<1> QED BY <1>2, <1>3, <1>4

(* FINISH is accepted behind the last byte only. *)
LEMMA FinishPosition ==
  ASSUME IInv, ~rx.abort_latched, NEW f \in Frame, FwdFrame(f), f.type = "Finish",
         f.seq = rx.expected
  PROVE  n = sent
<1>0. n \in Nat /\ sent \in Nat /\ acked = sent /\ f.seq = sent % SeqMod
  BY Near DEF FwdFrame
<1>1. CASE sent = 0
  BY <1>0, <1>1, Near
<1>2. CASE sent > 0
  <2>1. n % SeqMod = sent % SeqMod
    BY <1>0, <1>2 DEF IInv, RxCoherent
  <2> QED BY <1>0, <2>1, Near, SameRemainder
<1> QED BY <1>0, <1>1, <1>2

(* Reading changes nothing but the receiver and the wire to it. *)
LEMMA ReadFrame ==
  ASSUME IInv, RxRead
  PROVE  /\ tx' = tx /\ back' = back /\ sess' = sess /\ sent' = sent /\ acked' = acked
         /\ delivered' = delivered /\ n' = n
         /\ Active' = Active /\ Streaming' = Streaming /\ Opening' = Opening
         /\ ~Replying(rx) /\ rx.action = "None" /\ Taken = n
         /\ fwd # <<>> /\ fwd' = Tail(fwd) /\ fwd' # fwd
         /\ rx' = TakeFrame(rx, Head(fwd))
         /\ Head(fwd) \in Frame /\ FwdFrame(Head(fwd))
         /\ Head(fwd).type \in Ordered =>
              \A f \in Frame, k \in 1 .. Len(fwd) :
                f = fwd[k] /\ k > 1 /\ f.type \in Ordered => Head(fwd).pos <= f.pos
         /\ TxCoherent' /\ Counts'
<1>1. /\ tx' = tx /\ back' = back /\ sess' = sess /\ sent' = sent /\ acked' = acked
      /\ delivered' = delivered /\ n' = n
      /\ ~Replying(rx) /\ rx.action = "None" /\ Taken = n
      /\ fwd # <<>> /\ fwd' = Tail(fwd)
      /\ rx' = TakeFrame(rx, Head(fwd))
  BY DEF RxRead, history, n, Replying, Taken
<1>2. Active' = Active /\ Streaming' = Streaming /\ Opening' = Opening
  BY <1>1 DEF Active, Streaming, Opening
<1>3. /\ Head(fwd) \in Frame /\ Head(fwd) = fwd[1] /\ 1 \in 1 .. Len(fwd)
      /\ Len(fwd) \in Nat /\ Len(fwd') = Len(fwd) - 1
  BY <1>1, TailFacts DEF IInv, TypeOK
<1>4. FwdFrame(Head(fwd)) /\ fwd' # fwd
  BY <1>3 DEF IInv, FwdInv
<1>5. Head(fwd).type \in Ordered =>
        \A f \in Frame, k \in 1 .. Len(fwd) :
          f = fwd[k] /\ k > 1 /\ f.type \in Ordered => Head(fwd).pos <= f.pos
  BY <1>3 DEF IInv, FwdInv
<1>6. TxCoherent'
  BY <1>1 DEF IInv, TxCoherent
<1>7. Counts'
  BY <1>1, <1>2 DEF IInv, Counts, InOrder, AckedLead
<1> QED BY <1>1, <1>2, <1>3, <1>4, <1>5, <1>6, <1>7

(* What is left to show once the outcome of the read is known. *)
LEMMA ReadStep ==
  ASSUME IInv, TypeOK', RxRead, RxCoherent',
         \A f \in Frame, k \in 1 .. Len(fwd) :
            f = fwd[k] /\ k > 1 /\ FwdFrame(f) => FwdFrame(f)',
         Active => \A a \in Frame : AckFrame(a) => AckFrame(a)',
         Active /\ Replying(rx') /\ rx'.reply.type = "Ack" =>
            /\ AckFrame(rx.reply)'
            /\ \A a \in Frame : /\ AckFrame(a)
                                /\ a.pos \in 1 .. sent => a.pos <= n
                                => a.pos <= rx'.reply.pos
  PROVE  IInv'
<1>1. FwdInv'
  <2>1. \A f \in Frame, k \in 1 .. Len(fwd) : f = fwd[k] /\ k > 1 => FwdFrame(f)'
    BY DEF IInv, FwdInv
  <2> QED BY <2>1, ReadFrame, FwdKeeps DEF IInv
<1>2. BackInv'
  <2>1. Active => \A a \in Frame, k \in 1 .. Len(back) :
          a = back[k] /\ a.type = "Ack" =>
            /\ AckFrame(a)'
            /\ a.pos \in 1 .. sent' => a.pos <= n'
            /\ Replying(rx') /\ rx'.reply.type = "Ack" => a.pos <= rx'.reply.pos
    BY ReadFrame DEF IInv, BackInv
  <2> QED BY <2>1, ReadFrame, BackKeeps DEF IInv
<1> QED BY <1>1, <1>2, ReadFrame DEF IInv

LEMMA StepRxRead ==
  ASSUME IInv, TypeOK', RxRead
  PROVE  IInv'
<1>1. PICK f \in Frame : f = Head(fwd)
  BY ReadFrame
<1>2. /\ FwdFrame(f)
      /\ f.type \in Ordered =>
           \A g \in Frame, k \in 1 .. Len(fwd) :
             g = fwd[k] /\ k > 1 /\ g.type \in Ordered => f.pos <= g.pos
      /\ f.pos \in Nat
  BY <1>1, ReadFrame, FrameFields
<1>3. /\ tx' = tx /\ sess' = sess /\ sent' = sent /\ acked' = acked
      /\ delivered' = delivered /\ n' = n
      /\ Active' = Active /\ Streaming' = Streaming /\ Opening' = Opening
      /\ ~Replying(rx) /\ rx.action = "None" /\ Taken = n
  BY ReadFrame
<1>4. \/ Skipped(rx', rx) \/ Nacked(rx', rx)
      \/ Accepted(rx', rx, f) \/ Repeated(rx', rx, f) \/ Restarted(rx', rx, f)
      \/ Cancelled(rx', rx, f) \/ Concluded(rx', rx, f)
  BY <1>1, ReadFrame, ReadOutcomes, Pieces DEF IInv
<1>5. \A a \in Frame : AckFrame(a) =>
        a.pos \in Nat /\ (a.pos > sent => a.pos = sent + 1)
  BY FrameFields DEF AckFrame
<1>6. CASE Skipped(rx', rx) \/ Nacked(rx', rx)
  <2>1. /\ SameLatches(rx', rx) /\ rx'.action \notin {"Deliver", "Started"}
        /\ Replying(rx') => rx'.reply.type # "Ack"
    BY <1>6 DEF Skipped, Nacked, Replying
  <2>2. /\ Taken' = n /\ IsFinished(rx') = IsFinished(rx)
        /\ rx'.abort_latched = rx.abort_latched /\ rx'.expected = rx.expected
    BY <1>3, <2>1 DEF Taken, SameLatches, IsFinished
  <2>3. RxCoherent'
    BY <1>3, <2>1, <2>2 DEF IInv, RxCoherent
  <2>4. \A g \in Frame : FwdFrame(g) => FwdFrame(g)'
    BY <1>3, <2>2 DEF FwdFrame, Ordered
  <2>5. \A a \in Frame : AckFrame(a) => AckFrame(a)'
    BY <1>3, <2>2 DEF AckFrame, IsClosed
  <2> QED BY <2>1, <2>3, <2>4, <2>5, ReadStep
<1>7. CASE Accepted(rx', rx, f)
  <2>1. /\ f.type = "Data" /\ ~IsClosed(rx) /\ SameLatches(rx', rx)
        /\ rx'.action = "Deliver"
        /\ rx'.reply.type = "Ack" /\ rx'.reply.sess = f.sess /\ rx'.reply.pos = f.pos
        /\ rx'.reply.seq = f.seq
    BY <1>7 DEF Accepted, Acks, MkFrame
  <2>2. f.pos = n + 1 /\ f.pos <= sent /\ f.sess = sess /\ f.seq = SeqOf(f.pos)
    BY <1>2, <1>3, <1>7, DataPosition DEF Accepted, FwdFrame
  <2>3. /\ Taken' = n + 1 /\ IsFinished(rx') = IsFinished(rx) /\ ~IsFinished(rx)
        /\ rx'.abort_latched = rx.abort_latched /\ rx'.expected = rx.expected
        /\ ~IsClosed(rx')
    BY <1>3, <2>1 DEF Taken, SameLatches, IsFinished, IsClosed
  <2>4. ~Opening
    BY <2>2, Near DEF IInv, Counts
  <2>5. RxCoherent'
    BY <1>3, <2>1, <2>2, <2>3 DEF IInv, RxCoherent
  <2>6. \A g \in Frame, k \in 1 .. Len(fwd) :
          g = fwd[k] /\ k > 1 /\ FwdFrame(g) => FwdFrame(g)'
    <3> SUFFICES ASSUME NEW g \in Frame, NEW k \in 1 .. Len(fwd), g = fwd[k], k > 1,
                        FwdFrame(g)
                 PROVE  FwdFrame(g)'
      OBVIOUS
    <3>1. g.type \in Ordered => n + 1 <= g.pos
      BY <1>2, <2>1, <2>2 DEF Ordered
    <3>2. g.type # "Start"
      BY <3>1, Near DEF FwdFrame, Ordered
    <3> QED BY <1>3, <2>3, <3>1, <3>2, Near DEF FwdFrame, Ordered
  <2>7. \A a \in Frame : AckFrame(a) => AckFrame(a)'
    BY <1>3, <2>3, <2>4, Near, FrameFields DEF AckFrame
  <2>8. AckFrame(rx.reply)'
    BY <1>3, <2>1, <2>2, <2>3, <2>4, Near DEF AckFrame
  <2>9. \A a \in Frame : AckFrame(a) /\ (a.pos \in 1 .. sent => a.pos <= n)
                           => a.pos <= rx'.reply.pos
    BY <1>5, <2>1, <2>2, <2>3, Near DEF AckFrame
  <2> QED BY <2>5, <2>6, <2>7, <2>8, <2>9, ReadStep
<1>8. CASE Repeated(rx', rx, f)
  <2>1. /\ f.type = "Data" /\ ~IsClosed(rx) /\ SameLatches(rx', rx)
        /\ rx'.action = "Duplicate"
        /\ rx'.reply.type = "Ack" /\ rx'.reply.pos = f.pos /\ rx'.reply.seq = f.seq
    BY <1>8 DEF Repeated, Acks, MkFrame
  <2>2. f.pos = n /\ f.pos >= 1 /\ f.pos <= sent /\ f.seq = SeqOf(f.pos)
    BY <1>2, <1>3, <1>8, DataPosition DEF Repeated, FwdFrame
  <2>3. /\ Taken' = n /\ IsFinished(rx') = IsFinished(rx) /\ ~IsFinished(rx)
        /\ rx'.abort_latched = rx.abort_latched /\ rx'.expected = rx.expected
        /\ ~IsClosed(rx')
    BY <1>3, <2>1 DEF Taken, SameLatches, IsFinished, IsClosed
  <2>4. ~Opening
    BY <2>2, Near DEF IInv, Counts
  <2>5. RxCoherent'
    BY <1>3, <2>1, <2>3 DEF IInv, RxCoherent
  <2>6. \A g \in Frame : FwdFrame(g) => FwdFrame(g)'
    BY <1>3, <2>3 DEF FwdFrame, Ordered
  <2>7. \A a \in Frame : AckFrame(a) => AckFrame(a)'
    BY <1>3, <2>3, <2>4 DEF AckFrame
  <2>8. AckFrame(rx.reply)'
    BY <1>3, <2>1, <2>2, <2>3, <2>4, Near DEF AckFrame
  <2>9. \A a \in Frame : AckFrame(a) /\ (a.pos \in 1 .. sent => a.pos <= n)
                           => a.pos <= rx'.reply.pos
    BY <1>5, <2>1, <2>2, <2>3, Near DEF AckFrame
  <2> QED BY <2>5, <2>6, <2>7, <2>8, <2>9, ReadStep
<1>9. CASE Restarted(rx', rx, f)
  <2>1. /\ f.type = "Start" /\ rx'.expected = 0 /\ ~IsFinished(rx')
        /\ ~rx'.abort_latched /\ ~IsClosed(rx') /\ rx'.action = "Started"
        /\ rx'.reply.type = "Ack" /\ rx'.reply.pos = f.pos /\ rx'.reply.seq = 0
    BY <1>9 DEF Restarted, Acks, MkFrame, IsFinished, IsClosed
  <2>2. f.pos = 0 /\ n = 0 /\ (Streaming => ~IsFinished(rx)) /\ 0 % SeqMod = 0
    BY <1>2, <1>3, <2>1, ModSmall, SeqTypes DEF FwdFrame
  <2>3. Taken' = n
    BY <1>3, <2>1 DEF Taken
  <2>4. RxCoherent'
    BY <1>3, <2>1, <2>2 DEF IInv, RxCoherent
  <2>5. \A g \in Frame : FwdFrame(g) => FwdFrame(g)'
    BY <1>3, <2>1, <2>3 DEF FwdFrame, Ordered
  <2>6. \A a \in Frame : Active /\ AckFrame(a) => a.pos <= sent
    BY <1>5, <2>2, Near DEF AckFrame, Streaming
  <2>7. Active => \A a \in Frame : AckFrame(a) => AckFrame(a)'
    BY <1>3, <2>1, <2>3, <2>6, Near, FrameFields DEF AckFrame
  <2>8. AckFrame(rx.reply)'
    BY <1>3, <2>1, <2>2, Near DEF AckFrame
  <2>9. Active => \A a \in Frame : AckFrame(a) /\ (a.pos \in 1 .. sent => a.pos <= n)
                                     => a.pos <= rx'.reply.pos
    BY <1>5, <2>1, <2>2, <2>6, Near
  <2> QED BY <2>4, <2>5, <2>7, <2>8, <2>9, ReadStep
<1>10. CASE Cancelled(rx', rx, f)
  <2>1. /\ f.type = "Abort" /\ ~IsFinished(rx) /\ ~IsFinished(rx')
        /\ rx'.abort_latched /\ rx'.action = "Aborted"
    BY <1>10 DEF Cancelled, IsFinished
  <2>2. ~Active /\ ~Streaming
    BY <1>2, <2>1 DEF FwdFrame, Streaming
  <2>3. Taken' = n
    BY <1>3, <2>1 DEF Taken
  <2>4. RxCoherent'
    BY <1>3, <2>1, <2>2 DEF IInv, RxCoherent
  <2>5. \A g \in Frame : FwdFrame(g) => FwdFrame(g)'
    BY <1>3, <2>2, <2>3 DEF FwdFrame, Ordered
  <2> QED BY <2>2, <2>4, <2>5, ReadStep
<1>11. CASE Concluded(rx', rx, f)
  <2>1. /\ f.type = "Finish" /\ ~rx.abort_latched /\ f.seq \in Seqs
        /\ rx'.expected = rx.expected /\ rx'.abort_latched = rx.abort_latched
        /\ rx'.finish_seq = f.seq /\ rx'.action = "Finished"
        /\ rx'.reply.type = "Ack" /\ rx'.reply.pos = f.pos /\ rx'.reply.seq = f.seq
        /\ rx.finish_seq = f.seq \/ f.seq = rx.expected
    BY <1>11 DEF Concluded, Acks, MkFrame
  <2>2. IsFinished(rx') /\ (rx.finish_seq = f.seq => IsFinished(rx))
    BY <2>1, SeqModAssumption DEF IsFinished, NoSeq, Seqs
  <2>3. /\ f.pos = sent + 1 /\ f.seq = sent % SeqMod
        /\ Active => tx.flight.kind = "Finish"
    BY <1>2, <2>1 DEF FwdFrame
  <2>4. n = sent
    <3>1. IsFinished(rx) => n = sent
      BY DEF IInv, RxCoherent
    <3>2. f.seq = rx.expected => n = sent
      BY <1>2, <2>1, FinishPosition
    <3> QED BY <2>1, <2>2, <3>1, <3>2
  <2>5. ~Opening /\ Taken' = n /\ (Streaming => Active)
    BY <1>3, <2>1, <2>3 DEF Opening, Taken, Streaming
  <2>6. RxCoherent'
    BY <1>3, <2>1, <2>2, <2>3, <2>4, <2>5 DEF IInv, RxCoherent
  <2>7. \A g \in Frame, k \in 1 .. Len(fwd) :
          g = fwd[k] /\ k > 1 /\ FwdFrame(g) => FwdFrame(g)'
    <3> SUFFICES ASSUME NEW g \in Frame, NEW k \in 1 .. Len(fwd), g = fwd[k], k > 1,
                        FwdFrame(g)
                 PROVE  FwdFrame(g)'
      OBVIOUS
    <3>1. g.type \in Ordered => sent + 1 <= g.pos
      BY <1>2, <2>1, <2>3 DEF Ordered
    <3>2. g.type # "Start"
      BY <3>1, Near DEF FwdFrame, Ordered
    <3> QED BY <1>3, <2>5, <3>2 DEF FwdFrame, Ordered
  <2>8. \A a \in Frame : AckFrame(a) => AckFrame(a)'
    BY <1>3, <2>2, <2>4, <2>5 DEF AckFrame
  <2>9. Active => AckFrame(rx.reply)'
    BY <1>3, <2>1, <2>2, <2>3, <2>4, <2>5, Near DEF AckFrame
  <2>10. \A a \in Frame : AckFrame(a) /\ (a.pos \in 1 .. sent => a.pos <= n)
                            => a.pos <= rx'.reply.pos
    BY <1>5, <2>1, <2>3, Near
  <2> QED BY <2>6, <2>7, <2>8, <2>9, <2>10, ReadStep
<1> QED BY <1>4, <1>6, <1>7, <1>8, <1>9, <1>10, <1>11

(* The reply goes onto the wire back, or the line hits it. *)
LEMMA ReplySent ==
  ASSUME IInv, TypeOK', RxReply, Active' => Active, sent' = sent,
         Active => \A a \in Frame : AckFrame(a) => AckFrame(a)',
         n' >= n, Active /\ rx.reply.type = "Ack" /\ rx.reply.pos \in 1 .. sent =>
                    rx.reply.pos <= n'
  PROVE  BackInv'
<1>1. PICK g \in Frame : g = rx.reply
  BY Pieces DEF IInv
<1>2. /\ Replying(rx) /\ ~Replying(rx')
      /\ back' \in {back, Append(back, g), Append(back, BadFrame)}
  BY <1>1, PendingFields, Pieces DEF RxReply, Transmit, Replying, IInv
<1>3. n \in Nat /\ n' \in Nat
  BY Near DEF TypeOK, n
<1>4. Active => \A a \in Frame, k \in 1 .. Len(back) : a = back[k] /\ a.type = "Ack" =>
            /\ AckFrame(a)'
            /\ a.pos \in 1 .. sent' => a.pos <= n'
            /\ g.type = "Ack" => a.pos <= g.pos
  BY <1>1, <1>2, <1>3, FrameFields DEF IInv, BackInv
<1>5. Active /\ g.type = "Ack" => AckFrame(g)' /\ (g.pos \in 1 .. sent' => g.pos <= n')
  BY <1>1, <1>2 DEF IInv, BackInv
<1>6. CASE back' = back
  BY <1>2, <1>4, <1>6, BackKeeps DEF IInv
<1>7. CASE back' = Append(back, g)
  BY <1>2, <1>4, <1>5, <1>7, BackGrows DEF IInv
<1>8. CASE back' = Append(back, BadFrame)
  <2>1. BadFrame \in Frame /\ BadFrame.type = "Bad"
    BY FrameType DEF BadFrame, MkFrame
  <2> QED BY <1>2, <1>4, <1>8, <2>1, BackGrows DEF IInv
<1> QED BY <1>2, <1>6, <1>7, <1>8

LEMMA StepRxReply ==
  ASSUME IInv, TypeOK', RxReply
  PROVE  IInv'
<1>1. /\ tx' = tx /\ fwd' = fwd /\ sess' = sess /\ sent' = sent /\ acked' = acked
      /\ Replying(rx) /\ rx' = TakePending(rx)
  BY DEF RxReply
<1>2. Active' = Active /\ Streaming' = Streaming /\ Opening' = Opening
  BY <1>1 DEF Active, Streaming, Opening
<1>3. /\ rx'.action = "None" /\ rx'.abort_latched = rx.abort_latched
      /\ rx'.expected = IF rx.action = "Deliver" THEN Advance(rx.expected)
                                                 ELSE rx.expected
      /\ rx'.finish_seq = IF rx.action = "Started" THEN NoSeq ELSE rx.finish_seq
  BY <1>1, PendingFields, Pieces DEF IInv
<1>4. IsFinished(rx') = IsFinished(rx) /\ IsClosed(rx') = IsClosed(rx)
  BY <1>3 DEF IInv, RxCoherent, IsFinished, IsClosed
<1>5. TxCoherent'
  BY <1>1 DEF IInv, TxCoherent
<1>6. CASE rx.action = "Deliver"
  <2>1. /\ delivered' = Append(delivered, [sess |-> sess, pos |-> n + 1])
        /\ rx.reply.type = "Ack" /\ rx.reply.pos = n + 1 /\ n + 1 <= sent /\ ~IsClosed(rx)
    BY <1>6 DEF RxReply, IInv, RxCoherent
  <2>2. /\ n' = n + 1 /\ Taken' = Taken /\ Taken = n + 1
        /\ delivered'[n + 1] = [sess |-> sess, pos |-> n + 1]
        /\ \A i \in 1 .. n : delivered'[i] = delivered[i]
    <3>1. [sess |-> sess, pos |-> n + 1] \in [sess : Nat, pos : Nat]
      BY Pieces DEF IInv
    <3>2. delivered \in Seq([sess : Nat, pos : Nat])
      BY DEF IInv, TypeOK
    <3>3. /\ n' = n + 1
          /\ delivered'[n + 1] = [sess |-> sess, pos |-> n + 1]
          /\ \A i \in 1 .. n : delivered'[i] = delivered[i]
      BY <2>1, <3>1, <3>2, AppendFacts DEF n
    <3> QED BY <1>3, <1>6, <3>3 DEF Taken
  <2>3. InOrder'
    <3>1. \A i \in 1 .. n : delivered[i] = [sess |-> sess, pos |-> i]
      BY DEF IInv, Counts, InOrder, n
    <3>2. ASSUME NEW i \in 1 .. n'
          PROVE  delivered'[i] = [sess |-> sess, pos |-> i]
      BY <2>2, <3>1, Near
    <3> QED BY <1>1, <2>1, <2>2, <3>2 DEF InOrder, n
  <2>4. AckedLead'
    BY <1>1, <2>2, Near DEF AckedLead, n
  <2>5. Counts'
    BY <1>1, <1>2, <2>3, <2>4 DEF IInv, Counts
  <2>6. rx.expected = n % SeqMod
    BY <2>1, Near DEF IInv, RxCoherent, IsClosed
  <2>7. rx'.expected = n' % SeqMod
    BY <1>3, <1>6, <2>2, <2>6, AdvanceMod, Near
  <2>8. RxCoherent'
    BY <1>1, <1>2, <1>3, <1>4, <2>1, <2>7, Near DEF IInv, RxCoherent, IsClosed
  <2>9. \A f \in Frame : FwdFrame(f) => FwdFrame(f)'
    BY <1>1, <1>2, <1>4, <2>2 DEF FwdFrame, Ordered
  <2>10. FwdInv'
    BY <1>1, <2>9, FwdKeeps, Pieces DEF IInv, FwdInv
  <2>11. \A a \in Frame : AckFrame(a) => AckFrame(a)'
    <3>1. ~Opening
      BY <2>1, Near DEF IInv, Counts
    <3> QED BY <1>1, <1>2, <1>4, <2>1, <2>2, <3>1 DEF AckFrame, IsClosed
  <2>12. BackInv'
    BY <1>1, <1>2, <2>1, <2>2, <2>11, Near, ReplySent
  <2> QED BY <1>5, <2>5, <2>8, <2>10, <2>12 DEF IInv
<1>7. CASE rx.action # "Deliver"
  <2>1. delivered' = delivered /\ n' = n /\ Taken' = n /\ Taken = n
        /\ rx'.expected = rx.expected
    BY <1>3, <1>7 DEF RxReply, n, Taken
  <2>2. Counts'
    BY <1>1, <1>2, <2>1 DEF IInv, Counts, InOrder, AckedLead
  <2>3. RxCoherent'
    BY <1>1, <1>2, <1>3, <1>4, <2>1 DEF IInv, RxCoherent
  <2>4. \A f \in Frame : FwdFrame(f) => FwdFrame(f)'
    BY <1>1, <1>2, <1>4, <2>1 DEF FwdFrame, Ordered
  <2>5. FwdInv'
    BY <1>1, <2>4, FwdKeeps, Pieces DEF IInv, FwdInv
  <2>6. \A a \in Frame : AckFrame(a) => AckFrame(a)'
    BY <1>1, <1>2, <1>4, <2>1 DEF AckFrame
  <2>7. Active /\ rx.reply.type = "Ack" /\ rx.reply.pos \in 1 .. sent => rx.reply.pos <= n
    BY <1>1, <2>1 DEF IInv, BackInv, AckFrame
  <2>8. BackInv'
    BY <1>1, <1>2, <2>1, <2>6, <2>7, Near, ReplySent
  <2> QED BY <1>5, <2>2, <2>3, <2>5, <2>8 DEF IInv
<1> QED BY <1>6, <1>7

-----------------------------------------------------------------------------
LEMMA InvInit == Init => IInv
<1> SUFFICES ASSUME Init PROVE IInv
  OBVIOUS
<1>1. /\ tx.state = "Idle" /\ tx.flight.kind = "None" /\ ~tx.writing /\ tx.seq = 0
      /\ rx.action = "None" /\ rx.finish_seq = NoSeq /\ ~rx.abort_latched
      /\ rx.expected = 0
      /\ fwd = <<>> /\ back = <<>> /\ sent = 0 /\ acked = 0 /\ delivered = <<>>
  BY DEF Init, TxInit, RxInit, NoFlight
<1>2. n = 0 /\ 0 % SeqMod = 0 /\ ~IsFinished(rx) /\ ~Replying(rx)
  BY <1>1, ModSmall, SeqTypes DEF n, IsFinished, Replying
<1>3. TxCoherent
  BY <1>1 DEF TxCoherent
<1>4. Counts
  BY <1>1, <1>2 DEF Counts, InOrder, AckedLead, Opening
<1>5. FwdInv /\ BackInv
  BY <1>1, <1>2 DEF FwdInv, BackInv
<1>6. RxCoherent
  BY <1>1, <1>2 DEF RxCoherent
<1> QED BY <1>3, <1>4, <1>5, <1>6, TypeInit DEF IInv

LEMMA InvStep == DrainedRestart = TRUE /\ IInv /\ [Next]_vars => IInv'
<1> SUFFICES ASSUME DrainedRestart = TRUE, IInv, [Next]_vars PROVE IInv'
  OBVIOUS
<1>1. TypeOK'
  BY TypeStep DEF IInv
<1>2. CASE UNCHANGED vars
  <2>1. IInv <=> IInv'
    BY <1>2 DEF IInv, TypeOK, TxCoherent, Counts, FwdInv, BackInv, RxCoherent, FwdFrame,
                AckFrame, InOrder, AckedLead, Active, Opening, Streaming, Taken, n,
                Ordered, IsFinished, IsClosed, Replying, InFlight, vars, history
  <2> QED BY <2>1
<1> QED BY <1>1, <1>2, StepAppStart, StepAppOffer, StepAppFinish, StepAppAbort,
           StepPeerAbort, StepTxBeginWrite, StepTxEndWrite, StepTxRead,
           StepTxEmptyRead, StepRxRead, StepRxReply
        DEF Next, TxPoll, RxPoll

(* The sender's flight, the frames and ACKs on the wires and the           *)
(* receiver's latches fit together in every reachable state.               *)
THEOREM Invariance ==
  ASSUME DrainedRestart = TRUE
  PROVE  Spec => []IInv
<1>1. IInv /\ [Next]_vars => IInv'
  BY InvStep
<1> QED BY <1>1, InvInit, PTL DEF Spec

(* "Deliver payload bytes in order, at most once" (PROTOCOL.md, section 1),*)
(* for every SEQ width from three values up, every retry policy, and any   *)
(* number of bytes, sessions, aborts and line faults.                      *)
THEOREM DeliversInOrder ==
  ASSUME DrainedRestart = TRUE
  PROVE  Spec => []InOrder
<1>1. IInv => InOrder
  BY DEF IInv, Counts
<1> QED BY <1>1, Invariance, PTL

(* FINISH never closes over a hole, at either end of the link. *)
THEOREM ClosesComplete ==
  ASSUME DrainedRestart = TRUE
  PROVE  Spec => []CloseIsComplete
<1>1. IInv => CloseIsComplete
  BY DEF IInv, RxCoherent, CloseIsComplete, n
<1> QED BY <1>1, Invariance, PTL

(* TxPoll::Acked runs ahead of Delivered by the first byte at most. *)
THEOREM AcksLeadByOne ==
  ASSUME DrainedRestart = TRUE
  PROVE  Spec => []AckedLead
<1>1. IInv => AckedLead
  BY DEF IInv, Counts
<1> QED BY <1>1, Invariance, PTL

-----------------------------------------------------------------------------
(* Step by step, StopWait implements ByteStream, and a closed receiver     *)
(* stays quiet.                                                            *)

(* The status a sender's state stands for. *)
LEMMA StatusValues ==
  ASSUME TxCoherent
  PROVE  /\ tx.state = "Finished" => Status = "done"
         /\ tx.state = "Failed" => Status = "failed"
         /\ tx.state = "Aborted" => Status = "cancelled"
         /\ tx.state \notin Terminal /\ tx.flight.kind = "Abort" => Status = "cancelled"
         /\ tx.state \notin Terminal /\ tx.flight.kind # "Abort" => Status = "open"
BY DEF TxCoherent, Status, Terminal

(* The same in the next state. *)
LEMMA StatusAfter ==
  ASSUME TxCoherent'
  PROVE  /\ tx'.state = "Finished" => Status' = "done"
         /\ tx'.state = "Failed" => Status' = "failed"
         /\ tx'.state = "Aborted" => Status' = "cancelled"
         /\ tx'.state \notin Terminal /\ tx'.flight.kind = "Abort" => Status' = "cancelled"
         /\ tx'.state \notin Terminal /\ tx'.flight.kind # "Abort" => Status' = "open"
BY DEF TxCoherent, Status, Terminal

LEMMA RefinesInit == Init => Service!Init
BY DEF Init, TxInit, NoFlight, Service!Init, Status

LEMMA RefinesStep == IInv /\ IInv' /\ [Next]_vars => [Service!Next]_(Service!vars)
<1> SUFFICES ASSUME IInv, IInv', [Next]_vars
             PROVE  Service!Next \/ UNCHANGED Service!vars
  OBVIOUS
<1>0. TxCoherent /\ TxCoherent' /\ tx \in TxType
  BY DEF IInv, TypeOK
<1>q. sess' = sess /\ sent' = sent /\ delivered' = delivered /\ Status' = Status
        => UNCHANGED Service!vars
  BY DEF Service!vars
<1>c. sess' = sess /\ sent' = sent /\ delivered' = delivered /\ Status' = "cancelled"
        => Service!Next
  BY DEF Service!Next, Service!Cancel
<1>1. CASE AppStart
  <2>1. tx'.state = "Sending" /\ tx'.flight.kind = "Start"
    BY <1>0, <1>1 DEF AppStart, OfferStart, Begin, TxType
  <2>2. Status' = "open"
    BY <1>0, <2>1, StatusAfter DEF Terminal
  <2> QED BY <1>1, <2>2 DEF AppStart, Service!Next, Service!Open
<1>2. CASE AppOffer
  <2>1. tx'.state = "Sending" /\ tx'.flight.kind = "Data"
    BY <1>0, <1>2 DEF AppOffer, Offer, Begin, TxType
  <2>2. tx.state = "Idle" /\ tx.flight.kind = "None"
    BY <1>2 DEF AppOffer, CanOfferData, InFlight
  <2>3. Status = "open" /\ Status' = "open"
    BY <1>0, <2>1, <2>2, StatusAfter, StatusValues DEF Terminal
  <2> QED BY <1>2, <2>3 DEF AppOffer, Service!Next, Service!Offer
<1>3. CASE AppFinish
  <2>1. tx'.state = "Sending" /\ tx'.flight.kind = "Finish"
    BY <1>0, <1>3 DEF AppFinish, OfferFinish, Begin, TxType
  <2>2. tx.state = "Idle" /\ tx.flight.kind = "None"
    BY <1>3 DEF AppFinish, CanOfferData, InFlight
  <2>3. Status = "open" /\ Status' = "open"
    BY <1>0, <2>1, <2>2, StatusAfter, StatusValues DEF Terminal
  <2> QED BY <1>q, <1>3, <2>3 DEF AppFinish, history
<1>4. CASE AppAbort
  <2>1. tx'.state = "Sending" /\ tx'.flight.kind = "Abort"
    BY <1>0, <1>4 DEF AppAbort, OfferAbort, Begin, TxType
  <2>2. Status' = "cancelled"
    BY <1>0, <2>1, StatusAfter DEF Terminal
  <2> QED BY <1>c, <1>4, <2>2 DEF AppAbort, history
<1>5. CASE PeerAbort
  <2>1. Status' = Status
    BY <1>5 DEF PeerAbort, Status
  <2> QED BY <1>q, <1>5, <2>1 DEF PeerAbort, history
<1>6. CASE TxBeginWrite
  <2>1. SameFlight(tx', tx) /\ tx'.state = "Sending" /\ InFlight(tx)
    BY <1>0, <1>6, WriteFields DEF TxBeginWrite, WantsWrite
  <2>2. tx.state \notin Terminal /\ tx'.state \notin Terminal
    BY <2>1, Airborne DEF Terminal
  <2>3. Status' = Status
    BY <1>0, <2>1, <2>2, StatusAfter, StatusValues DEF SameFlight
  <2> QED BY <1>q, <1>6, <2>3 DEF TxBeginWrite, history
<1>7. CASE TxEndWrite
  <2>1. SameFlight(tx', tx) /\ tx'.state = "WaitingAck" /\ InFlight(tx)
    BY <1>0, <1>7, WriteFields DEF TxEndWrite, IInv, TypeOK
  <2>2. tx.state \notin Terminal /\ tx'.state \notin Terminal
    BY <2>1, Airborne DEF Terminal
  <2>3. Status' = Status
    BY <1>0, <2>1, <2>2, StatusAfter, StatusValues DEF SameFlight
  <2> QED BY <1>q, <1>7, <2>3 DEF TxEndWrite, history
<1>f. ASSUME InFlight(tx), sess' = sess, sent' = sent, delivered' = delivered,
             \/ tx'.flight.kind = "None" /\ tx'.state = "Failed"
             \/ SameFlight(tx', tx) /\ tx'.state \in {"Retrying", tx.state}
      PROVE  Service!Next \/ UNCHANGED Service!vars
  <2>1. tx.state \notin Terminal
    BY <1>f, Airborne
  <2>2. CASE tx'.flight.kind = "None" /\ tx'.state = "Failed"
    <3>1. Status \in {"open", "cancelled"} /\ Status' = "failed"
      BY <1>0, <2>1, <2>2, StatusAfter, StatusValues
    <3> QED BY <1>f, <3>1 DEF Service!Next, Service!Fail
  <2>3. CASE SameFlight(tx', tx) /\ tx'.state \in {"Retrying", tx.state}
    <3>1. tx'.state \notin Terminal
      BY <2>1, <2>3 DEF Terminal
    <3>2. Status' = Status
      BY <1>0, <2>1, <2>3, <3>1, StatusAfter, StatusValues DEF SameFlight
    <3> QED BY <1>f, <1>q, <3>2
  <2> QED BY <1>f, <2>2, <2>3
<1>8. CASE TxRead
  <2> DEFINE h == Head(back)
  <2>1. /\ Waits(tx) /\ InFlight(tx) /\ tx' = OnControl(tx, h) /\ h \in Frame
        /\ sess' = sess /\ sent' = sent /\ delivered' = delivered
    BY <1>8, TailFacts DEF TxRead, Waits, IInv, TypeOK
  <2>2. tx.state \notin Terminal /\ tx.flight.kind \in FlightKinds
    BY <2>1, Airborne
  <2> HIDE DEF h
  <2>3. CASE tx' = ForceAbort(tx)
    <3>1. Status' = "cancelled"
      BY <1>0, <2>3, ForceAbortFields, StatusAfter
    <3> QED BY <1>c, <2>1, <3>1
  <2>4. CASE tx' = OnAck(tx)
    <3>1. CASE tx.flight.kind \in {"Data", "Start"}
      <4>1. tx'.state = "Idle" /\ tx'.flight.kind = "None"
        BY <1>0, <2>4, <3>1, AckFields
      <4>2. Status = "open" /\ Status' = "open"
        BY <1>0, <2>2, <3>1, <4>1, StatusAfter, StatusValues DEF Terminal
      <4> QED BY <1>q, <2>1, <4>2
    <3>2. CASE tx.flight.kind = "Finish"
      <4>1. tx'.state = "Finished"
        BY <1>0, <2>4, <3>2, AckFields
      <4>2. Status = "open" /\ Status' = "done"
        BY <1>0, <2>2, <3>2, <4>1, StatusAfter, StatusValues
      <4>3. Len(delivered) = sent
        BY <2>1, <4>1 DEF IInv, RxCoherent, n
      <4> QED BY <2>1, <4>2, <4>3 DEF Service!Next, Service!Complete
    <3>3. CASE tx.flight.kind = "Abort"
      <4>1. tx'.state = "Aborted"
        BY <1>0, <2>4, <3>3, AckFields
      <4>2. Status' = "cancelled"
        BY <1>0, <4>1, StatusAfter
      <4> QED BY <1>c, <2>1, <4>2
    <3> QED BY <2>2, <3>1, <3>2, <3>3 DEF FlightKinds
  <2> QED BY <1>0, <1>f, <2>1, <2>3, <2>4, ControlFields
<1>9. CASE TxEmptyRead
  <2>1. /\ Waits(tx) /\ InFlight(tx) /\ tx' = OnEmptyRead(tx)
        /\ sess' = sess /\ sent' = sent /\ delivered' = delivered
    BY <1>9 DEF TxEmptyRead, Waits, history
  <2> QED BY <1>0, <1>f, <2>1, AttemptFields
<1>10. CASE RxRead
  <2>1. Status' = Status
    BY <1>10 DEF RxRead, Status
  <2> QED BY <1>q, <1>10, <2>1 DEF RxRead, history
<1>11. CASE RxReply
  <2>1. Status' = Status /\ sess' = sess /\ sent' = sent
    BY <1>11 DEF RxReply, Status
  <2>2. CASE rx.action = "Deliver"
    <3>1. /\ rx.reply.sess = sess /\ rx.reply.pos = Len(delivered) + 1
          /\ Len(delivered) + 1 <= sent
      BY <2>2 DEF IInv, RxCoherent, n
    <3>2. Len(delivered) < sent
      BY <3>1 DEF IInv, TypeOK
    <3>3. delivered' = Append(delivered, [sess |-> sess, pos |-> Len(delivered) + 1])
      BY <1>11, <2>2, <3>1 DEF RxReply
    <3> QED BY <2>1, <3>2, <3>3 DEF Service!Next, Service!Deliver
  <2>3. CASE rx.action # "Deliver"
    BY <1>q, <1>11, <2>1, <2>3 DEF RxReply
  <2> QED BY <2>2, <2>3
<1>12. CASE UNCHANGED vars
  <2>1. Status' = Status
    BY <1>12 DEF vars, Status
  <2> QED BY <1>q, <1>12, <2>1 DEF vars, history
<1> QED BY <1>1, <1>2, <1>3, <1>4, <1>5, <1>6, <1>7, <1>8, <1>9, <1>10, <1>11,
           <1>12 DEF Next, TxPoll, RxPoll

(* Sender, wires and receiver together are a byte stream: every behaviour  *)
(* of the link, seen through Status, is one of ByteStream.                 *)
THEOREM Refinement ==
  ASSUME DrainedRestart = TRUE
  PROVE  Spec => ImplementsByteStream
<1>1. Spec => []IInv
  BY Invariance
<1> QED BY <1>1, RefinesInit, RefinesStep, PTL DEF Spec, ImplementsByteStream, Service!Spec

-----------------------------------------------------------------------------
(* The step behind ClosedIsQuiet. *)
LEMMA QuietWhenClosed ==
  IInv /\ [Next]_vars =>
    [IsClosed(rx) =>
       /\ sess' = sess => delivered' = delivered
       /\ IsClosed(rx') \/ rx'.action = "Started"]_vars
<1> SUFFICES ASSUME IInv, [Next]_vars, IsClosed(rx)
             PROVE  \/ /\ sess' = sess => delivered' = delivered
                       /\ IsClosed(rx') \/ rx'.action = "Started"
                    \/ UNCHANGED vars
  OBVIOUS
<1>1. rx.action # "Deliver" /\ (rx.action = "Started" => ~IsFinished(rx))
  BY DEF IInv, RxCoherent
<1>2. CASE RxRead
  <2>1. /\ delivered' = delivered /\ rx' = TakeFrame(rx, Head(fwd)) /\ ~Replying(rx)
        /\ Head(fwd) \in Frame
    BY <1>2, ReadFrame
  <2>2. \/ Skipped(rx', rx) \/ Nacked(rx', rx)
        \/ Accepted(rx', rx, Head(fwd)) \/ Repeated(rx', rx, Head(fwd))
        \/ Restarted(rx', rx, Head(fwd)) \/ Cancelled(rx', rx, Head(fwd))
        \/ Concluded(rx', rx, Head(fwd))
    BY <2>1, ReadOutcomes, Pieces DEF IInv
  <2>3. CASE Skipped(rx', rx) \/ Nacked(rx', rx)
    BY <2>1, <2>3 DEF Skipped, Nacked, SameLatches, IsClosed, IsFinished
  <2>4. CASE Accepted(rx', rx, Head(fwd)) \/ Repeated(rx', rx, Head(fwd))
    BY <2>4 DEF Accepted, Repeated
  <2>5. CASE Restarted(rx', rx, Head(fwd))
    BY <2>1, <2>5 DEF Restarted
  <2>6. CASE Cancelled(rx', rx, Head(fwd))
    BY <2>1, <2>6 DEF Cancelled, IsClosed
  <2>7. CASE Concluded(rx', rx, Head(fwd))
    <3>1. rx'.finish_seq # NoSeq
      BY <2>7, SeqModAssumption DEF Concluded, Seqs, NoSeq
    <3> QED BY <2>1, <3>1 DEF IsClosed, IsFinished
  <2> QED BY <2>2, <2>3, <2>4, <2>5, <2>6, <2>7
<1>3. CASE RxReply
  <2>1. /\ rx'.abort_latched = rx.abort_latched
        /\ rx'.finish_seq = IF rx.action = "Started" THEN NoSeq ELSE rx.finish_seq
    BY <1>3, PendingFields, Pieces DEF RxReply, IInv
  <2>2. delivered' = delivered
    BY <1>1, <1>3 DEF RxReply
  <2> QED BY <1>1, <2>1, <2>2 DEF IsClosed, IsFinished
<1>4. CASE AppStart
  <2>1. sess' # sess /\ rx' = rx
    BY <1>4 DEF AppStart, IInv, TypeOK
  <2> QED BY <2>1
<1>5. CASE AppOffer \/ AppFinish \/ AppAbort \/ PeerAbort \/ TxPoll
  <2>1. rx' = rx /\ delivered' = delivered
    BY <1>5 DEF AppOffer, AppFinish, AppAbort, PeerAbort, TxPoll, TxBeginWrite,
                TxEndWrite, TxRead, TxEmptyRead, history
  <2> QED BY <2>1
<1> QED BY <1>2, <1>3, <1>4, <1>5 DEF Next, RxPoll

(* FINISH and ABORT are final: until the START of a later session a closed *)
(* receiver delivers nothing and keeps a closing latch.                    *)
THEOREM ClosedStaysQuiet ==
  ASSUME DrainedRestart = TRUE
  PROVE  Spec => ClosedIsQuiet
<1>1. Spec => []IInv
  BY Invariance
<1> QED BY <1>1, QuietWhenClosed, PTL DEF Spec, ClosedIsQuiet
=============================================================================
