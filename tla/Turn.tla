-------------------------------- MODULE Turn --------------------------------
(***************************************************************************)
(* Two peers that take turns on one line (transport/turn.rs): each drives  *)
(* a Pump whose halves share one port through a LinkFace                   *)
(* (transport/face.rs).                                                    *)
(*                                                                         *)
(* The face sorts what arrives: ACK and NACK go to the ring of the sender  *)
(* (ctl), every other frame, and whatever does not decode, to the ring of  *)
(* the receiver (pay).  It sorts when either half reads, so frames are put *)
(* into the rings as they are sent.  The rings do not fill up here.        *)
(*                                                                         *)
(* Both halves of a peer write to the same port.  If the sender is in the  *)
(* middle of a frame while a reply is being written, or if a frame is torn *)
(* by an abort, the peer's assembler is out of step: it then rejects frames*)
(* until it happens upon a boundary, after one frame or after several.     *)
(***************************************************************************)
EXTENDS Pump

CONSTANTS QueueLen,         \* N, the length of a peer's queue
          MaxPush,          \* Bound: bytes pushed at each peer
          MaxAborts,        \* Bound: calls of Turn::abort
          EarlyAborts,      \* A peer aborts only in its turn and before FINISH
          Hits,             \* Types of the frames the line may hit
          FaultBudget,      \* Bound: frames dropped or corrupted
          PatientTimeout    \* timeout_ticks exceeds every round trip

Peers == {1, 2}
Other(p) == 3 - p

ASSUME TurnAssumption ==
  /\ QueueLen \in Nat /\ MaxPush \in Nat /\ MaxAborts \in Nat
  /\ Hits \subseteq FrameTypes /\ EarlyAborts \in BOOLEAN
  /\ FaultBudget \in Nat /\ PatientTimeout \in BOOLEAN

VARIABLES
  turn,      \* turn[p]: the fields of Turn, see TurnInit
  pump,      \* pump[p]: its pump
  ctl,       \* ctl[p]: the control ring of p's face
  pay,       \* pay[p]: the payload ring of p's face
  garbled,   \* garbled[p]: the line from p is out of step
  behind,    \* behind[p]: p's sender has a frame to finish before the reply
  pushed,    \* history: bytes pushed at p
  got,       \* history: bytes p's caller received in the peer's session
  faults, aborts

vars == <<turn, pump, ctl, pay, garbled, behind, pushed, got, faults, aborts>>

(* Turn::new.  A queued byte is its number among those pushed at the peer. *)
TurnInit(first) == [speak |-> first, buf |-> <<>>, index |-> 0,
                    need_start |-> TRUE, finish_offered |-> FALSE]

Init ==
  /\ turn = [p \in Peers |-> TurnInit(p = 1)]
  /\ pump = [p \in Peers |-> PumpInit]
  /\ ctl = [p \in Peers |-> <<>>] /\ pay = [p \in Peers |-> <<>>]
  /\ garbled = [p \in Peers |-> FALSE] /\ behind = [p \in Peers |-> FALSE]
  /\ pushed = [p \in Peers |-> 0] /\ got = [p \in Peers |-> <<>>]
  /\ faults = 0 /\ aborts = 0

-----------------------------------------------------------------------------
(* The line. *)

(* Nothing that concerns p's flight is under way. *)
Calm(p) == PatientTimeout =>
             /\ pay[p] = <<>> /\ pay[Other(p)] = <<>>
             /\ \A q \in Peers : ~Replying(pump[q].rx)

(* What the line makes of frame f: the frame that arrives and the hit. *)
Carried(f) ==
  {[frames |-> <<f>>, hits |-> 0]} \cup
  IF f.type \in Hits THEN {[frames |-> <<>>, hits |-> 1],
                           [frames |-> <<BadFrame>>, hits |-> 1]}
                     ELSE {}

Silence == {[frames |-> <<>>, hits |-> 0]}

Bad(c) == IF c.frames = <<>> THEN c ELSE [c EXCEPT !.frames = <<BadFrame>>]

(* FaceInner::ingest: what of an arrival goes to the sender's ring, and    *)
(* what to the receiver's.                                                 *)
IsControl(f) == f.type \in {"Ack", "Nack"}

ForSender(c) == IF c.frames # <<>> /\ IsControl(Head(c.frames)) THEN c.frames ELSE <<>>
ForReceiver(c) == IF c.frames # <<>> /\ ~IsControl(Head(c.frames)) THEN c.frames ELSE <<>>

(* A poll of pump pu at p, after which it is r.pump: the frames it consumes*)
(* and the ones it writes, the reply's last byte before the sender's.      *)
Move(p, pu, rs, ts, r) ==
  LET mixed == r.torn \/ (r.pump.tx.writing /\ Replying(r.pump.rx))
      q == Other(p)
  IN \E c \in IF rs = "reply" THEN Carried(pu.rx.reply) ELSE Silence,
        d \in IF ts = "end" THEN Carried(FlightFrame(pu.tx)) ELSE Silence,
        step \in IF garbled[p] /\ (rs = "reply" \/ ts = "end")
                   THEN {"lost", "found"} ELSE {"kept"} :
       LET c1 == IF step = "lost" THEN Bad(c) ELSE c
           d1 == IF step = "lost" THEN Bad(d) ELSE d
       IN /\ faults + c.hits + d.hits <= FaultBudget
          /\ faults' = faults + c.hits + d.hits
          /\ garbled' = [garbled EXCEPT ![p] = mixed \/ (@ /\ step # "found")]
          /\ ctl' = [ctl EXCEPT ![p] = IF ts = "read" THEN Tail(@) ELSE @,
                                ![q] = @ \o ForSender(c1) \o ForSender(d1)]
          /\ pay' = [pay EXCEPT
                       ![p] = IF rs = "read" THEN Tail(@) ELSE @,
                       ![q] = @ \o ForReceiver(c1) \o ForReceiver(d1)]

(* Both halves move a byte in every poll.  A reply is written in four of   *)
(* them, so a frame that the sender was writing, or could read, when the   *)
(* reply was loaded is done when the reply is.                             *)
InStep(p, rs, ts, r) ==
  /\ rs = "reply" => ~behind[p] \/ ts # "none"
  /\ behind' = [behind EXCEPT ![p] =
       IF rs = "read"
         THEN /\ Replying(r.pump.rx)
              /\ \/ r.pump.tx.writing
                 \/ Waits(r.pump.tx) /\ ts # "read" /\ ctl[p] # <<>>
         ELSE @ /\ ts = "none" /\ rs # "reply"]

-----------------------------------------------------------------------------
(* Turn::push, one byte. *)
Push(p) ==
  /\ pushed[p] < MaxPush
  /\ ~turn[p].finish_offered
  /\ Len(turn[p].buf) < QueueLen
  /\ turn' = [turn EXCEPT ![p].buf = Append(@, pushed[p] + 1)]
  /\ pushed' = [pushed EXCEPT ![p] = @ + 1]
  /\ UNCHANGED <<pump, ctl, pay, garbled, behind, got, faults, aborts>>

(* The session starts over: what abort and an Aborted event do to a turn. *)
Rewind(t) == [t EXCEPT !.need_start = TRUE, !.index = 0, !.finish_offered = FALSE]

(* Turn::abort: the queue and the turn stay. *)
Abort(p) ==
  /\ aborts < MaxAborts
  /\ EarlyAborts => turn[p].speak /\ ~turn[p].finish_offered
  /\ aborts' = aborts + 1
  /\ turn' = [turn EXCEPT ![p] = Rewind(@)]
  /\ IF AbortIsNoop(pump[p].tx)
       THEN UNCHANGED <<pump, garbled>>
       ELSE /\ pump' = [pump EXCEPT ![p].tx = OfferAbort(@, 0, 0)]
            /\ garbled' = [garbled EXCEPT ![p] = @ \/ pump[p].tx.writing]
  /\ UNCHANGED <<ctl, pay, behind, pushed, got, faults>>

(* Mutants of DriveTx: nobody asks whose turn it is; FINISH is offered     *)
(* before the last byte.                                                   *)
DriveTxAnyTurn(t, s) ==
  LET keep == [turn |-> t, tx |-> s]
      len == Len(t.buf)
  IN IF len = 0 THEN keep
     ELSE IF t.need_start
       THEN IF CanOfferStart(s)
              THEN [turn |-> [t EXCEPT !.need_start = FALSE, !.index = 0,
                                       !.finish_offered = FALSE],
                    tx |-> OfferStart(s, 0)]
              ELSE keep
     ELSE IF ~CanOfferData(s) THEN keep
     ELSE IF t.index < len
       THEN [turn |-> [t EXCEPT !.index = @ + 1],
             tx |-> Offer(s, 0, t.buf[t.index + 1])]
     ELSE IF ~t.finish_offered
       THEN [turn |-> [t EXCEPT !.finish_offered = TRUE],
             tx |-> OfferFinish(s, 0, 0)]
     ELSE keep

DriveTxShort(t, s) ==
  LET keep == [turn |-> t, tx |-> s]
      len == Len(t.buf)
  IN IF ~t.speak \/ len = 0 THEN keep
     ELSE IF t.need_start
       THEN IF CanOfferStart(s)
              THEN [turn |-> [t EXCEPT !.need_start = FALSE, !.index = 0,
                                       !.finish_offered = FALSE],
                    tx |-> OfferStart(s, 0)]
              ELSE keep
     ELSE IF ~CanOfferData(s) THEN keep
     ELSE IF t.index + 1 < len
       THEN [turn |-> [t EXCEPT !.index = @ + 1],
             tx |-> Offer(s, 0, t.buf[t.index + 1])]
     ELSE IF ~t.finish_offered
       THEN [turn |-> [t EXCEPT !.finish_offered = TRUE],
             tx |-> OfferFinish(s, 0, 0)]
     ELSE keep

(***************************************************************************)
(* Turn::drive_tx: the turn and the sender after it has offered what comes *)
(* next.                                                                   *)
(***************************************************************************)
DriveTx(t, s) ==
  LET keep == [turn |-> t, tx |-> s]
      len == Len(t.buf)
  IN IF ~t.speak \/ len = 0 THEN keep
     ELSE IF t.need_start
       THEN IF CanOfferStart(s)
              THEN [turn |-> [t EXCEPT !.need_start = FALSE, !.index = 0,
                                       !.finish_offered = FALSE],
                    tx |-> OfferStart(s, 0)]
              ELSE keep
     ELSE IF ~CanOfferData(s) THEN keep
     ELSE IF t.index < len
       THEN [turn |-> [t EXCEPT !.index = @ + 1],
             tx |-> Offer(s, 0, t.buf[t.index + 1])]
     ELSE IF ~t.finish_offered
       THEN [turn |-> [t EXCEPT !.finish_offered = TRUE],
             tx |-> OfferFinish(s, 0, 0)]
     ELSE keep

(* Mutants of OnEvent: the next session is not asked to START; an abort    *)
(* flips the turn.                                                         *)
OnEventNoStart(t, event) ==
  CASE event = "Completed" /\ t.speak ->
         [t EXCEPT !.speak = FALSE, !.buf = <<>>, !.finish_offered = FALSE]
    [] event = "Completed" /\ ~t.speak -> [t EXCEPT !.speak = TRUE]
    [] event = "Aborted" /\ t.speak -> Rewind(t)
    [] OTHER -> t

OnEventFlipOnAbort(t, event) ==
  CASE event = "Completed" /\ t.speak ->
         [Rewind(t) EXCEPT !.speak = FALSE, !.buf = <<>>]
    [] event = "Completed" /\ ~t.speak -> [Rewind(t) EXCEPT !.speak = TRUE]
    [] event = "Aborted" /\ t.speak -> [Rewind(t) EXCEPT !.speak = FALSE]
    [] OTHER -> t

(* What a pump event does to the turn: Yielded, Granted, or an abort that  *)
(* leaves the turn where it is.                                            *)
OnEvent(t, event) ==
  CASE event = "Completed" /\ t.speak ->
         [Rewind(t) EXCEPT !.speak = FALSE, !.buf = <<>>]
    [] event = "Completed" /\ ~t.speak -> [Rewind(t) EXCEPT !.speak = TRUE]
    [] event = "Aborted" /\ t.speak -> Rewind(t)
    [] OTHER -> t

(* Turn::poll: drive_tx, then one poll of the pump. *)
Poll(p, rs, ts) ==
  \E o \in {DriveTx(turn[p], pump[p].tx)} :
  \E pu \in {[pump[p] EXCEPT !.tx = o.tx]} :
     /\ CanPoll(pu, rs, ts, ctl[p], pay[p], Calm(p))
     /\ \E r \in {Polled(pu, rs, ts, ctl[p], pay[p])} :
          /\ pump' = [pump EXCEPT ![p] = r.pump]
          /\ turn' = [turn EXCEPT ![p] = OnEvent(o.turn, r.event)]
          /\ Move(p, pu, rs, ts, r)
          /\ InStep(p, rs, ts, r)
          /\ got' = [got EXCEPT ![p] = IF r.event = "Received"
                                         THEN Append(@, pu.rx.reply.pos) ELSE @]
     /\ UNCHANGED <<pushed, aborts>>

Next == \E p \in Peers :
          \/ Push(p) \/ Abort(p)
          \/ \E rs \in RxSteps, ts \in TxSteps : Poll(p, rs, ts)

(* Each peer's loop polls for ever, and each half then moves its frame on. *)
RxMoves(p) == \E rs \in RxSteps \ {"none"}, ts \in TxSteps : Poll(p, rs, ts)
TxMoves(p) == \E rs \in RxSteps, ts \in TxSteps \ {"none"} : Poll(p, rs, ts)
Pays(p) == pump[p].pending_completed /\ Poll(p, "none", "none")

Fairness ==
  \A p \in Peers : WF_vars(RxMoves(p)) /\ WF_vars(TxMoves(p)) /\ WF_vars(Pays(p))

Spec == Init /\ [][Next]_vars /\ Fairness

-----------------------------------------------------------------------------
(***************************************************************************)
(* "ACK and DATA never share the wire from two speakers at once"           *)
(* (turn.rs:5): no peer writes a reply while its own sender is in the      *)
(* middle of a frame, also while the turn changes hands.                   *)
(***************************************************************************)
NoTalkOver == \A p \in Peers : ~(pump[p].tx.writing /\ Replying(pump[p].rx))

(* The sender of p was cancelled by the other's ABORT.  It stays Aborted   *)
(* until p's own next START, and until then Pump::poll reports Aborted and *)
(* nothing else at p: no byte, no Completed (pump.rs:211).                 *)
Deaf(p) == pump[p].tx.state = "Aborted" /\ ~InFlight(pump[p].tx)

(***************************************************************************)
(* A session that ends hands the turn over: "Our session finished. The     *)
(* peer may speak next." (turn.rs:26).  The peers are never both waiting   *)
(* for a session of the other, unless an abort left the listener deaf.     *)
(***************************************************************************)
SomeoneSpeaks == \E p \in Peers : turn[p].speak \/ Deaf(p)

(***************************************************************************)
(* A byte leaves p's queue only once the peer's caller has received it,    *)
(* unless an abort left that caller deaf: "Same turn, same payload"        *)
(* (turn.rs:129).  Without an abort what the caller received is a prefix of*)
(* what was pushed: over several turns, each a session that counts SEQ from*)
(* 0 again, with frames hit and sent again, and behind stale replies.      *)
(* (With Hits that spare ACKs no frame is repeated once it was taken; how  *)
(* such a repetition is met is InOrder of StopWait.)                       *)
(***************************************************************************)
YieldedIsReceived ==
  \A p \in Peers :
    LET theirs == got[Other(p)]
        gone == pushed[p] - Len(turn[p].buf)
    IN /\ \/ Deaf(Other(p))
          \/ \A b \in 1 .. gone : \E j \in 1 .. Len(theirs) : theirs[j] = b
       /\ aborts = 0 => /\ Len(theirs) <= pushed[p]
                        /\ \A i \in 1 .. Len(theirs) : theirs[i] = i

(***************************************************************************)
(* A peer yields for its own FINISH only: the Completed that ends its turn *)
(* is not the end of a session of the other peer, whoever aborts and       *)
(* wherever a frame is torn.  (Pump::poll does not say whose it is.)       *)
(***************************************************************************)
YieldsForOwnFinish ==
  [][\A p \in Peers : turn[p].speak /\ ~turn'[p].speak => turn[p].finish_offered]_vars

(***************************************************************************)
(* A speaker with something to say says it and gives the turn away, to a   *)
(* peer that takes it unless an abort left it deaf.  The only other way out*)
(* is an abort that tears a frame: the line may then be out of step for    *)
(* longer than the retries last, and a Turn whose sender Failed never opens*)
(* another session (drive_tx keeps need_start FALSE).                      *)
(***************************************************************************)
TurnIsPassed ==
  \A p \in Peers :
    turn[p].speak /\ turn[p].buf # <<>> ~>
      \/ ~turn[p].speak /\ (turn[Other(p)].speak \/ Deaf(Other(p)))
      \/ aborts > 0 /\ pump[p].tx.state = "Failed"
=============================================================================
