------------------------------ MODULE PumpPair ------------------------------
(***************************************************************************)
(* Two pumps on crossed wires, each a Sender facing the other's Receiver.  *)
(* A peer in Blocking runs Pump::send_all over a source of MaxBytes bytes, *)
(* and polls by hand once that has returned.  Any other peer calls         *)
(* Pump::poll by hand and, if it is in Talking, the functions that offer   *)
(* something to the sender.                                                *)
(*                                                                         *)
(* Every byte a receiver delivers is recorded in `out'; the ones a caller  *)
(* of poll is told of are recorded in `got'.                               *)
(***************************************************************************)
EXTENDS Pump

CONSTANTS Blocking,         \* Peers that call send_all
          Talking,          \* Peers that call the offer functions by hand
          MaxBytes,         \* Bound: bytes a peer sends
          MaxSessions,      \* Bound: calls of offer_start at each peer
          MaxAborts,        \* Bound: calls of Pump::abort
          FaultBudget,      \* Bound: frames dropped or corrupted
          PatientTimeout    \* timeout_ticks exceeds every round trip

Peers == {1, 2}
Other(p) == 3 - p

ASSUME PairAssumption ==
  /\ Blocking \subseteq Peers /\ Talking \subseteq Peers \ Blocking
  /\ MaxBytes \in Nat /\ MaxSessions \in Nat /\ MaxAborts \in Nat
  /\ FaultBudget \in Nat /\ PatientTimeout \in BOOLEAN

VARIABLES
  pump,     \* the two pumps
  ctl,      \* ctl[p]: replies under way to p's sender
  pay,      \* pay[p]: frames under way to p's receiver
  app,      \* app[p]: the caller, see AppInit
  out,      \* history: bytes p's receiver delivered
  got,      \* history: bytes p's caller was given by a poll of its own
  told,     \* history: which of Aborted and Err p's caller was given
  due,      \* history: ends of sessions p's caller has yet to be told, see Ended
  spurious, \* history: p's caller was given a Completed for no such end
  faults, aborts

vars == <<pump, ctl, pay, app, out, got, told, due, spurious, faults, aborts>>

(* The caller: its session number, the bytes it has offered in it, and for *)
(* send_all the locals finish_offered and n and the value it returned.     *)
AppInit(p) == [sess |-> 0, offered |-> 0, finish_offered |-> FALSE, n |-> 0,
               ret |-> IF p \in Blocking THEN "running" ELSE "by hand"]

Init ==
  /\ pump = [p \in Peers |-> PumpInit]
  /\ ctl = [p \in Peers |-> <<>>] /\ pay = [p \in Peers |-> <<>>]
  /\ app = [p \in Peers |-> AppInit(p)]
  /\ out = [p \in Peers |-> <<>>] /\ got = [p \in Peers |-> <<>>]
  /\ told = [p \in Peers |-> {}] /\ due = [p \in Peers |-> {}]
  /\ spurious = [p \in Peers |-> FALSE]
  /\ faults = 0 /\ aborts = 0

ByHand(p) == app[p].ret # "running"

(* Nothing that concerns p's flight is under way. *)
Calm(p) == PatientTimeout =>
             pay[Other(p)] = <<>> /\ ~Replying(pump[Other(p)].rx)

(* What the line makes of frame f: the frames that arrive and the hits. *)
Carried(f) == {[frames |-> <<f>>, hits |-> 0],
               [frames |-> <<>>, hits |-> 1],
               [frames |-> <<BadFrame>>, hits |-> 1]}

Silence == {[frames |-> <<>>, hits |-> 0]}

(* A poll of pump pu at p: the frames it consumes and the ones it sends. *)
Move(p, pu, rs, ts, torn) ==
  \E c \in IF rs = "reply" THEN Carried(pu.rx.reply) ELSE Silence,
     d \in IF ts = "end" THEN Carried(FlightFrame(pu.tx))
           ELSE IF torn THEN {[frames |-> <<TornFrame(k)>>, hits |-> 0] : k \in 1 .. FrameLen - 1}
           ELSE Silence :
    /\ faults + c.hits + d.hits <= FaultBudget
    /\ faults' = faults + c.hits + d.hits
    /\ ctl' = [ctl EXCEPT ![p] = IF ts = "read" THEN Tail(@) ELSE @,
                          ![Other(p)] = @ \o c.frames]
    /\ pay' = [pay EXCEPT ![p] = IF rs = "read" THEN Tail(@) ELSE @,
                          ![Other(p)] = @ \o d.frames]

Byte(pu) == [sess |-> pu.rx.reply.sess, pos |-> pu.rx.reply.pos]

Delivers(pu, rs) == RxOutcome(pu.rx, rs) = "Deliver"

(***************************************************************************)
(* The ends of sessions in a poll of pump pu that leaves its sender in t:  *)
(* the own FINISH is ACKed, in session s; the ACK of the peer's FINISH or  *)
(* ABORT is written.                                                       *)
(***************************************************************************)
OwnEnds(pu, t, s) ==
  {e \in {[end |-> "own FINISH", sess |-> s]} :
     t.state = "Finished" /\ pu.tx.state # "Finished"}

PeerEnds(pu, rs) ==
  {e \in {[end |-> RxOutcome(pu.rx, rs), sess |-> pu.rx.reply.sess]} :
     e.end \in {"Finished", "Aborted"}}

Ended(pu, rs, t, s) == OwnEnds(pu, t, s) \cup PeerEnds(pu, rs)

(* The ends that an event speaks of.  Err and Aborted are about the sender *)
(* or the peer's ABORT, and outrank the peer's FINISH in the same poll;    *)
(* they never stand for an own FINISH that was ACKed.                      *)
Tells(event) ==
  CASE event = "Completed" -> {"own FINISH", "Finished"}
    [] event \in {"Err", "Aborted"} -> {"Finished", "Aborted"}
    [] OTHER -> {}

Untold(E, event) == {e \in E : e.end \notin Tells(event)}

-----------------------------------------------------------------------------
(* Calls made by hand. *)

HandStart(p) ==
  /\ p \in Talking /\ app[p].sess < MaxSessions
  /\ CanOfferStart(pump[p].tx)
  /\ pump' = [pump EXCEPT ![p].tx = OfferStart(@, app[p].sess + 1)]
  /\ app' = [app EXCEPT ![p].sess = @ + 1, ![p].offered = 0]
  /\ UNCHANGED <<ctl, pay, out, got, told, due, spurious, faults, aborts>>

HandOffer(p) ==
  /\ p \in Talking /\ app[p].offered < MaxBytes
  /\ CanOfferData(pump[p].tx)
  /\ pump' = [pump EXCEPT ![p].tx = Offer(@, app[p].sess, app[p].offered + 1)]
  /\ app' = [app EXCEPT ![p].offered = @ + 1]
  /\ UNCHANGED <<ctl, pay, out, got, told, due, spurious, faults, aborts>>

HandFinish(p) ==
  /\ p \in Talking
  /\ CanOfferData(pump[p].tx)
  /\ pump' = [pump EXCEPT ![p].tx = OfferFinish(@, app[p].sess, app[p].offered + 1)]
  /\ UNCHANGED <<ctl, pay, app, out, got, told, due, spurious, faults, aborts>>

(* Pump::abort, by a caller that is not blocked in send_all. *)
HandAbort(p) ==
  /\ ByHand(p) /\ aborts < MaxAborts
  /\ ~AbortIsNoop(pump[p].tx)
  /\ pump' = [pump EXCEPT ![p].tx = OfferAbort(@, app[p].sess, 0)]
  /\ IF pump[p].tx.writing
       THEN \E k \in 1 .. FrameLen - 1 :
              pay' = [pay EXCEPT ![Other(p)] = Append(@, TornFrame(k))]
       ELSE UNCHANGED pay
  /\ aborts' = aborts + 1
  /\ UNCHANGED <<ctl, app, out, got, told, due, spurious, faults>>

(* Pump::poll, called by hand. *)
HandPoll(p, rs, ts) ==
  LET pu == pump[p]
      r == Polled(pu, rs, ts, ctl[p], pay[p])
      ends == due[p] \cup Ended(pu, rs, r.pump.tx, app[p].sess)
  IN /\ ByHand(p)
     /\ CanPoll(pu, rs, ts, ctl[p], pay[p], Calm(p))
     /\ pump' = [pump EXCEPT ![p] = r.pump]
     /\ Move(p, pu, rs, ts, r.torn)
     /\ out' = [out EXCEPT ![p] = IF Delivers(pu, rs) THEN Append(@, Byte(pu)) ELSE @]
     /\ got' = [got EXCEPT ![p] = IF r.event = "Received" THEN Append(@, Byte(pu)) ELSE @]
     /\ told' = [told EXCEPT ![p] = @ \cup ({r.event} \cap {"Aborted", "Err"})]
     /\ due' = [due EXCEPT ![p] = Untold(ends, r.event)]
     /\ spurious' = [spurious EXCEPT ![p] =
                       @ \/ (r.event = "Completed" /\ Untold(ends, r.event) = ends)]
     /\ UNCHANGED <<app, aborts>>

-----------------------------------------------------------------------------
(* send_all_budgeted: one turn of its loop. *)

(* Mutant of SendAllOffer: the last byte of the source is left out. *)
SendAllOfferShort(p) ==
  LET t == pump[p].tx a == app[p]
  IN IF t.state = "Idle" /\ a.offered + 1 < MaxBytes
       THEN [tx |-> Offer(t, a.sess, a.offered + 1),
             app |-> [a EXCEPT !.offered = @ + 1]]
     ELSE IF t.state = "Idle" /\ ~a.finish_offered
       THEN [tx |-> OfferFinish(t, a.sess, a.offered + 1),
             app |-> [a EXCEPT !.finish_offered = TRUE]]
     ELSE [tx |-> t, app |-> a]

(* The offer before the poll. *)
SendAllOffer(p) ==
  LET t == pump[p].tx a == app[p]
  IN IF t.state = "Idle" /\ a.offered < MaxBytes
       THEN [tx |-> Offer(t, a.sess, a.offered + 1),
             app |-> [a EXCEPT !.offered = @ + 1]]
     ELSE IF t.state = "Idle" /\ ~a.finish_offered
       THEN [tx |-> OfferFinish(t, a.sess, a.offered + 1),
             app |-> [a EXCEPT !.finish_offered = TRUE]]
     ELSE [tx |-> t, app |-> a]

(* What the event of the poll does to the loop.  The idle budget may trip  *)
(* in any poll that brings neither Sent nor Received.                      *)
SendAllReturns(event) ==
  CASE event = "Completed" -> {"Ok"}
    [] event = "Aborted" -> {"Aborted"}
    [] event = "Err" -> {"RetriesExhausted"}
    [] event \in {"Sent", "Received"} -> {"running"}
    [] OTHER -> {"running", "IdleBudgetExhausted"}

SendAllTurn(p, rs, ts) ==
  LET o == SendAllOffer(p)
      pu == [pump[p] EXCEPT !.tx = o.tx]
      r == Polled(pu, rs, ts, ctl[p], pay[p])
  IN /\ app[p].ret = "running"
     /\ CanPoll(pu, rs, ts, ctl[p], pay[p], Calm(p))
     /\ pump' = [pump EXCEPT ![p] = r.pump]
     /\ Move(p, pu, rs, ts, r.torn)
     /\ \E ret \in SendAllReturns(r.event) :
          app' = [app EXCEPT ![p] =
                    [o.app EXCEPT !.n = IF r.last_acked THEN @ + 1 ELSE @,
                                  !.ret = ret]]
     /\ out' = [out EXCEPT ![p] = IF Delivers(pu, rs) THEN Append(@, Byte(pu)) ELSE @]
     /\ UNCHANGED <<got, told, due, spurious, aborts>>

-----------------------------------------------------------------------------
Next ==
  \E p \in Peers :
    \/ HandStart(p) \/ HandOffer(p) \/ HandFinish(p) \/ HandAbort(p)
    \/ \E rs \in RxSteps, ts \in TxSteps :
         HandPoll(p, rs, ts) \/ SendAllTurn(p, rs, ts)

Spec == Init /\ [][Next]_vars

-----------------------------------------------------------------------------
(***************************************************************************)
(* Pump::poll merges two outcomes into one event.  A byte the receiver     *)
(* acknowledged reaches a caller that polls by hand, unless that caller    *)
(* was told of an error or an abort: TransferDone is reported by its edge, *)
(* and a Completed gives way to a byte of the same step.                   *)
(***************************************************************************)
SwallowedIsReported ==
  \A p \in Peers : app[p].ret = "by hand" =>
    got[p] = out[p] \/ told[p] \cap {"Err", "Aborted"} # {}

(***************************************************************************)
(* Every end of every session, the own and the peer's, is told to a caller *)
(* that polls by hand, and no Completed is given for anything else.  An    *)
(* end is told by the poll it happens in; an own FINISH that is ACKed in   *)
(* the poll that gives the caller a byte is told by the next one, and      *)
(* nothing outranks it.  The peer's FINISH gives way to the Err or Aborted *)
(* of that same poll and to no earlier one, its ABORT to the Err.  It is   *)
(* so for a caller that takes over from send_all, too.                     *)
(***************************************************************************)
EndTold ==
  \A p \in Peers : app[p].ret # "running" =>
    /\ ~spurious[p]
    /\ IF pump[p].pending_completed
         THEN \E e \in due[p] : due[p] = {e} /\ e.end = "own FINISH"
         ELSE due[p] = {}

(* Every byte of the source was ACKed and delivered. *)
Drained(p) ==
  /\ app[p].n = MaxBytes
  /\ SelectSeq(out[Other(p)], LAMBDA b : b.sess = 0)
       = [i \in 1 .. MaxBytes |-> [sess |-> 0, pos |-> i]]

(***************************************************************************)
(* Pump::send_all: "Drain src through the pump, then FINISH." (pump.rs:239)*)
(* The Ok it returns is true, unless the Completed it met was that of the  *)
(* peer's own FINISH: poll does not say whose session ended, and send_all  *)
(* then returns with bytes unsent.                                         *)
(***************************************************************************)
SendAllDrains ==
  [][\A p \in Blocking :
       app[p].ret = "running" /\ app'[p].ret = "Ok" /\ ~IsFinished(pump'[p].rx)
         => Drained(p)']_vars
=============================================================================
