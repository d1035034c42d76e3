------------------------------- MODULE Callers -------------------------------
(***************************************************************************)
(* The loops an application runs stop-and-wait links in (src/stream.rs,    *)
(* src/timeout.rs, src/actors/).  Each link's sender is drained by a       *)
(* send_all of its own.  The receiving side is one of                      *)
(*                                                                         *)
(*   recv_all   drain_recv over the receiver of link 1, under an           *)
(*              IdleBudget, into a SliceSink;                              *)
(*   system     System<RxActor, Capacity>: the receivers of all links as   *)
(*              actors that one loop ticks in turn;                        *)
(*   by hand    an application that polls the receiver of link 1 for ever. *)
(*                                                                         *)
(* Nothing polls a receiver once recv_all or its actor is done, and nothing*)
(* polls a sender once send_all has returned: that is what these loops add *)
(* to the link of StopWait, and what a lost ACK, a full sink or a short    *)
(* budget runs into.                                                       *)
(*                                                                         *)
(* A poll moves one byte; here one poll moves one frame, so IdleLimit      *)
(* counts frame times.  The sender's timeout is patient: it does not expire*)
(* while the frame or its answer is still to be handled.                   *)
(***************************************************************************)
EXTENDS Sender, Receiver, FiniteSets

CONSTANTS Links,         \* Bound: the links, 1 .. n
          Capacity,      \* System's N
          MaxBytes,      \* Bound: bytes in a source
          SinkLens,      \* Bound: lengths of recv_all's buffer
          IdleLimit,     \* IdleBudget.limit
          FaultBudget    \* Bound: frames hit, or polls that return Err

ASSUME CallersAssumption ==
  /\ Links \subseteq Nat \ {0} /\ 1 \in Links /\ IsFiniteSet(Links)
  /\ Capacity \in Nat \ {0} /\ MaxBytes \in Nat /\ SinkLens \subseteq Nat
  /\ IdleLimit \in Nat /\ FaultBudget \in Nat

VARIABLES
  host,      \* which loop the receiving side runs
  tx, rx,    \* per link: Sender and Receiver
  fwd, back, \* per link: the wires
  src,       \* per link: the source, [len, fails]
  send,      \* per link: send_all's locals and result
  sink,      \* per link: positions handed to the application
  recv,      \* drain_recv's locals and result
  sys,       \* System: slots, cursor, live, done
  waited,    \* history: per link, ticks of the others since its actor's last
  faults     \* frames hit and polls failed

link == <<tx, rx, fwd, back>>
vars == <<host, link, src, send, sink, recv, sys, waited, faults>>

Free == 0          \* an Option::None slot
Slots == 1 .. Capacity

Init ==
  /\ host \in {"recv_all", "system", "by hand"}
  /\ tx = [l \in Links |-> TxInit] /\ rx = [l \in Links |-> RxInit]
  /\ fwd = [l \in Links |-> <<>>] /\ back = [l \in Links |-> <<>>]
  /\ src \in [Links -> [len : 0 .. MaxBytes, fails : BOOLEAN]]
  /\ host # "system" =>
       \A l \in Links \ {1} : src[l] = [len |-> 0, fails |-> FALSE]
  /\ send = [l \in Links |-> [res |-> "Run", read |-> 0, n |-> 0, gone |-> FALSE]]
  /\ sink = [l \in Links |-> <<>>]
  /\ \E room \in SinkLens :
       recv = [res |-> "Run", n |-> 0, idle |-> 0, len |-> room]
  /\ host # "recv_all" => recv.len = MaxBytes
  /\ sys = [slots |-> [i \in Slots |-> Free], cursor |-> 1, live |-> 0,
            done |-> {}]
  /\ waited = [l \in Links |-> 0]
  /\ faults = 0

Spawned(l) == \E i \in Slots : sys.slots[i] = l

(* The links that take part, and those whose receiver is polled no more. *)
Active(l) == IF host = "system" THEN Spawned(l) ELSE l = 1
Stopped(l) == l \in sys.done \/ (l = 1 /\ recv.res # "Run")

(* Frame f is written: it arrives, is lost or arrives damaged. *)
Arrivals(w, f) ==
  {[wire |-> Append(w, f), hit |-> 0]} \cup
  {[wire |-> x, hit |-> 1] :
     x \in IF faults < FaultBudget THEN {w, Append(w, BadFrame)} ELSE {}}

-----------------------------------------------------------------------------
(* send_all over send_byte and send_finish. *)

Running(l) == Active(l) /\ send[l].res = "Run"

(* SliceSource::read_byte: bytes that are left.  A source of the           *)
(* application's own may fail instead of ending.                           *)
Remaining(l) == src[l].len - send[l].read

(* src.read_byte, and the offer that opens send_byte or send_finish. *)
SendNext(l) ==
  /\ Running(l)
  /\ CanOfferData(tx[l])
  /\ \/ /\ Remaining(l) > 0
        /\ tx' = [tx EXCEPT ![l] = Offer(@, l, send[l].read + 1)]
        /\ send' = [send EXCEPT ![l].read = @ + 1]
     \/ /\ Remaining(l) = 0 /\ ~src[l].fails
        /\ tx' = [tx EXCEPT ![l] = OfferFinish(@, l, src[l].len + 1)]
        /\ UNCHANGED send
     \/ /\ Remaining(l) = 0 /\ src[l].fails
        /\ send' = [send EXCEPT ![l].res = "Source"]
        /\ UNCHANGED tx
  /\ UNCHANGED <<host, rx, fwd, back, src, sink, recv, sys, waited, faults>>

(* What the blocked call makes of the sender's poll: Acked counts the byte *)
(* and TransferDone, Aborted or an error ends send_all.                    *)
Settle(s, t, u) ==
  IF s.res # "Run" THEN s
  ELSE CASE u.state = "Finished" -> [s EXCEPT !.res = "Ok"]
         [] u.state = "Aborted" -> [s EXCEPT !.res = "Aborted"]
         [] u.state = "Failed" -> [s EXCEPT !.res = "RetriesExhausted"]
         [] u.state = "Idle" /\ t.flight.kind = "Data" -> [s EXCEPT !.n = @ + 1]
         [] OTHER -> s

(* A sender is polled by its send_all, or by the send_abort that follows a *)
(* failed one.                                                             *)
StillPolls(l) == Running(l) \/ tx[l].flight.kind = "Abort"

SendPoll(l) ==
  /\ StillPolls(l)
  /\ \/ /\ WantsWrite(tx[l])
        /\ \E a \in Arrivals(fwd[l], FlightFrame(tx[l])) :
             /\ fwd' = [fwd EXCEPT ![l] = a.wire]
             /\ faults' = faults + a.hit
        /\ tx' = [tx EXCEPT ![l] = EndWrite(BeginWrite(@))]
        /\ UNCHANGED back
     \/ /\ Waits(tx[l]) /\ back[l] # <<>>
        /\ tx' = [tx EXCEPT ![l] = OnControl(@, Head(back[l]))]
        /\ back' = [back EXCEPT ![l] = Tail(@)]
        /\ UNCHANGED <<fwd, faults>>
     \/ /\ Waits(tx[l]) /\ back[l] = <<>>
        /\ Stopped(l) \/ (fwd[l] = <<>> /\ ~Replying(rx[l]))
        /\ tx' = [tx EXCEPT ![l] = OnEmptyRead(@)]
        /\ UNCHANGED <<fwd, back, faults>>
  /\ send' = [send EXCEPT ![l] = Settle(@, tx[l], tx'[l])]
  /\ UNCHANGED <<host, rx, src, sink, recv, sys, waited>>

(* The transport fails a poll: send_all returns with the frame in flight,  *)
(* perhaps in the middle of its write.                                     *)
SendError(l) ==
  /\ Running(l) /\ InFlight(tx[l])
  /\ faults < FaultBudget
  /\ faults' = faults + 1
  /\ tx' = [tx EXCEPT ![l] =
              IF WantsWrite(@) THEN BeginWrite(@) ELSE @]
  /\ send' = [send EXCEPT ![l].res = "Transport"]
  /\ UNCHANGED <<host, rx, fwd, back, src, sink, recv, sys, waited>>

(* The application gives the session up after an Err, once: send_abort. *)
SendAbort(l) ==
  /\ send[l].res \notin {"Run", "Ok"} /\ ~send[l].gone
  /\ ~AbortIsNoop(tx[l])
  /\ send' = [send EXCEPT ![l].gone = TRUE]
  /\ tx' = [tx EXCEPT ![l] = OfferAbort(@, l, 0)]
  /\ IF tx[l].writing
       THEN \E k \in 1 .. FrameLen - 1 :
              fwd' = [fwd EXCEPT ![l] = Append(@, TornFrame(k))]
       ELSE UNCHANGED fwd
  /\ UNCHANGED <<host, rx, back, src, sink, recv, sys, waited, faults>>

-----------------------------------------------------------------------------
(* Receiver::poll on link l; out is its outcome. *)

RxPoll(l, out) ==
  \/ /\ Replying(rx[l])
     /\ out = rx[l].action
     /\ rx' = [rx EXCEPT ![l] = TakePending(@)]
     /\ \E a \in Arrivals(back[l], rx[l].reply) :
          /\ back' = [back EXCEPT ![l] = a.wire]
          /\ faults' = faults + a.hit
     /\ UNCHANGED fwd
  \/ /\ ~Replying(rx[l]) /\ fwd[l] # <<>>
     /\ out = "Pending"
     /\ rx' = [rx EXCEPT ![l] = TakeFrame(@, Head(fwd[l]))]
     /\ fwd' = [fwd EXCEPT ![l] = Tail(@)]
     /\ UNCHANGED <<back, faults>>
  \/ /\ ~Replying(rx[l]) /\ fwd[l] = <<>>
     /\ out = "Pending"
     /\ UNCHANGED <<rx, fwd, back, faults>>
  \/ /\ faults < FaultBudget
     /\ out = "Err"
     /\ faults' = faults + 1
     /\ UNCHANGED <<rx, fwd, back>>

Outcomes == Actions \cup {"Pending", "Err"}

-----------------------------------------------------------------------------
(* recv_all: drain_recv, its IdleBudget and its SliceSink. *)

(* Mutant of IdleTick: the idle polls are not counted. *)
IdleTickFree(r) == r

(* IdleBudget::tick. *)
IdleTick(r) ==
  IF r.idle + 1 > IdleLimit
    THEN [r EXCEPT !.idle = @ + 1, !.res = "IdleBudgetExhausted"]
    ELSE [r EXCEPT !.idle = @ + 1]

(* SliceSink::write_byte has room. *)
SinkTakes(r) == r.n < r.len

(* Mutant of OnOutcome: a byte the sink refuses is counted all the same. *)
OnOutcomeKeeps(r, out) ==
  CASE out = "Deliver" -> [r EXCEPT !.n = @ + 1, !.idle = 0]
    [] out = "Finished" -> [r EXCEPT !.res = "Ok"]
    [] out = "Aborted" -> [r EXCEPT !.res = "Aborted"]
    [] out = "Err" -> [r EXCEPT !.res = "Transport"]
    [] out = "Pending" -> IdleTick(r)
    [] OTHER -> [r EXCEPT !.idle = 0]

(* One turn of the loop of drain_recv.  The byte the sink refuses has been *)
(* acknowledged.                                                           *)
OnOutcome(r, out) ==
  CASE out = "Deliver" ->
         IF SinkTakes(r) THEN [r EXCEPT !.n = @ + 1, !.idle = 0]
                         ELSE [r EXCEPT !.res = "Full"]
    [] out = "Finished" -> [r EXCEPT !.res = "Ok"]
    [] out = "Aborted" -> [r EXCEPT !.res = "Aborted"]
    [] out = "Err" -> [r EXCEPT !.res = "Transport"]
    [] out = "Pending" -> IdleTick(r)
    [] OTHER -> [r EXCEPT !.idle = 0]

RecvPoll ==
  /\ host = "recv_all" /\ recv.res = "Run"
  /\ \E out \in Outcomes :
       /\ RxPoll(1, out)
       /\ recv' = OnOutcome(recv, out)
       /\ sink' = IF out = "Deliver" /\ SinkTakes(recv)
                    THEN [sink EXCEPT ![1] = Append(@, rx[1].reply.pos)]
                    ELSE sink
  /\ UNCHANGED <<host, tx, src, send, sys, waited>>

(* Receiver::poll called by hand: whatever it returns, it is called again. *)
HandPoll ==
  /\ host = "by hand"
  /\ \E out \in Outcomes :
       /\ RxPoll(1, out)
       /\ sink' = IF out = "Deliver"
                    THEN [sink EXCEPT ![1] = Append(@, rx[1].reply.pos)]
                    ELSE sink
  /\ UNCHANGED <<host, tx, src, send, recv, sys, waited>>

-----------------------------------------------------------------------------
(* System::spawn and System::tick over RxActor::tick. *)

(* spawn: the first free slot.  A finished actor keeps its slot. *)
Spawn(l) ==
  /\ host = "system"
  /\ ~Spawned(l)
  /\ \E i \in Slots :
       /\ sys.slots[i] = Free
       /\ \A j \in 1 .. i - 1 : sys.slots[j] # Free
       /\ sys' = [sys EXCEPT !.slots[i] = l, !.live = @ + 1]
  /\ UNCHANGED <<host, link, src, send, sink, recv, waited, faults>>

NextSlot(i) == IF i = Capacity THEN 1 ELSE i + 1

Live(i) == sys.slots[i] # Free /\ sys.slots[i] \notin sys.done

(* Mutant of Picked: the walk starts at the first slot every time. *)
PickedFirst == CHOOSE i \in Slots : Live(i) /\ \A j \in 1 .. i - 1 : ~Live(j)

(* The first live slot from the cursor on, wrapping. *)
Picked ==
  CHOOSE i \in Slots :
    /\ Live(i)
    /\ \A j \in Slots : Live(j) => (i - sys.cursor) % Capacity
                                     <= (j - sys.cursor) % Capacity

(* RxActor::tick *)
ActorTick(out) ==
  CASE out = "Deliver" -> "Ready"
    [] out \in {"Finished", "Aborted"} -> "Done"
    [] out = "Err" -> "Err"
    [] OTHER -> "Pending"

(* tick: an actor that is Done is retired, one that returns Err is not. *)
SystemTick ==
  /\ host = "system"
  /\ sys.live > 0
  /\ \E i \in {Picked}, out \in Outcomes :
       LET l == sys.slots[i] IN
       /\ RxPoll(l, out)
       /\ sys' = IF ActorTick(out) = "Done"
                   THEN [sys EXCEPT !.cursor = NextSlot(i), !.live = @ - 1,
                                    !.done = @ \cup {l}]
                   ELSE [sys EXCEPT !.cursor = NextSlot(i)]
       /\ sink' = IF ActorTick(out) = "Ready"
                    THEN [sink EXCEPT ![l] = Append(@, rx[l].reply.pos)]
                    ELSE sink
       /\ waited' = [m \in Links |-> IF m = l \/ ~Spawned(m) \/ m \in sys.done
                                       THEN 0 ELSE waited[m] + 1]
  /\ UNCHANGED <<host, tx, src, send, recv>>

-----------------------------------------------------------------------------
Next ==
  \/ \E l \in Links : SendNext(l) \/ SendPoll(l) \/ SendError(l) \/ SendAbort(l)
                        \/ Spawn(l)
  \/ RecvPoll
  \/ HandPoll
  \/ SystemTick

(* The loops are what polls: each keeps running until it returns. *)
Fairness ==
  /\ \A l \in Links : WF_vars(SendNext(l) \/ SendPoll(l))
  /\ WF_vars(RecvPoll) /\ WF_vars(HandPoll)
  /\ WF_vars(SystemTick)

Spec == Init /\ [][Next]_vars /\ Fairness

-----------------------------------------------------------------------------
(***************************************************************************)
(* Ok of either loop is end to end.  When send_all returns Ok(n), n is the *)
(* length of the source and every byte of it is in the application's sink, *)
(* in order, although an ACK is written before the sink has taken the byte *)
(* and the sink may refuse it; and the receiving loop has returned too.    *)
(* When recv_all returns Ok(n) the sink holds the whole source, whatever   *)
(* the sender makes of it.  An actor is Done with the whole source unless  *)
(* its sender gave the session up.                                         *)
(***************************************************************************)
Whole(l) == sink[l] = [i \in 1 .. src[l].len |-> i]

EndToEnd ==
  /\ \A l \in Links : send[l].res = "Ok" =>
       /\ Whole(l) /\ send[l].n = src[l].len
       /\ host # "by hand" => Stopped(l)
  /\ recv.res = "Ok" => Whole(1) /\ recv.n = src[1].len
  /\ \A l \in sys.done : Whole(l) \/ send[l].res \notin {"Run", "Ok"}

(***************************************************************************)
(* max_retries ride out as many hits of the line.  send_all runs out of    *)
(* them only because nobody polls the receiver any more: recv_all gave up  *)
(* (a full sink, its IdleBudget, its transport), or recv_all or the actor  *)
(* was done with FINISH and the line then hit its ACK.  The re-ACK of a    *)
(* repeated FINISH (PROTOCOL.md:142) saves the sender of a peer that polls *)
(* on; neither loop stays to give it.                                      *)
(***************************************************************************)
GivesUpOnlyIf ==
  \A l \in Links : send[l].res = "RetriesExhausted" =>
    /\ Stopped(l)
    /\ faults = 0 => recv.res \in {"Full", "IdleBudgetExhausted"}

(***************************************************************************)
(* Every call returns: send_all always, by its retries, and recv_all by its*)
(* IdleBudget even when the sender's source or transport failed and no     *)
(* FINISH will come.                                                       *)
(***************************************************************************)
EveryCallReturns ==
  <>[]( /\ \A l \in Links : Active(l) => send[l].res # "Run"
        /\ host = "recv_all" => recv.res # "Run" )

(***************************************************************************)
(* Round robin: between two ticks of an actor every other scheduled actor  *)
(* is ticked at most once, however often one of them has something to do,  *)
(* and actors that finish or are spawned on the way cost nobody a turn.    *)
(***************************************************************************)
NoActorStarves ==
  \A l \in Links : Spawned(l) =>
    waited[l] < Cardinality({m \in Links : Spawned(m)})
=============================================================================
