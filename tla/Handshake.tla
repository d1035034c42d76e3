------------------------------ MODULE Handshake ------------------------------
(***************************************************************************)
(* Two nodes that shake hands over crossed wires: peer 1 has called        *)
(* Node::connect and peer 2 Node::accept (src/p2p/node.rs), and both poll  *)
(* their PeerLink, as the loop of establish does (src/p2p/drive.rs).       *)
(* Once told Established a peer's application offers payload and FINISH.   *)
(***************************************************************************)
EXTENDS PeerLink

CONSTANTS Offers,           \* Configurations a node may announce
          MaxBytes,         \* Bound: payload bytes a peer offers
          FaultBudget,      \* Bound: frames dropped or corrupted and calls of
                            \* PeerLink::abort, together
          PatientTimeout    \* timeout_ticks exceeds every round trip

Peers == {1, 2}
Other(p) == 3 - p

ASSUME HandshakeAssumption ==
  /\ Offers \subseteq DOMAIN Configs /\ MaxWindow = WindowLen
  /\ MaxBytes \in Nat /\ FaultBudget \in Nat
  /\ PatientTimeout \in BOOLEAN

VARIABLES
  link,     \* link[p]: the PeerLink
  pump,     \* pump[p]: its pump
  tab,      \* tab[p]: the node's table
  ctl, pay, \* frames under way to p's sender, and to p's receiver
  told,     \* history: events p's application was given
  offered,  \* history: payload bytes p's application offered
  got,      \* history: payload bytes p's application received
  merged,   \* history: the ACK of p's last hello byte came with a Received
  faults, aborts

vars == <<link, pump, tab, ctl, pay, told, offered, got, merged, faults, aborts>>

FreshPump == WPumpLimit(WPumpInit, 1)

Init ==
  \E cfg \in [Peers -> Offers] :
    LET t == TableConnect(TableNew, 1, cfg[1])
    IN /\ link = <<LinkConnect(t.slot, t.tab[t.slot]), LinkAccept(2, cfg[2])>>
       /\ tab = <<t.tab, TableNew>>
       /\ pump = [p \in Peers |-> FreshPump]
       /\ ctl = [p \in Peers |-> <<>>] /\ pay = [p \in Peers |-> <<>>]
       /\ told = [p \in Peers |-> {}] /\ offered = [p \in Peers |-> 0]
       /\ got = [p \in Peers |-> <<>>] /\ merged = FALSE
       /\ faults = 0 /\ aborts = 0

(* Nothing that concerns p's flight is under way. *)
Calm(p) == PatientTimeout =>
  pay[Other(p)] = <<>> /\ ~Replying(pump[Other(p)].rx) /\ pump[Other(p)].rx.emit = <<>>

(* What the line makes of a frame: see PumpPair. *)
Carried(f) == {[frames |-> <<f>>, hits |-> 0],
               [frames |-> <<>>, hits |-> 1],
               [frames |-> <<BadFrame>>, hits |-> 1]}

Silence == {[frames |-> <<>>, hits |-> 0]}

Move(p, pu, rs, ts, torn) ==
  \E c \in IF rs = "reply" THEN Carried(pu.rx.reply) ELSE Silence,
     d \in IF ts = "end" THEN Carried(WFlightFrame(pu.tx))
           ELSE IF torn THEN {[frames |-> <<TornFrame(k)>>, hits |-> 0] : k \in 1 .. FrameLen - 1}
           ELSE Silence :
    /\ faults + aborts + c.hits + d.hits <= FaultBudget
    /\ faults' = faults + c.hits + d.hits
    /\ ctl' = [ctl EXCEPT ![p] = IF ts = "read" THEN Tail(@) ELSE @,
                          ![Other(p)] = @ \o c.frames]
    /\ pay' = [pay EXCEPT ![p] = IF rs = "read" THEN Tail(@) ELSE @,
                          ![Other(p)] = @ \o d.frames]

(* PeerLink::poll: offer_next, the pump's poll, and what its event does. *)
Poll(p, rs, ts) ==
  \E o \in {OfferNext(link[p], pump[p].tx)} :
  \E pu \in {[pump[p] EXCEPT !.tx = o.tx]} :
    /\ WCanPoll(pu, rs, ts, ctl[p], pay[p], Calm(p))
    /\ \E r \in WPolled(pu, rs, ts, ctl[p], pay[p]) :
       \E a \in {OnPumpEvent(o.link, r.pump, tab[p], r.event, r.byte.pos)} :
         /\ link' = [link EXCEPT ![p] = a.link]
         /\ pump' = [pump EXCEPT ![p] = a.pump]
         /\ tab' = [tab EXCEPT ![p] = a.tab]
         /\ Move(p, pu, rs, ts, r.torn)
         /\ told' = [told EXCEPT ![p] = @ \cup ({a.event} \ {"Idle", "Progress", "Received"})]
         /\ got' = [got EXCEPT ![p] = IF a.event = "Received" THEN Append(@, r.byte) ELSE @]
         /\ merged' = (merged \/ (r.event = "Received" /\ AnnounceDue(a.link, a.pump.tx)))
         /\ UNCHANGED <<offered, aborts>>

(* The application, once it is told that the hellos crossed. *)

OfferByte(p) ==
  /\ "Established" \in told[p] /\ offered[p] < MaxBytes
  /\ WCanOffer(pump[p].tx)
  /\ pump' = [pump EXCEPT ![p].tx = WOffer(@, 1, offered[p] + 1)]
  /\ offered' = [offered EXCEPT ![p] = @ + 1]
  /\ UNCHANGED <<link, tab, ctl, pay, told, got, merged, faults, aborts>>

Finish(p) ==
  /\ "Established" \in told[p]
  /\ WCanOfferFinish(pump[p].tx)
  /\ pump' = [pump EXCEPT ![p].tx = WOfferFinish(@, 1, offered[p] + 1)]
  /\ UNCHANGED <<link, tab, ctl, pay, told, offered, got, merged, faults, aborts>>

(* PeerLink::abort, at any time. *)
Abort(p) ==
  LET a == LinkAbort(link[p], tab[p])
  IN /\ faults + aborts < FaultBudget
     /\ aborts' = aborts + 1
     /\ link' = [link EXCEPT ![p] = a.link]
     /\ tab' = [tab EXCEPT ![p] = a.tab]
     /\ IF WAbortIsNoop(pump[p].tx) THEN UNCHANGED <<pump, pay>>
        ELSE /\ pump' = [pump EXCEPT ![p].tx = WOfferAbort(@, 0, 0)]
             /\ IF pump[p].tx.writing # 0
                  THEN \E k \in 1 .. FrameLen - 1 :
                         pay' = [pay EXCEPT ![Other(p)] = Append(@, TornFrame(k))]
                  ELSE UNCHANGED pay
     /\ UNCHANGED <<ctl, told, offered, got, merged, faults>>

Next ==
  \E p \in Peers :
    \/ OfferByte(p) \/ Finish(p) \/ Abort(p)
    \/ \E rs \in WRxSteps, ts \in WTxSteps : Poll(p, rs, ts)

(* establish polls both links in turn, and each half then moves on. *)
RxMoves(p) == \E rs \in WRxSteps \ {"none"}, ts \in WTxSteps : Poll(p, rs, ts)
TxMoves(p) == \E rs \in WRxSteps, ts \in WTxSteps \ {"none"} : Poll(p, rs, ts)

Fairness == \A p \in Peers : WF_vars(RxMoves(p)) /\ WF_vars(TxMoves(p))

Spec == Init /\ [][Next]_vars /\ Fairness

-----------------------------------------------------------------------------
(***************************************************************************)
(* "Deterministic on both ends ... No follow-up round needed"              *)
(* (session.rs:205): two established links name each other and hold the    *)
(* same configuration, and so do the tables, whatever was repeated.        *)
(***************************************************************************)
Agree ==
  (\A p \in Peers : link[p].established) =>
    /\ link[1].session.negotiated = link[2].session.negotiated
    /\ \A p \in Peers : /\ link[p].session.remote = Other(p)
                        /\ tab[p][link[p].slot].remote = Other(p)

(***************************************************************************)
(* No sender pipelines further than the peer's receiver takes: a peer that *)
(* was told Established has a send window no larger than the window of the *)
(* receiver it faces, though each end raises its own, at its own moment,   *)
(* and set_window_limit does nothing on a half that is busy.  The          *)
(* exceptions: an abort, where the listener that is told Aborted may still *)
(* send its hello and be told Established; and a half that gave up.        *)
(***************************************************************************)
WindowFits ==
  \A p \in Peers : "Established" \in told[p] =>
    \/ pump[p].tx.limit <= pump[Other(p)].rx.limit
    \/ \E q \in Peers : told[q] \cap {"Aborted", "Transport"} # {}

(***************************************************************************)
(* Hello and payload share the stream and nothing marks the border: every  *)
(* byte an application receives is payload of the other, in order and      *)
(* nothing twice; no hello byte reaches it, no payload is taken for hello. *)
(***************************************************************************)
PayloadIsPayload ==
  \A p \in Peers : /\ Len(got[p]) <= offered[Other(p)]
                   /\ \A i \in 1 .. Len(got[p]) : got[p][i] = [sess |-> 1, pos |-> i]

(***************************************************************************)
(* establish: "Poll both links until both report Established, or fail."    *)
(* With no more faults than a frame has retries both are told, unless one  *)
(* of them aborts or finishes first.  The exception: the ACK of the        *)
(* listener's last hello byte is read in the poll that delivers a payload  *)
(* byte.  Received outranks Sent there, and nothing asks again until the   *)
(* listener, who waits to be told, sends something.                        *)
(***************************************************************************)
HellosCross ==
  <>(\/ \A p \in Peers : "Established" \in told[p]
     \/ merged \/ aborts > 0
     \/ \E p \in Peers : "Closed" \in told[p])
=============================================================================
