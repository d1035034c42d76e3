-------------------------------- MODULE Page --------------------------------
(***************************************************************************)
(* Pages over one line (src/transport/page.rs): two PageLinks, each over a *)
(* WindowTurn (src/transport/turn.rs), a WindowedPump and a LinkFace.  The *)
(* peer that speaks first streams pages; the other answers each with a     *)
(* status byte, which is what gives the first one its turn back.           *)
(*                                                                         *)
(* The face sorts frames into the rings ctl and pay as in Turn.  Frames    *)
(* are whole here: nobody aborts, and NoTalkOver shows that a peer's two   *)
(* halves never write at the same time.                                    *)
(***************************************************************************)
EXTENDS WindowPump

CONSTANTS PageLen,         \* N, the length of a page and of the queue
          MaxPages,        \* Bound: pages pushed
          FaultBudget,     \* Bound: frames dropped or corrupted
          PatientTimeout   \* timeout_ticks exceeds every round trip

Peers == {1, 2}
Other(p) == 3 - p

ASSUME PageAssumption ==
  /\ PageLen \in Nat \ {0} /\ MaxPages \in Nat /\ FaultBudget \in Nat
  /\ PatientTimeout \in BOOLEAN

VARIABLES
  turn,      \* turn[p]: the fields of WindowTurn
  page,      \* page[p]: the fields of PageLink
  pump,      \* pump[p]: the WindowedPump
  ctl, pay,  \* the rings of p's face
  behind,    \* behind[p]: p's sender has a frame to finish before the reply
  pages,     \* history: the pages pushed, in order
  open,      \* history: the bytes told by Data since the last PageClosed
  closed,    \* history: the pages told by PageClosed
  statuses,  \* history: the bytes told by Status
  faults

vars == <<turn, page, pump, ctl, pay, behind, pages, open, closed, statuses, faults>>

(* WindowTurn::new, PageLink::new *)
WTurnInit(first) == [speak |-> first, buf |-> <<>>, index |-> 0,
                     need_start |-> TRUE, finish_offered |-> FALSE]

PageInit == [phase |-> "Ready", filled |-> 0, status |-> 0, have_status |-> FALSE]

Init ==
  /\ turn = [p \in Peers |-> WTurnInit(p = 1)]
  /\ page = [p \in Peers |-> PageInit]
  /\ pump = [p \in Peers |-> WPumpInit]
  /\ ctl = [p \in Peers |-> <<>>] /\ pay = [p \in Peers |-> <<>>]
  /\ behind = [p \in Peers |-> FALSE]
  /\ pages = <<>> /\ open = <<>> /\ closed = <<>> /\ statuses = <<>>
  /\ faults = 0

-----------------------------------------------------------------------------
(* Nothing that concerns p's flight is under way. *)
Calm(p) == PatientTimeout =>
  \A q \in Peers : pay[q] = <<>> /\ ~Replying(pump[q].rx) /\ pump[q].rx.emit = <<>>

(* What the line makes of a frame.  A corrupted one is sorted with the     *)
(* payload.  The ACK that ends a session is spared: see TurnIsPassed in    *)
(* Turn; and no ACK or NACK is corrupted, as the other side would answer   *)
(* it, in the middle of a frame of its own.                                *)
Dropped == [frames |-> <<>>, hits |-> 1]

CarriedReply(r) ==
  {[frames |-> <<r.reply>>, hits |-> 0]} \cup (IF r.action = "Finished" THEN {} ELSE {Dropped})

CarriedFlight(f) ==
  {[frames |-> <<f>>, hits |-> 0], Dropped, [frames |-> <<BadFrame>>, hits |-> 1]}

Silence == {[frames |-> <<>>, hits |-> 0]}

Move(p, pu, rs, ts) ==
  \E c \in IF rs = "reply" THEN CarriedReply(pu.rx) ELSE Silence,
     d \in IF ts = "end" THEN CarriedFlight(WFlightFrame(pu.tx)) ELSE Silence :
    /\ faults + c.hits + d.hits <= FaultBudget
    /\ faults' = faults + c.hits + d.hits
    /\ ctl' = [ctl EXCEPT ![p] = IF ts = "read" THEN Tail(@) ELSE @,
                          ![Other(p)] = @ \o c.frames]
    /\ pay' = [pay EXCEPT ![p] = IF rs = "read" THEN Tail(@) ELSE @,
                          ![Other(p)] = @ \o d.frames]

(* Both halves move a byte in every poll, so what the sender was writing,  *)
(* or could read, when a reply was loaded is done when the reply is: see   *)
(* InStep in Turn.                                                         *)
InStep(p, rs, ts, after) ==
  /\ rs = "reply" => ~behind[p] \/ ts # "none"
  /\ behind' = [behind EXCEPT ![p] =
       IF rs = "read"
         THEN /\ Replying(after.rx)
              /\ \/ after.tx.writing # 0
                 \/ WReads(after.tx) /\ ts # "read" /\ ctl[p] # <<>>
         ELSE @ /\ ts = "none" /\ rs # "reply"]

-----------------------------------------------------------------------------
(* WindowTurn *)

(* push: as many bytes as fit, none once FINISH is on the wire. *)
Fits(t, n) ==
  IF t.finish_offered THEN 0
  ELSE IF n < PageLen - Len(t.buf) THEN n ELSE PageLen - Len(t.buf)

Pushed(t, bytes) == [t EXCEPT !.buf = @ \o SubSeq(bytes, 1, Fits(t, Len(bytes)))]

(* The loop of drive_tx: bytes are offered until the window refuses one. *)
RECURSIVE FillWindow(_, _)
FillWindow(t, w) ==
  IF t.index < Len(t.buf) /\ WCanOffer(w)
    THEN FillWindow([t EXCEPT !.index = @ + 1], WOffer(w, 0, t.buf[t.index + 1]))
    ELSE [turn |-> t, tx |-> w]

(* drive_tx *)
WDriveTx(t, w) ==
  IF ~t.speak \/ t.buf = <<>> THEN [turn |-> t, tx |-> w]
  ELSE IF t.need_start
    THEN IF WCanOfferStart(w)
           THEN [turn |-> [t EXCEPT !.need_start = FALSE, !.index = 0,
                                    !.finish_offered = FALSE],
                 tx |-> WOfferStart(w, 0)]
           ELSE [turn |-> t, tx |-> w]
  ELSE IF t.finish_offered THEN [turn |-> t, tx |-> w]
  ELSE LET o == FillWindow(t, w)
       IN IF o.turn.index = Len(t.buf) /\ WCanOfferFinish(o.tx)
            THEN [turn |-> [o.turn EXCEPT !.finish_offered = TRUE],
                  tx |-> WOfferFinish(o.tx, 0, 0)]
            ELSE o

WRewind(t) == [t EXCEPT !.need_start = TRUE, !.index = 0, !.finish_offered = FALSE]

(* Mutant of WOnEvent: the turn comes back without a new START. *)
WOnEventNoStart(t, ev) ==
  CASE ev = "Completed" /\ t.speak ->
         [turn |-> [t EXCEPT !.speak = FALSE, !.buf = <<>>, !.index = 0,
                             !.finish_offered = FALSE], event |-> "Yielded"]
    [] ev = "Completed" /\ ~t.speak -> [turn |-> [t EXCEPT !.speak = TRUE], event |-> "Granted"]
    [] ev = "Received" -> [turn |-> t, event |-> "Received"]
    [] OTHER -> [turn |-> t, event |-> "Idle"]

(* The events of poll: what the turn becomes and what its caller is told. *)
WOnEvent(t, ev) ==
  CASE ev = "Completed" /\ t.speak ->
         [turn |-> [WRewind(t) EXCEPT !.speak = FALSE, !.buf = <<>>], event |-> "Yielded"]
    [] ev = "Completed" /\ ~t.speak ->
         [turn |-> [WRewind(t) EXCEPT !.speak = TRUE], event |-> "Granted"]
    [] ev = "Aborted" /\ t.speak -> [turn |-> WRewind(t), event |-> "Idle"]
    [] ev = "Received" -> [turn |-> t, event |-> "Received"]
    [] OTHER -> [turn |-> t, event |-> "Idle"]

-----------------------------------------------------------------------------
(* PageLink *)

(* push_page; the caller may ask for more than a page holds. *)
PushPage(p, n) ==
  LET first == Len(pages) * PageLen
      bytes == [i \in 1 .. n |-> first + i]
      fit == Fits(turn[p], n)
  IN /\ Len(pages) < MaxPages
     /\ page[p].phase = "Ready" /\ turn[p].speak /\ fit > 0
     /\ turn' = [turn EXCEPT ![p] = Pushed(@, bytes)]
     /\ page' = [page EXCEPT ![p].phase = "Sending", ![p].filled = fit]
     /\ pages' = Append(pages, SubSeq(bytes, 1, fit))
     /\ UNCHANGED <<pump, ctl, pay, behind, open, closed, statuses, faults>>

(* ack, with the number of the page for status. *)
AckPage(p) ==
  /\ page[p].phase = "NeedAck" /\ Fits(turn[p], 1) = 1
  /\ turn' = [turn EXCEPT ![p] = Pushed(@, <<Len(closed)>>)]
  /\ page' = [page EXCEPT ![p].phase = "Acking"]
  /\ UNCHANGED <<pump, ctl, pay, behind, pages, open, closed, statuses, faults>>

(* Mutant of Take: a page is closed with the count of the one before. *)
TakeStale(g, ev, byte) ==
  CASE g.phase = "Sending" /\ ev = "Yielded" ->
         [page |-> [g EXCEPT !.phase = "WaitStatus", !.filled = 0, !.have_status = FALSE],
          event |-> "Idle"]
    [] g.phase = "WaitStatus" /\ ev = "Received" ->
         [page |-> [g EXCEPT !.status = byte, !.have_status = TRUE], event |-> "Idle"]
    [] g.phase = "WaitStatus" /\ ev = "Granted" /\ g.have_status ->
         [page |-> [g EXCEPT !.have_status = FALSE, !.phase = "Ready"], event |-> "Status"]
    [] g.phase \in {"Ready", "Receiving"} /\ ev = "Received" ->
         [page |-> [g EXCEPT !.phase = "Receiving", !.filled = @ + 1], event |-> "Data"]
    [] g.phase \in {"Ready", "Receiving"} /\ ev = "Granted" /\ g.filled > 0 ->
         [page |-> [g EXCEPT !.phase = "NeedAck"], event |-> "PageClosed"]
    [] g.phase = "Acking" /\ ev = "Yielded" ->
         [page |-> [g EXCEPT !.phase = "Ready"], event |-> "Idle"]
    [] OTHER -> [page |-> g, event |-> "Idle"]

(* take: what the event of the turn means in this phase.  PageClosed comes *)
(* with filled as it was, and Status with status.                          *)
Take(g, ev, byte) ==
  CASE g.phase = "Sending" /\ ev = "Yielded" ->
         [page |-> [g EXCEPT !.phase = "WaitStatus", !.filled = 0, !.have_status = FALSE],
          event |-> "Idle"]
    [] g.phase = "WaitStatus" /\ ev = "Received" ->
         [page |-> [g EXCEPT !.status = byte, !.have_status = TRUE], event |-> "Idle"]
    [] g.phase = "WaitStatus" /\ ev = "Granted" /\ g.have_status ->
         [page |-> [g EXCEPT !.have_status = FALSE, !.phase = "Ready"], event |-> "Status"]
    [] g.phase \in {"Ready", "Receiving"} /\ ev = "Received" ->
         [page |-> [g EXCEPT !.phase = "Receiving", !.filled = @ + 1], event |-> "Data"]
    [] g.phase \in {"Ready", "Receiving"} /\ ev = "Granted" /\ g.filled > 0 ->
         [page |-> [g EXCEPT !.phase = "NeedAck", !.filled = 0], event |-> "PageClosed"]
    [] g.phase = "Acking" /\ ev = "Yielded" ->
         [page |-> [g EXCEPT !.phase = "Ready"], event |-> "Idle"]
    [] OTHER -> [page |-> g, event |-> "Idle"]

(* poll: WindowTurn's drive_tx, the pump's poll, its event, and take. *)
Poll(p, rs, ts) ==
  \E o \in {WDriveTx(turn[p], pump[p].tx)} :
  \E pu \in {[pump[p] EXCEPT !.tx = o.tx]} :
    /\ WCanPoll(pu, rs, ts, ctl[p], pay[p], Calm(p))
    /\ \E r \in WPolled(pu, rs, ts, ctl[p], pay[p]) :
       \E e \in {WOnEvent(o.turn, r.event)} :
       \E a \in {Take(page[p], e.event, r.byte.pos)} :
         /\ pump' = [pump EXCEPT ![p] = r.pump]
         /\ turn' = [turn EXCEPT ![p] = e.turn]
         /\ page' = [page EXCEPT ![p] = a.page]
         /\ Move(p, pu, rs, ts) /\ InStep(p, rs, ts, r.pump)
         /\ open' = CASE a.event = "Data" -> Append(open, r.byte.pos)
                      [] a.event = "PageClosed" -> <<>>
                      [] OTHER -> open
         /\ closed' = IF a.event = "PageClosed"
                        THEN Append(closed, [bytes |-> open, len |-> page[p].filled])
                        ELSE closed
         /\ statuses' = IF a.event = "Status" THEN Append(statuses, a.page.status) ELSE statuses
         /\ UNCHANGED pages

Next == \E p \in Peers :
          \/ \E n \in 1 .. PageLen + 1 : PushPage(p, n)
          \/ AckPage(p)
          \/ \E rs \in WRxSteps, ts \in WTxSteps : Poll(p, rs, ts)

(* Each peer's loop polls for ever, and the listener answers its pages. *)
RxMoves(p) == \E rs \in WRxSteps \ {"none"}, ts \in WTxSteps : Poll(p, rs, ts)
TxMoves(p) == \E rs \in WRxSteps, ts \in WTxSteps \ {"none"} : Poll(p, rs, ts)
Pays(p) == pump[p].pending_completed /\ Poll(p, "none", "none")

Fairness ==
  \A p \in Peers : /\ WF_vars(RxMoves(p)) /\ WF_vars(TxMoves(p)) /\ WF_vars(Pays(p))
                   /\ WF_vars(AckPage(p))

Spec == Init /\ [][Next]_vars /\ Fairness

-----------------------------------------------------------------------------
(***************************************************************************)
(* WindowTurn "opens one session at a time - so two STARTs never share the *)
(* wire": a peer never writes a reply while its sender is inside a frame,  *)
(* also with a window of frames under way and while the turn changes hands.*)
(***************************************************************************)
NoTalkOver == \A p \in Peers : ~(pump[p].tx.writing # 0 /\ Replying(pump[p].rx))

(***************************************************************************)
(* The listener is told the pages that were pushed, each whole, in order   *)
(* and closed with its own length, and the speaker is told the status of   *)
(* each, after its page was closed and before the next is pushed.          *)
(***************************************************************************)
PagesMatch ==
  /\ Len(statuses) <= Len(closed) /\ Len(closed) <= Len(pages)
  /\ Len(pages) <= Len(statuses) + 1
  /\ \A i \in DOMAIN closed : closed[i] = [bytes |-> pages[i], len |-> Len(pages[i])]
  /\ \A i \in DOMAIN statuses : statuses[i] = i

(***************************************************************************)
(* "That byte is the listener's turn, and it is what lets the next page    *)
(* start" (page.rs): a page that is pushed is answered and the speaker     *)
(* ready again, with no more faults than a frame has retries.              *)
(***************************************************************************)
PageIsAnswered == page[1].phase = "Sending" ~> page[1].phase = "Ready"
=============================================================================
