------------------------------ MODULE PeerLink ------------------------------
(***************************************************************************)
(* One live neighbour (src/p2p/link.rs): a WindowedPump, a copy of the     *)
(* session and the hello going each way.                                   *)
(*                                                                         *)
(* State record:                                                           *)
(*   session      the copy that sync writes back into the table            *)
(*   slot         index in the table, 0 for None                           *)
(*   outgoing, out_at   our hello and how much of it was offered           *)
(*   incoming     the bytes of the peer's hello so far                     *)
(*   need_start, initiator, established, announced    as in the code       *)
(***************************************************************************)
EXTENDS WindowPump, PeerTable

(* PeerLink::connect, with the session table.connect stored in slot; and   *)
(* PeerLink::accept.  Both set the pump's window to 1.                     *)
LinkConnect(slot, s) ==
  [session |-> s, slot |-> slot, outgoing |-> HelloBytes(s), out_at |-> 0,
   incoming |-> <<>>, need_start |-> TRUE, initiator |-> TRUE,
   established |-> FALSE, announced |-> FALSE]

LinkAccept(id, c) ==
  [session |-> SessionNew(id, c), slot |-> 0, outgoing |-> <<>>, out_at |-> 0,
   incoming |-> <<>>, need_start |-> FALSE, initiator |-> FALSE,
   established |-> FALSE, announced |-> FALSE]

SenderAtRest(w) == Used(w) = {} /\ w.state = "Idle"

(* offer_next: START, then the hello, a byte at a time. *)
OfferNext(l, w) ==
  IF ~SenderAtRest(w) THEN [link |-> l, tx |-> w]
  ELSE IF l.need_start
    THEN [link |-> [l EXCEPT !.need_start = FALSE], tx |-> WOfferStart(w, 0)]
  ELSE IF l.out_at < Len(l.outgoing)
    THEN [link |-> [l EXCEPT !.out_at = @ + 1],
          tx |-> WOffer(w, 0, l.outgoing[l.out_at + 1])]
  ELSE [link |-> l, tx |-> w]

(* sync *)
Synced(l, tab) == IF l.slot = 0 THEN tab ELSE Store(tab, l.slot, l.session)

(* apply_negotiated_window *)
NegotiatedLimit(s) ==
  IF "WINDOW" \in s.negotiated.features THEN s.negotiated.max_window ELSE 1

(* What a call leaves behind: link, pump, table, and the event or error. *)
After(l, pu, tab, ev) == [link |-> l, pump |-> pu, tab |-> tab, event |-> ev]

(* Mutant of OnHelloWhole: the connector too replies with its hello. *)
OnHelloWholeReply(l, pu, tab) ==
  LET t == IF l.initiator
             THEN FinishConnect(tab, l.slot, l.incoming)
             ELSE TableAccept(tab, l.session.local, l.session.config, l.incoming)
      s == t.tab[t.slot]
      l2 == [l EXCEPT !.session = s, !.slot = t.slot, !.established = TRUE,
                      !.outgoing = HelloBytes(s), !.out_at = 0, !.need_start = TRUE,
                      !.announced = l.initiator]
  IN IF t.err # "" THEN After(l, pu, t.tab, t.err)
     ELSE After(l2, WPumpLimit(pu, NegotiatedLimit(s)), Synced(l2, t.tab),
                IF l.initiator THEN "Established" ELSE "Progress")

(* The last byte of the hello has come: the table takes the session. *)
OnHelloWhole(l, pu, tab) ==
  LET t == IF l.initiator
             THEN FinishConnect(tab, l.slot, l.incoming)
             ELSE TableAccept(tab, l.session.local, l.session.config, l.incoming)
      s == t.tab[t.slot]
      l2 == [l EXCEPT
               !.session = s, !.slot = t.slot, !.established = TRUE,
               !.outgoing = IF l.initiator THEN @ ELSE HelloBytes(s),
               !.out_at = IF l.initiator THEN @ ELSE 0,
               !.need_start = IF l.initiator THEN @ ELSE TRUE,
               !.announced = l.initiator]
  IN IF t.err # "" THEN After(l, pu, t.tab, t.err)
     ELSE After(l2, WPumpLimit(pu, NegotiatedLimit(s)), Synced(l2, t.tab),
                IF l.initiator THEN "Established" ELSE "Progress")

(* on_hello_byte.  What comes after a refused hello is dropped. *)
OnHelloByte(l, pu, tab, byte) ==
  IF Len(l.incoming) >= HelloLen THEN After(l, pu, tab, "Progress")
  ELSE LET l2 == [l EXCEPT !.incoming = Append(@, byte)]
       IN IF Len(l2.incoming) < HelloLen THEN After(l2, pu, tab, "Progress")
          ELSE OnHelloWhole(l2, pu, tab)

(* Mutant of AnnounceDue: the hello need only have been offered. *)
AnnounceDueEarly(l, w) ==
  /\ ~l.initiator /\ l.established /\ ~l.announced
  /\ l.out_at >= Len(l.outgoing) /\ ~l.need_start

(* Mutant of AnnounceDue: the sender must be idle and START not yet sent. *)
AnnounceDueNever(l, w) ==
  /\ ~l.initiator /\ l.established /\ ~l.announced
  /\ l.out_at >= Len(l.outgoing) /\ l.need_start
  /\ SenderAtRest(w)

(* The listener says Established when its own hello is ACKed. *)
AnnounceDue(l, w) ==
  /\ ~l.initiator /\ l.established /\ ~l.announced
  /\ l.out_at >= Len(l.outgoing) /\ ~l.need_start
  /\ SenderAtRest(w)

(* The part of poll after the pump's: event ev, and the byte of Received. *)
OnPumpEvent(l, pu, tab, ev, byte) ==
  CASE ev = "Err" -> After(l, pu, tab, "Transport")
    [] ev = "Aborted" ->
         LET l2 == [l EXCEPT !.session = SessionAbort(@)]
         IN After(l2, pu, Synced(l2, tab), "Aborted")
    [] ev = "Completed" ->
         LET l2 == [l EXCEPT !.session = Closed(@)]
         IN After(l2, pu, Synced(l2, tab), "Closed")
    [] ev = "Received" /\ l.established -> After(l, pu, tab, "Received")
    [] ev = "Received" /\ ~l.established -> OnHelloByte(l, pu, tab, byte)
    [] ev \in {"Progress", "Sent"} ->
         IF AnnounceDue(l, pu.tx)
           THEN After([l EXCEPT !.announced = TRUE], pu, tab, "Established")
           ELSE After(l, pu, tab, "Progress")
    [] OTHER -> After(l, pu, tab, "Idle")

(* abort, the pump's part apart. *)
LinkAbort(l, tab) ==
  LET l2 == [l EXCEPT !.session = SessionAbort(@)]
  IN [link |-> l2, tab |-> Synced(l2, tab)]
=============================================================================
