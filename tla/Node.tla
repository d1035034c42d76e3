-------------------------------- MODULE Node --------------------------------
(***************************************************************************)
(* A node with several neighbours (src/p2p/node.rs): one table, and one    *)
(* PeerLink for each wire, polled in any order.  The application opens and *)
(* drops links and removes slots as it likes; the table and the copy of    *)
(* the session that each link keeps must not drift apart.                  *)
(*                                                                         *)
(* The wires are taken to be perfect here: what a link offers is ACKed by  *)
(* its next poll (see Handshake for the lossy case).  The neighbour at the *)
(* end of a wire sends its hello, and again when it restarts; it may end   *)
(* or cancel its session, or stop answering.                               *)
(***************************************************************************)
EXTENDS PeerLink

CONSTANTS Wires,
          Neighbour,     \* Neighbour[w]: the identity at the end of wire w
          Offers,        \* Configurations a neighbour may announce
          OwnId, OwnConfig,
          MaxOpens,      \* Bound: links opened
          MaxRestarts    \* Bound: restarts of neighbours

ASSUME NodeAssumption ==
  /\ \A w \in Wires : Neighbour[w] \in Nat \ {Nobody}
  /\ Offers \subseteq Nat /\ OwnId \in Nat \ {Nobody} /\ OwnConfig \in DOMAIN Configs
  /\ MaxOpens \in Nat /\ MaxRestarts \in Nat

VARIABLES
  tab,        \* the node's table
  link,       \* link[w]: the PeerLink on wire w, or NoLink
  heard,      \* heard[w]: bytes of the neighbour's hello that came
  cancelled,  \* the links whose every poll says Aborted from now on
  removed,    \* history: links whose slot the application removed
  spoilt,     \* history: slots that such a link wrote into afterwards
  opens, restarts

vars == <<tab, link, heard, cancelled, removed, spoilt, opens, restarts>>

NoLink == LinkAccept(Nobody, 0)
Open == {w \in Wires : link[w] # NoLink}

Init ==
  /\ tab = TableNew /\ link = [w \in Wires |-> NoLink]
  /\ heard = [w \in Wires |-> 0] /\ cancelled = {}
  /\ removed = {} /\ spoilt = {} /\ opens = 0 /\ restarts = 0

Opened(w, l) ==
  /\ w \notin Open /\ opens < MaxOpens
  /\ opens' = opens + 1
  /\ link' = [link EXCEPT ![w] = l]
  /\ UNCHANGED <<heard, cancelled, removed, spoilt, restarts>>

(* Node::connect.  A full table refuses and nothing changes. *)
NodeConnect(w) ==
  LET t == TableConnect(tab, OwnId, OwnConfig)
  IN /\ t.err = ""
     /\ Opened(w, LinkConnect(t.slot, t.tab[t.slot]))
     /\ tab' = t.tab

(* Node::accept *)
NodeAccept(w) == Opened(w, LinkAccept(OwnId, OwnConfig)) /\ UNCHANGED tab

(* Bookkeeping: wire w's link has left the table as t. *)
Wrote(w, t) ==
  /\ tab' = t
  /\ spoilt' = IF w \in removed THEN spoilt \cup {i \in TableSlots : t[i] # tab[i]} ELSE spoilt

(* What the pump of w may report, with the byte of Received: the next one  *)
(* of the hello, which a neighbour that listens only sends in reply.       *)
PumpReports(w) ==
  IF w \in cancelled THEN {<<"Aborted", 0>>}
  ELSE {"Progress", "Completed", "Aborted", "Err"} \X {0}
       \cup {<<"Received", b>> : b \in
              IF heard[w] = HelloLen \/ (link[w].initiator /\ link[w].out_at < HelloLen) THEN {}
              ELSE IF heard[w] = 0 THEN {Neighbour[w]} ELSE Offers}

(* PeerLink::poll *)
Poll(w, ev, byte) ==
  LET l == OfferNext(link[w], WPumpInit.tx).link
      a == OnPumpEvent(l, WPumpInit, tab, ev, byte)
  IN /\ w \in Open
     /\ link' = [link EXCEPT ![w] = a.link]
     /\ Wrote(w, a.tab)
     /\ heard' = IF ev = "Received" THEN [heard EXCEPT ![w] = @ + 1] ELSE heard
     /\ cancelled' = IF ev = "Aborted" THEN cancelled \cup {w} ELSE cancelled
     /\ UNCHANGED <<removed, opens, restarts>>

(* PeerLink::abort.  Until ABORT is out, poll still takes in what comes. *)
Abort(w) ==
  LET a == LinkAbort(link[w], tab)
  IN /\ w \in Open /\ w \notin cancelled
     /\ link' = [link EXCEPT ![w] = a.link]
     /\ Wrote(w, a.tab)
     /\ UNCHANGED <<heard, cancelled, removed, opens, restarts>>

(* PeerTable::remove, which tells no link. *)
RemoveSlot(i) ==
  /\ i \in Occupied(tab)
  /\ tab' = Remove(tab, i)
  /\ removed' = removed \cup {w \in Open : link[w].slot = i}
  /\ spoilt' = spoilt \ {i}
  /\ UNCHANGED <<link, heard, cancelled, opens, restarts>>

(* The application lets go of a link; its slot stays as it is. *)
Drop(w) ==
  /\ w \in Open
  /\ link' = [link EXCEPT ![w] = NoLink]
  /\ heard' = [heard EXCEPT ![w] = 0]
  /\ cancelled' = cancelled \ {w} /\ removed' = removed \ {w}
  /\ UNCHANGED <<tab, spoilt, opens, restarts>>

(* The neighbour starts over and sends its hello again.  (To a link that is *)
(* established it would be payload.)                                       *)
Restart(w) ==
  /\ restarts < MaxRestarts /\ heard[w] > 0 /\ ~link[w].established
  /\ restarts' = restarts + 1
  /\ heard' = [heard EXCEPT ![w] = 0]
  /\ UNCHANGED <<tab, link, cancelled, removed, spoilt, opens>>

Next ==
  \/ \E w \in Wires : \/ NodeConnect(w) \/ NodeAccept(w) \/ Abort(w) \/ Drop(w) \/ Restart(w)
                      \/ \E r \in PumpReports(w) : Poll(w, r[1], r[2])
  \/ \E i \in TableSlots : RemoveSlot(i)

Spec == Init /\ [][Next]_vars

-----------------------------------------------------------------------------
(***************************************************************************)
(* "Rejects a second hello from a remote already listed" (table.rs:175):   *)
(* no two slots name the same remote, whether it connected or was          *)
(* connected to, however many hellos cross.  The exception: a slot that a  *)
(* link wrote back after the application had removed it, as sync does.     *)
(***************************************************************************)
OneSlotPerPeer ==
  \A i, j \in Occupied(tab) \ spoilt :
    i # j /\ tab[i].remote # Nobody => tab[i].remote # tab[j].remote

(***************************************************************************)
(* The session a link keeps is "copied from the table on each settle"      *)
(* (link.rs:141): a link whose slot was not removed owns it alone, and the *)
(* slot holds exactly the link's session, so that Node::established counts *)
(* what the links say.  The exception is the same.                         *)
(***************************************************************************)
SlotMirrorsLink ==
  \A w \in Open \ removed : link[w].slot \notin {0} \cup spoilt =>
    /\ tab[link[w].slot] = link[w].session
    /\ \A v \in Open \ removed : v # w => link[v].slot # link[w].slot
=============================================================================
