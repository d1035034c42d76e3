------------------------------ MODULE PeerTable ------------------------------
(***************************************************************************)
(* The directory of neighbours (src/p2p/table.rs): an array of TableLen    *)
(* slots, each empty or with the session of one neighbour.  An operation   *)
(* returns the table after it, the slot it took, and an error or "".       *)
(***************************************************************************)
EXTENDS PeerSession

CONSTANT TableLen    \* N, 1 .. 8 in the code

ASSUME TableAssumption == TableLen \in Nat \ {0}

TableSlots == 1 .. TableLen

NoEntry == SessionNew(Nobody, 0)

TableNew == [i \in TableSlots |-> NoEntry]

(* Mutant of Occupied: the slot of a session that ended counts as free. *)
OccupiedLive(tab) ==
  {i \in TableSlots : tab[i].state \in {"Connecting", "Established", "Closing"}}

(* The slots that are not None. *)
Occupied(tab) == {i \in TableSlots : tab[i] # NoEntry}

First(S) == CHOOSE i \in S : \A j \in S : i <= j

(* find, find_except *)
Listed(tab, id) == {i \in Occupied(tab) : tab[i].remote = id}

Failed(tab, why) == [tab |-> tab, slot |-> 0, err |-> why]

(* store: whatever the slot holds, also when it is empty. *)
Store(tab, slot, s) == [tab EXCEPT ![slot] = s]

(* connect *)
TableConnect(tab, id, c) ==
  IF Occupied(tab) = TableSlots THEN Failed(tab, "Full")
  ELSE LET slot == First(TableSlots \ Occupied(tab))
       IN [tab |-> Store(tab, slot, Connect(SessionNew(id, c))), slot |-> slot, err |-> ""]

(* Mutant of TableAccept: a remote that is listed already is let in. *)
TableAcceptAny(tab, id, c, hello) ==
  IF Occupied(tab) = TableSlots THEN Failed(tab, "Full")
  ELSE IF ~HelloIsValid(hello) THEN Failed(tab, "Handshake")
  ELSE LET slot == First(TableSlots \ Occupied(tab))
       IN [tab |-> Store(tab, slot, OnHello(SessionNew(id, c), hello)),
           slot |-> slot, err |-> ""]

(* accept *)
TableAccept(tab, id, c, hello) ==
  IF Listed(tab, hello[1]) # {} THEN Failed(tab, "Duplicate")
  ELSE IF Occupied(tab) = TableSlots THEN Failed(tab, "Full")
  ELSE IF ~HelloIsValid(hello) THEN Failed(tab, "Handshake")
  ELSE LET slot == First(TableSlots \ Occupied(tab))
       IN [tab |-> Store(tab, slot, OnHello(SessionNew(id, c), hello)),
           slot |-> slot, err |-> ""]

(* finish_connect: it asks only that the slot is not empty. *)
FinishConnect(tab, slot, hello) ==
  IF tab[slot] = NoEntry THEN Failed(tab, "Empty")
  ELSE IF Listed(tab, hello[1]) \ {slot} # {} THEN Failed(tab, "Duplicate")
  ELSE IF ~HelloIsValid(hello) THEN Failed(tab, "Handshake")
  ELSE [tab |-> Store(tab, slot, OnHello(tab[slot], hello)), slot |-> slot, err |-> ""]

(* remove *)
Remove(tab, slot) == [tab EXCEPT ![slot] = NoEntry]
=============================================================================
