----------------------------- MODULE NodeProofs -----------------------------
(***************************************************************************)
(* OneSlotPerPeer and SlotMirrorsLink are invariants of Node, for every    *)
(* table, any number of wires and neighbours and every bound.              *)
(***************************************************************************)
EXTENDS Node, HalvesProofs

Session == [local : {Nobody, OwnId}, config : {0, OwnConfig}, remote : Nat,
            negotiated : Config,
            state : {"Disconnected", "Connecting", "Established", "Aborted"}]

PeerLinkType ==
  [session : Session, slot : 0 .. TableLen, outgoing : Seq({0, OwnId, OwnConfig}),
   out_at : Nat, incoming : Seq(Nat), need_start : BOOLEAN, initiator : BOOLEAN,
   established : BOOLEAN, announced : BOOLEAN]

NodeType ==
  /\ tab \in [TableSlots -> Session]
  /\ link \in [Wires -> PeerLinkType]

(* The session is one of this node's. *)
Own(s) == s.local = OwnId /\ s.config = OwnConfig

(* A link has a slot unless it listens and its hello has not come. *)
LinkCoherent(l) ==
  /\ Own(l.session)
  /\ l.slot = 0 <=> ~l.initiator /\ ~l.established

Coherent ==
  /\ \A w \in Open : LinkCoherent(link[w])
  /\ \A i \in Occupied(tab) : Own(tab[i])

(* What the history variables stand for. *)
Histories ==
  /\ removed \subseteq Open
  /\ \A w \in removed : link[w].slot # 0
  /\ spoilt \subseteq Occupied(tab)

(* A link whose slot was not removed owns it alone, spoilt or not. *)
OwnsAlone ==
  \A w \in Open \ removed : link[w].slot # 0 =>
    /\ link[w].slot \in Occupied(tab)
    /\ \A v \in Open \ removed : v # w => link[v].slot # link[w].slot

Mirrors ==
  \A w \in Open \ removed : link[w].slot \notin {0} \cup spoilt =>
    tab[link[w].slot] = link[w].session

NodeInv ==
  NodeType /\ Coherent /\ Histories /\ OwnsAlone /\ Mirrors /\ OneSlotPerPeer

-----------------------------------------------------------------------------
(* Sessions and the table. *)

LEMMA FirstFree ==
  ASSUME NEW S, S \subseteq TableSlots, S # {}
  PROVE  First(S) \in S
<1>1. S \subseteq Nat
  BY TableAssumption DEF TableSlots
<1> QED BY <1>1, LeastExists DEF First

LEMMA NegotiateType ==
  ASSUME NEW a \in Config, NEW b \in Config
  PROVE  Negotiate(Clamped(a), b) \in Config
<1>1. Clamped(a) \in Config
  BY SessionAssumption DEF Clamped, Config
<1> QED BY <1>1 DEF Negotiate, Smaller, Config

(* new, connect and on_hello keep local and config; closed and abort touch *)
(* the state only.                                                         *)
LEMMA SessionFields ==
  ASSUME NEW s \in Session
  PROVE  /\ Closed(s) \in Session /\ SessionAbort(s) \in Session
         /\ \A t \in {Closed(s), SessionAbort(s)} :
              t.local = s.local /\ t.config = s.config /\ t.remote = s.remote
BY DEF Closed, SessionAbort, Session

LEMMA HelloFields ==
  ASSUME NEW s \in Session, Own(s), NEW hello \in Seq(Nat), HelloIsValid(hello)
  PROVE  /\ OnHello(s, hello) \in Session /\ Own(OnHello(s, hello))
         /\ OnHello(s, hello).remote = hello[1]
<1>1. Configs[s.config] \in Config
  BY SessionAssumption, NodeAssumption DEF Own
<1>2. Parsed(hello[2]) \in Config
  BY SessionAssumption DEF Parsed, NoConfig, Config
<1>3. Negotiate(Clamped(Configs[s.config]), Parsed(hello[2])) \in Config
  BY <1>1, <1>2, NegotiateType
<1>4. hello[1] \in Nat
  <2>1. 1 \in 1 .. Len(hello)
    BY DEF HelloIsValid, HelloLen
  <2> QED BY <2>1, SeqElement
<1> QED BY <1>3, <1>4 DEF OnHello, Session, Own

LEMMA NewFields ==
  /\ SessionNew(OwnId, OwnConfig) \in Session /\ Own(SessionNew(OwnId, OwnConfig))
  /\ Connect(SessionNew(OwnId, OwnConfig)) \in Session
  /\ Own(Connect(SessionNew(OwnId, OwnConfig)))
  /\ Connect(SessionNew(OwnId, OwnConfig)).remote = Nobody
  /\ NoEntry \in Session
BY DEF SessionNew, Connect, Session, Own, NoEntry, NoConfig, Config, Nobody

(* Nothing of the node's own is taken for an empty slot or a closed wire. *)
LEMMA OwnIsSomething ==
  /\ \A s \in Session : Own(s) => s # NoEntry
  /\ \A l \in PeerLinkType : Own(l.session) => l # NoLink
  /\ NoLink \in PeerLinkType
<1>1. NoEntry.local = Nobody /\ NoLink.session.local = Nobody
  BY DEF NoEntry, NoLink, LinkAccept, SessionNew
<1>2. OwnId # Nobody
  BY NodeAssumption
<1>3. NoLink \in PeerLinkType
  BY NewFields, TableAssumption DEF NoLink, LinkAccept, PeerLinkType, NoEntry
<1> QED BY <1>1, <1>2, <1>3 DEF Own

-----------------------------------------------------------------------------
(* What a call of poll or abort does to its link and to the table: link l  *)
(* becomes k and table t becomes u.                                        *)

SameStanding(l, k) ==
  k.slot = l.slot /\ k.initiator = l.initiator /\ k.established = l.established

(* Nothing that concerns the table. *)
Quiet(l, k, t, u) ==
  SameStanding(l, k) /\ k.session = l.session /\ u = t

(* The session ended, and sync writes it back. *)
Ended(l, k, t, u) ==
  /\ SameStanding(l, k)
  /\ k.session \in {Closed(l.session), SessionAbort(l.session)}
  /\ u = IF l.slot = 0 THEN t ELSE Store(t, l.slot, k.session)

(* The connector's hello was answered: finish_connect. *)
Connected(l, k, t, u) ==
  /\ l.initiator /\ ~l.established /\ t[l.slot] # NoEntry
  /\ \E hello \in Seq(Nat) :
       /\ HelloIsValid(hello) /\ Listed(t, hello[1]) \subseteq {l.slot}
       /\ k.session = OnHello(t[l.slot], hello)
  /\ k.slot = l.slot /\ k.initiator = l.initiator /\ k.established = TRUE
  /\ u = Store(t, l.slot, k.session)

(* The listener's hello came: accept. *)
Adopted(l, k, t, u) ==
  /\ ~l.initiator /\ ~l.established
  /\ \E hello \in Seq(Nat) :
       /\ HelloIsValid(hello) /\ Listed(t, hello[1]) = {}
       /\ k.session = OnHello(SessionNew(l.session.local, l.session.config), hello)
  /\ k.slot \in TableSlots /\ t[k.slot] = NoEntry
  /\ k.initiator = l.initiator /\ k.established = TRUE
  /\ u = Store(t, k.slot, k.session)

LEMMA OfferOutcome ==
  ASSUME NEW l \in PeerLinkType, NEW tx
  PROVE  LET k == OfferNext(l, tx).link
         IN  /\ k \in PeerLinkType /\ SameStanding(l, k)
             /\ k.session = l.session /\ k.incoming = l.incoming
<1> DEFINE a == [l EXCEPT !.need_start = FALSE]
           b == [l EXCEPT !.out_at = @ + 1]
<1>1. /\ a \in PeerLinkType /\ SameStanding(l, a)
      /\ a.session = l.session /\ a.incoming = l.incoming
  BY DEF PeerLinkType, SameStanding
<1>2. /\ b \in PeerLinkType /\ SameStanding(l, b)
      /\ b.session = l.session /\ b.incoming = l.incoming
  BY SMTT(30) DEF PeerLinkType, SameStanding
<1>3. OfferNext(l, tx).link \in {l, a, b}
  BY DEF OfferNext
<1> QED BY <1>1, <1>2, <1>3 DEF SameStanding

LEMMA StoreType ==
  ASSUME NEW t \in [TableSlots -> Session], NEW i \in TableSlots, NEW s \in Session
  PROVE  /\ Store(t, i, s) \in [TableSlots -> Session]
         /\ Store(t, i, s)[i] = s
         /\ \A j \in TableSlots \ {i} : Store(t, i, s)[j] = t[j]
         /\ Store(Store(t, i, s), i, s) = Store(t, i, s)
BY DEF Store

LEMMA ConnectOutcome ==
  ASSUME NEW l \in PeerLinkType, LinkCoherent(l), l.initiator, ~l.established,
         NEW t \in [TableSlots -> Session], \A i \in Occupied(t) : Own(t[i]), NEW pu,
         NEW a, a = OnHelloWhole(l, pu, t)
  PROVE  /\ a.link \in PeerLinkType
         /\ Quiet(l, a.link, t, a.tab) \/ Connected(l, a.link, t, a.tab)
<1> DEFINE c == FinishConnect(t, l.slot, l.incoming)
           s == OnHello(t[l.slot], l.incoming)
           k == [l EXCEPT !.session = s, !.slot = l.slot, !.established = TRUE,
                          !.outgoing = l.outgoing, !.out_at = l.out_at,
                          !.need_start = l.need_start, !.announced = l.initiator]
<1>1. l.slot \in TableSlots
  BY TableAssumption DEF LinkCoherent, PeerLinkType, TableSlots
<1>2. CASE c.err # ""
  <2>1. c.tab = t
    BY <1>2 DEF FinishConnect, Failed
  <2>2. a.link = l /\ a.tab = c.tab
    BY <1>2 DEF OnHelloWhole, After
  <2> QED BY <2>1, <2>2 DEF Quiet, SameStanding
<1>3. CASE c.err = ""
  <2>1. /\ t[l.slot] # NoEntry /\ Listed(t, l.incoming[1]) \ {l.slot} = {}
        /\ HelloIsValid(l.incoming) /\ c.slot = l.slot /\ c.tab = Store(t, l.slot, s)
    BY <1>3 DEF FinishConnect, Failed
  <2>2. l.incoming \in Seq(Nat) /\ l.slot \in 0 .. TableLen
    BY DEF PeerLinkType
  <2>3. l.slot \in Occupied(t) /\ t[l.slot] \in Session
    BY <1>1, <2>1 DEF Occupied
  <2>4. s \in Session
    BY <2>1, <2>2, <2>3, HelloFields
  <2>5. c.tab[c.slot] = s /\ Store(c.tab, l.slot, s) = c.tab
    BY <1>1, <2>1, <2>4, StoreType
  <2>6. /\ k \in PeerLinkType /\ k.session = s /\ k.slot = l.slot
        /\ k.initiator = l.initiator /\ k.established = TRUE
    <3> HIDE DEF s
    <3> QED BY <2>2, <2>4 DEF PeerLinkType
  <2>7. l.slot # 0
    BY <1>1, TableAssumption DEF TableSlots
  <2>8. a.link = k /\ a.tab = Synced(k, c.tab)
    <3> DEFINE e == c.tab[c.slot]
               m == [l EXCEPT !.session = e, !.slot = c.slot, !.established = TRUE,
                       !.outgoing = IF l.initiator THEN @ ELSE HelloBytes(e),
                       !.out_at = IF l.initiator THEN @ ELSE 0,
                       !.need_start = IF l.initiator THEN @ ELSE TRUE,
                       !.announced = l.initiator]
    <3>1. m = k
      <4> HIDE DEF s, c
      <4> QED BY <2>1, <2>5
    <3>2. a.link = m /\ a.tab = Synced(m, c.tab)
      <4>1. a = After(m, WPumpLimit(pu, NegotiatedLimit(e)), Synced(m, c.tab),
                      IF l.initiator THEN "Established" ELSE "Progress")
        BY <1>3, Zenon DEF OnHelloWhole
      <4> HIDE DEF m, c
      <4> QED BY <4>1 DEF After
    <3> QED BY <3>1, <3>2
  <2>9. a.tab = c.tab
    <3> HIDE DEF s, c, k
    <3> QED BY <2>5, <2>6, <2>7, <2>8 DEF Synced
  <2> QED
    <3> HIDE DEF s, c, k
    <3> QED BY <2>1, <2>2, <2>6, <2>8, <2>9 DEF Connected, s
<1> QED BY <1>2, <1>3

LEMMA AcceptOutcome ==
  ASSUME NEW l \in PeerLinkType, LinkCoherent(l), ~l.initiator, ~l.established,
         NEW t \in [TableSlots -> Session], NEW pu,
         NEW a, a = OnHelloWhole(l, pu, t)
  PROVE  /\ a.link \in PeerLinkType
         /\ Quiet(l, a.link, t, a.tab) \/ Adopted(l, a.link, t, a.tab)
<1> DEFINE new == SessionNew(l.session.local, l.session.config)
           c == TableAccept(t, l.session.local, l.session.config, l.incoming)
           slot == First(TableSlots \ Occupied(t))
           s == OnHello(new, l.incoming)
           k == [l EXCEPT !.session = s, !.slot = slot, !.established = TRUE,
                          !.outgoing = HelloBytes(s), !.out_at = 0,
                          !.need_start = TRUE, !.announced = l.initiator]
<1>1. CASE c.err # ""
  <2>1. c.tab = t
    BY <1>1 DEF TableAccept, Failed
  <2>2. a.link = l /\ a.tab = c.tab
    BY <1>1 DEF OnHelloWhole, After
  <2> QED BY <2>1, <2>2 DEF Quiet, SameStanding
<1>2. CASE c.err = ""
  <2>1. /\ Listed(t, l.incoming[1]) = {} /\ Occupied(t) # TableSlots
        /\ HelloIsValid(l.incoming) /\ c.slot = slot /\ c.tab = Store(t, slot, s)
    BY <1>2 DEF TableAccept, Failed
  <2>2. l.incoming \in Seq(Nat) /\ l.session \in Session
    BY DEF PeerLinkType
  <2>3. slot \in TableSlots \ Occupied(t)
    BY <2>1, FirstFree DEF Occupied
  <2>4. new \in Session /\ Own(new)
    BY <2>2, NewFields DEF LinkCoherent, Own
  <2>5. s \in Session /\ Own(s)
    BY <2>1, <2>2, <2>4, HelloFields
  <2>6. c.tab[c.slot] = s /\ Store(c.tab, slot, s) = c.tab
    BY <2>1, <2>3, <2>5, StoreType
  <2>7. slot \in 0 .. TableLen /\ slot # 0 /\ t[slot] = NoEntry
    BY <2>3, TableAssumption DEF TableSlots, Occupied
  <2>8. HelloBytes(s) \in Seq({0, OwnId, OwnConfig})
    BY <2>5 DEF HelloBytes, Own
  <2>9. /\ k \in PeerLinkType /\ k.session = s /\ k.slot = slot
        /\ k.initiator = l.initiator /\ k.established = TRUE
    <3> HIDE DEF s, slot
    <3> QED BY <2>5, <2>7, <2>8 DEF PeerLinkType
  <2>10. a.link = k /\ a.tab = Synced(k, c.tab)
    <3> DEFINE e == c.tab[c.slot]
               m == [l EXCEPT !.session = e, !.slot = c.slot, !.established = TRUE,
                       !.outgoing = IF l.initiator THEN @ ELSE HelloBytes(e),
                       !.out_at = IF l.initiator THEN @ ELSE 0,
                       !.need_start = IF l.initiator THEN @ ELSE TRUE,
                       !.announced = l.initiator]
    <3>1. m = k
      <4> HIDE DEF s, c, slot
      <4> QED BY <2>1, <2>6
    <3>2. a.link = m /\ a.tab = Synced(m, c.tab)
      <4>1. a = After(m, WPumpLimit(pu, NegotiatedLimit(e)), Synced(m, c.tab),
                      IF l.initiator THEN "Established" ELSE "Progress")
        BY <1>2, Zenon DEF OnHelloWhole
      <4> HIDE DEF m, c
      <4> QED BY <4>1 DEF After
    <3> QED BY <3>1, <3>2
  <2>11. a.tab = c.tab
    <3> HIDE DEF s, c, k, slot
    <3> QED BY <2>6, <2>7, <2>9, <2>10 DEF Synced
  <2> QED
    <3> HIDE DEF s, c, k, slot
    <3> QED BY <2>1, <2>2, <2>3, <2>7, <2>9, <2>10, <2>11 DEF Adopted, s
<1> QED BY <1>1, <1>2

Outcome(l, k, t, u) ==
  Quiet(l, k, t, u) \/ Ended(l, k, t, u) \/ Connected(l, k, t, u) \/ Adopted(l, k, t, u)

(* An outcome depends on the session and the standing of the link only. *)
LEMMA OutcomeTransfers ==
  ASSUME NEW l, NEW m, SameStanding(l, m), m.session = l.session,
         NEW k, NEW t, NEW u, Outcome(m, k, t, u)
  PROVE  Outcome(l, k, t, u)
<1>1. CASE Quiet(m, k, t, u)
  BY <1>1 DEF Outcome, SameStanding, Quiet
<1>2. CASE Ended(m, k, t, u)
  BY <1>2 DEF Outcome, SameStanding, Ended
<1>3. CASE Connected(m, k, t, u)
  BY <1>3 DEF Outcome, SameStanding, Connected
<1>4. CASE Adopted(m, k, t, u)
  BY <1>4 DEF Outcome, SameStanding, Adopted
<1> QED BY <1>1, <1>2, <1>3, <1>4 DEF Outcome

LEMMA HelloByteOutcome ==
  ASSUME NEW l \in PeerLinkType, LinkCoherent(l), ~l.established, NEW byte \in Nat,
         NEW t \in [TableSlots -> Session], \A i \in Occupied(t) : Own(t[i]), NEW pu,
         NEW a, a = OnHelloByte(l, pu, t, byte)
  PROVE  a.link \in PeerLinkType /\ Outcome(l, a.link, t, a.tab)
<1> DEFINE m == [l EXCEPT !.incoming = Append(@, byte)]
<1>1. /\ m \in PeerLinkType /\ SameStanding(l, m) /\ m.session = l.session
  <2>1. l.incoming \in Seq(Nat)
    BY DEF PeerLinkType
  <2>2. Append(l.incoming, byte) \in Seq(Nat)
    BY <2>1
  <2> QED BY <2>2 DEF PeerLinkType, SameStanding
<1>2. LinkCoherent(m) /\ ~m.established
  BY <1>1 DEF LinkCoherent, SameStanding
<1> HIDE DEF m
<1>3. CASE a.link = l /\ a.tab = t
  BY <1>3 DEF Outcome, Quiet, SameStanding
<1>4. CASE a.link = m /\ a.tab = t
  BY <1>1, <1>4 DEF Outcome, Quiet, SameStanding
<1>5. CASE a = OnHelloWhole(m, pu, t)
  <2>1. a.link \in PeerLinkType /\ Outcome(m, a.link, t, a.tab)
    <3>1. CASE m.initiator
      BY <1>1, <1>2, <1>5, <3>1, ConnectOutcome DEF Outcome
    <3>2. CASE ~m.initiator
      BY <1>1, <1>2, <1>5, <3>2, AcceptOutcome DEF Outcome
    <3> QED BY <3>1, <3>2
  <2> QED BY <1>1, <2>1, OutcomeTransfers
<1> QED BY <1>3, <1>4, <1>5 DEF OnHelloByte, After, m

LEMMA EndOutcome ==
  ASSUME NEW l \in PeerLinkType, NEW t, NEW s \in {Closed(l.session), SessionAbort(l.session)},
         NEW k, k = [l EXCEPT !.session = s]
  PROVE  k \in PeerLinkType /\ Outcome(l, k, t, Synced(k, t))
<1>1. l.session \in Session
  BY DEF PeerLinkType
<1>2. s \in Session
  BY <1>1, SessionFields
<1>3. k \in PeerLinkType /\ SameStanding(l, k) /\ k.session = s
  BY <1>2 DEF PeerLinkType, SameStanding
<1> QED BY <1>3 DEF Outcome, Ended, Synced, SameStanding

LEMMA EventOutcome ==
  ASSUME NEW l \in PeerLinkType, LinkCoherent(l), NEW ev, NEW byte \in Nat,
         NEW t \in [TableSlots -> Session], \A i \in Occupied(t) : Own(t[i]), NEW pu,
         NEW a, a = OnPumpEvent(l, pu, t, ev, byte)
  PROVE  a.link \in PeerLinkType /\ Outcome(l, a.link, t, a.tab)
<1>1. CASE a.link = l /\ a.tab = t
  BY <1>1 DEF Outcome, Quiet, SameStanding
<1>2. CASE ev = "Aborted"
  <2> DEFINE k == [l EXCEPT !.session = SessionAbort(@)]
  <2>1. a.link = k /\ a.tab = Synced(k, t)
    BY <1>2 DEF OnPumpEvent, After
  <2> QED BY <2>1, EndOutcome
<1>3. CASE ev = "Completed"
  <2> DEFINE k == [l EXCEPT !.session = Closed(@)]
  <2>1. a.link = k /\ a.tab = Synced(k, t)
    BY <1>3 DEF OnPumpEvent, After
  <2> QED BY <2>1, EndOutcome
<1>4. CASE ev = "Received" /\ ~l.established
  <2>1. a = OnHelloByte(l, pu, t, byte)
    BY <1>4 DEF OnPumpEvent
  <2> QED BY <1>4, <2>1, HelloByteOutcome
<1>5. CASE ev \in {"Progress", "Sent"}
  <2> DEFINE k == [l EXCEPT !.announced = TRUE]
  <2>1. k \in PeerLinkType /\ SameStanding(l, k) /\ k.session = l.session
    BY DEF PeerLinkType, SameStanding
  <2>2. a.link \in {l, k} /\ a.tab = t
    BY <1>5 DEF OnPumpEvent, After
  <2> QED BY <2>1, <2>2 DEF Outcome, Quiet, SameStanding
<1>6. CASE ev \notin {"Aborted", "Completed", "Progress", "Sent"} /\ ~(ev = "Received" /\ ~l.established)
  <2>1. a.link = l /\ a.tab = t
    BY <1>6 DEF OnPumpEvent, After
  <2> QED BY <1>1, <2>1
<1> QED BY <1>2, <1>3, <1>4, <1>5, <1>6

-----------------------------------------------------------------------------
(* Steps of a link that is open. *)

(* Session s goes to slot i, which is spoilt then or names no remote that  *)
(* another slot names.                                                     *)
LEMMA StoreKeepsOne ==
  ASSUME NodeType, OneSlotPerPeer, NEW i \in TableSlots, NEW s \in Session,
         tab' = Store(tab, i, s), spoilt \subseteq spoilt',
         \/ i \in spoilt'
         \/ s.remote # Nobody =>
              \A j \in Occupied(tab) \ (spoilt \cup {i}) : tab[j].remote # s.remote
  PROVE  OneSlotPerPeer'
<1>1. tab'[i] = s /\ \A j \in TableSlots \ {i} : tab'[j] = tab[j]
  BY StoreType DEF NodeType
<1>2. \A j \in Occupied(tab)' : j # i => j \in Occupied(tab)
  BY <1>1 DEF Occupied
<1> QED BY <1>1, <1>2 DEF OneSlotPerPeer, Occupied

(* The link on wire w becomes k and its call leaves the table as it does. *)
Acts(w, k) ==
  /\ w \in Open /\ k \in PeerLinkType /\ Outcome(link[w], k, tab, tab')
  /\ link' = [link EXCEPT ![w] = k]
  /\ Wrote(w, tab') /\ removed' = removed

LEMMA ActsLink ==
  ASSUME NodeInv, NEW w \in Wires, NEW k, Acts(w, k)
  PROVE  /\ link[w] \in PeerLinkType /\ LinkCoherent(link[w]) /\ LinkCoherent(k)
         /\ k # NoLink /\ Open' = Open /\ link'[w] = k
         /\ link' \in [Wires -> PeerLinkType]
         /\ \A v \in Wires \ {w} : link'[v] = link[v]
<1> USE DEF NodeInv, NodeType, Acts
<1>1. link[w] \in PeerLinkType /\ LinkCoherent(link[w])
  BY DEF Coherent
<1>2. link[w].session \in Session /\ k.session \in Session
  BY <1>1 DEF PeerLinkType
<1>3. LinkCoherent(k)
  <2>1. CASE Quiet(link[w], k, tab, tab')
    BY <1>1, <2>1 DEF Quiet, SameStanding, LinkCoherent
  <2>2. CASE Ended(link[w], k, tab, tab')
    <3>1. Own(k.session)
      BY <1>1, <1>2, <2>2, SessionFields DEF Ended, LinkCoherent, Own
    <3> QED BY <1>1, <2>2, <3>1 DEF Ended, SameStanding, LinkCoherent
  <2>3. CASE Connected(link[w], k, tab, tab')
    <3>1. link[w].slot # 0
      BY <1>1, <2>3 DEF Connected, LinkCoherent
    <3>2. link[w].slot \in Occupied(tab)
      BY <1>1, <2>3, <3>1, TableAssumption DEF Connected, PeerLinkType, Occupied, TableSlots
    <3>3. tab[link[w].slot] \in Session /\ Own(tab[link[w].slot])
      BY <3>2 DEF Coherent, Occupied
    <3>4. Own(k.session)
      BY <2>3, <3>3, HelloFields DEF Connected
    <3> QED BY <2>3, <3>1, <3>4 DEF Connected, LinkCoherent
  <2>4. CASE Adopted(link[w], k, tab, tab')
    <3>1. SessionNew(link[w].session.local, link[w].session.config)
            = SessionNew(OwnId, OwnConfig)
      BY <1>1 DEF LinkCoherent, Own
    <3>2. Own(k.session)
      BY <2>4, <3>1, NewFields, HelloFields DEF Adopted
    <3>3. k.slot # 0
      BY <2>4, TableAssumption DEF Adopted, TableSlots
    <3> QED BY <2>4, <3>2, <3>3 DEF Adopted, LinkCoherent
  <2> QED BY <2>1, <2>2, <2>3, <2>4 DEF Outcome
<1>4. k # NoLink
  BY <1>3, OwnIsSomething DEF LinkCoherent
<1>5. Open' = Open
  BY <1>4 DEF Open
<1> QED BY <1>1, <1>3, <1>4, <1>5

LEMMA ActsQuiet ==
  ASSUME NodeInv, NEW w \in Wires, NEW k, Acts(w, k),
         k.slot = link[w].slot, k.session = link[w].session, tab' = tab
  PROVE  NodeInv'
<1>1. spoilt' = spoilt
  BY DEF Acts, Wrote
<1>2. /\ LinkCoherent(k) /\ Open' = Open /\ link'[w] = k
      /\ link' \in [Wires -> PeerLinkType]
      /\ \A v \in Wires \ {w} : link'[v] = link[v]
  BY ActsLink
<1>3. removed' = removed
  BY DEF Acts
<1>4. \A v \in Open : v \in Wires /\ link'[v].slot = link[v].slot /\ link'[v].session = link[v].session
  BY <1>2 DEF Open
<1>5. Occupied(tab)' = Occupied(tab)
  BY DEF Occupied
<1>6. NodeType' /\ Coherent'
  BY <1>2, <1>5 DEF NodeInv, NodeType, Coherent, Open
<1>7. Histories' /\ OwnsAlone' /\ Mirrors' /\ OneSlotPerPeer'
  BY <1>1, <1>2, <1>3, <1>4, <1>5 DEF NodeInv, Histories, OwnsAlone, Mirrors, OneSlotPerPeer
<1> QED BY <1>6, <1>7 DEF NodeInv

(* The link writes its session into the slot it has.  If the slot is still *)
(* its own and the remote is new there, no other slot names that remote.   *)
LEMMA ActsStore ==
  ASSUME NodeInv, NEW w \in Wires, NEW k, Acts(w, k),
         k.slot = link[w].slot, k.slot \in TableSlots,
         tab' = Store(tab, k.slot, k.session),
         w \notin removed /\ k.slot \notin spoilt /\ k.session.remote # Nobody =>
           \A j \in Occupied(tab) \ (spoilt \cup {k.slot}) :
             tab[j].remote # k.session.remote
  PROVE  NodeInv'
<1>1. /\ LinkCoherent(k) /\ Open' = Open /\ link'[w] = k /\ w \in Open
      /\ link' \in [Wires -> PeerLinkType] /\ k \in PeerLinkType
      /\ \A v \in Wires \ {w} : link'[v] = link[v]
  BY ActsLink DEF Acts
<1>2. k.session \in Session /\ Own(k.session) /\ k.session # NoEntry
  BY <1>1, OwnIsSomething DEF PeerLinkType, LinkCoherent
<1>3. /\ tab' \in [TableSlots -> Session] /\ tab'[k.slot] = k.session
      /\ \A j \in TableSlots \ {k.slot} : tab'[j] = tab[j]
  BY <1>2, StoreType DEF NodeInv, NodeType
<1>4. Occupied(tab)' = Occupied(tab) \cup {k.slot}
  BY <1>2, <1>3 DEF Occupied
<1>5. removed' = removed
  BY DEF Acts
<1>6. /\ spoilt \subseteq spoilt' /\ spoilt' \subseteq spoilt \cup {k.slot}
      /\ w \in removed => k.slot \in spoilt' \/ tab' = tab
      /\ w \notin removed => spoilt' = spoilt
  <2>1. CASE w \notin removed
    BY <2>1 DEF Acts, Wrote
  <2>2. CASE w \in removed
    <3>1. spoilt' = spoilt \cup {i \in TableSlots : tab'[i] # tab[i]}
      BY <2>2 DEF Acts, Wrote
    <3>2. tab'[k.slot] = tab[k.slot] => tab' = tab
      BY <1>2, <1>3 DEF NodeInv, NodeType, Store
    <3> QED BY <1>3, <2>2, <3>1, <3>2
  <2> QED BY <2>1, <2>2
<1>7. NodeType' /\ Coherent'
  BY <1>1, <1>2, <1>3, <1>4 DEF NodeInv, NodeType, Coherent, Open, Occupied
<1>8. Histories' /\ OwnsAlone'
  BY <1>1, <1>4, <1>5, <1>6 DEF NodeInv, Histories, OwnsAlone, Open
<1>9. Mirrors'
  <2> SUFFICES ASSUME NEW v \in Open, v \notin removed, link'[v].slot \notin {0} \cup spoilt'
               PROVE  tab'[link'[v].slot] = link'[v].session
    BY <1>1, <1>5 DEF Mirrors
  <2>1. CASE v = w
    BY <1>1, <1>3, <2>1
  <2>2. CASE v # w
    <3>1. link'[v] = link[v]
      BY <1>1, <2>2 DEF Open
    <3>2. tab[link[v].slot] = link[v].session /\ link[v].slot \in Occupied(tab)
      BY <1>6, <3>1 DEF NodeInv, Mirrors, OwnsAlone
    <3>3. tab'[link[v].slot] = tab[link[v].slot]
      <4>1. CASE w \in removed
        BY <1>3, <1>6, <3>1, <3>2, <4>1 DEF Occupied
      <4>2. CASE w \notin removed
        BY <1>1, <1>3, <2>2, <3>1, <3>2, <4>2 DEF NodeInv, OwnsAlone, Occupied
      <4> QED BY <4>1, <4>2
    <3> QED BY <3>1, <3>2, <3>3
  <2> QED BY <2>1, <2>2
<1>10. OneSlotPerPeer'
  <2>1. CASE tab' = tab
    BY <1>4, <1>6, <2>1 DEF NodeInv, OneSlotPerPeer, Occupied
  <2>2. CASE k.slot \in spoilt'
    BY <1>2, <1>6, <2>2, StoreKeepsOne DEF NodeInv
  <2>3. CASE w \notin removed /\ k.slot \notin spoilt
    BY <1>2, <1>6, <2>3, StoreKeepsOne DEF NodeInv
  <2> QED BY <1>6, <2>1, <2>2, <2>3
<1> QED BY <1>7, <1>8, <1>9, <1>10 DEF NodeInv

(* A listener's first session goes to a slot that was free. *)
LEMMA ActsAccept ==
  ASSUME NodeInv, NEW w \in Wires, NEW k, Acts(w, k), Adopted(link[w], k, tab, tab')
  PROVE  NodeInv'
<1>1. /\ LinkCoherent(link[w]) /\ LinkCoherent(k) /\ Open' = Open /\ link'[w] = k
      /\ link' \in [Wires -> PeerLinkType] /\ k \in PeerLinkType /\ w \in Open
      /\ \A v \in Wires \ {w} : link'[v] = link[v]
  BY ActsLink DEF Acts
<1>2. k.session \in Session /\ Own(k.session) /\ k.session # NoEntry
  BY <1>1, OwnIsSomething DEF PeerLinkType, LinkCoherent
<1>3. /\ tab' \in [TableSlots -> Session] /\ tab'[k.slot] = k.session
      /\ \A j \in TableSlots \ {k.slot} : tab'[j] = tab[j]
      /\ tab' = Store(tab, k.slot, k.session) /\ k.slot \in TableSlots
  BY <1>2, StoreType, SMTT(30) DEF NodeInv, NodeType, Adopted
<1>4. Occupied(tab)' = Occupied(tab) \cup {k.slot} /\ k.slot \notin Occupied(tab)
  BY <1>2, <1>3 DEF Occupied, Adopted
<1>5. w \notin removed /\ removed' = removed /\ spoilt' = spoilt
  <2>1. link[w].slot = 0
    BY <1>1 DEF Adopted, LinkCoherent
  <2>2. w \notin removed
    BY <2>1 DEF NodeInv, Histories
  <2> QED BY <2>2 DEF Acts, Wrote
<1>6. k.slot \notin spoilt /\ \A v \in Open \ removed : link[v].slot # k.slot
  BY <1>3, <1>4, TableAssumption DEF NodeInv, Histories, OwnsAlone, TableSlots
<1>7. k.slot # 0
  BY <1>3, TableAssumption DEF TableSlots
<1>8. NodeType' /\ Coherent'
  BY <1>1, <1>2, <1>3, <1>4 DEF NodeInv, NodeType, Coherent, Open, Occupied
<1>9. Histories' /\ OwnsAlone'
  BY <1>1, <1>4, <1>5, <1>6, <1>7 DEF NodeInv, Histories, OwnsAlone, Open
<1>10. Mirrors'
  BY <1>1, <1>3, <1>4, <1>5, <1>6 DEF NodeInv, Mirrors, OwnsAlone, Open, Occupied
<1>11. OneSlotPerPeer'
  <2>1. \A j \in Occupied(tab) : tab[j].remote # k.session.remote
    <3>1. PICK hello \in Seq(Nat) :
            /\ HelloIsValid(hello) /\ Listed(tab, hello[1]) = {}
            /\ k.session = OnHello(SessionNew(link[w].session.local,
                                              link[w].session.config), hello)
      BY DEF Adopted
    <3>2. k.session.remote = hello[1]
      BY <1>1, <3>1, NewFields, HelloFields DEF LinkCoherent, Own
    <3> QED BY <3>1, <3>2 DEF Listed
  <2> QED BY <1>2, <1>3, <1>5, <2>1, StoreKeepsOne DEF NodeInv
<1> QED BY <1>8, <1>9, <1>10, <1>11 DEF NodeInv

LEMMA ActsKeeps ==
  ASSUME NodeInv, NEW w \in Wires, NEW k, Acts(w, k)
  PROVE  NodeInv'
<1>1. /\ link[w] \in PeerLinkType /\ LinkCoherent(link[w]) /\ w \in Open
      /\ link[w].session \in Session
  BY ActsLink DEF Acts, PeerLinkType
<1>2. link[w].slot # 0 => link[w].slot \in TableSlots
  BY <1>1, TableAssumption DEF PeerLinkType, TableSlots
<1>3. CASE Quiet(link[w], k, tab, tab')
  BY <1>3, ActsQuiet DEF Quiet, SameStanding
<1>4. CASE Ended(link[w], k, tab, tab')
  <2>1. CASE link[w].slot = 0
    <3>1. k.slot = 0 /\ tab' = tab
      BY <1>4, <2>1 DEF Ended, SameStanding
    <3>2. w \notin removed /\ spoilt' = spoilt /\ removed' = removed
      BY <2>1 DEF NodeInv, Histories, Acts, Wrote
    <3>3. /\ LinkCoherent(k) /\ Open' = Open /\ link'[w] = k
          /\ link' \in [Wires -> PeerLinkType]
          /\ \A v \in Wires \ {w} : link'[v] = link[v]
      BY ActsLink
    <3>4. Occupied(tab)' = Occupied(tab)
      BY <3>1 DEF Occupied
    <3>5. NodeType' /\ Coherent'
      BY <3>1, <3>3, <3>4 DEF NodeInv, NodeType, Coherent, Open
    <3>6. Histories' /\ OwnsAlone' /\ Mirrors'
      BY <2>1, <3>1, <3>2, <3>3, <3>4 DEF NodeInv, Histories, OwnsAlone, Mirrors, Open
    <3>7. OneSlotPerPeer'
      BY <3>1, <3>2, <3>4 DEF NodeInv, OneSlotPerPeer
    <3> QED BY <3>5, <3>6, <3>7 DEF NodeInv
  <2>2. CASE link[w].slot # 0
    <3>1. /\ k.slot = link[w].slot /\ tab' = Store(tab, k.slot, k.session)
          /\ k.session.remote = link[w].session.remote
      BY <1>1, <1>4, <2>2, SessionFields DEF Ended, SameStanding
    <3>2. ASSUME w \notin removed, k.slot \notin spoilt, k.session.remote # Nobody
          PROVE  \A j \in Occupied(tab) \ (spoilt \cup {k.slot}) :
                   tab[j].remote # k.session.remote
      <4>1. tab[k.slot] = link[w].session /\ k.slot \in Occupied(tab)
        BY <1>1, <2>2, <3>1, <3>2 DEF NodeInv, Mirrors, OwnsAlone
      <4> QED BY <3>1, <3>2, <4>1 DEF NodeInv, OneSlotPerPeer
    <3> QED BY <1>2, <2>2, <3>1, <3>2, ActsStore
  <2> QED BY <2>1, <2>2
<1>5. CASE Connected(link[w], k, tab, tab')
  <2>1. link[w].slot \in TableSlots
    BY <1>1, <1>2, <1>5 DEF Connected, LinkCoherent
  <2>2. PICK hello \in Seq(Nat) :
          /\ HelloIsValid(hello) /\ Listed(tab, hello[1]) \subseteq {link[w].slot}
          /\ k.session = OnHello(tab[link[w].slot], hello)
    BY <1>5 DEF Connected
  <2>3. /\ tab[link[w].slot] \in Session /\ Own(tab[link[w].slot])
    BY <1>5, <2>1 DEF NodeInv, NodeType, Coherent, Occupied, Connected
  <2>4. k.session.remote = hello[1]
    BY <2>2, <2>3, HelloFields
  <2>5. k.slot = link[w].slot /\ tab' = Store(tab, k.slot, k.session)
    BY <1>5 DEF Connected
  <2>6. \A j \in Occupied(tab) \ {k.slot} : tab[j].remote # k.session.remote
    BY <2>2, <2>4, <2>5 DEF Listed
  <2> QED BY <2>1, <2>5, <2>6, ActsStore
<1>6. CASE Adopted(link[w], k, tab, tab')
  BY <1>6, ActsAccept
<1> QED BY <1>3, <1>4, <1>5, <1>6 DEF Acts, Outcome

LEMMA PollKeeps ==
  ASSUME NodeInv, NEW w \in Wires, NEW r \in PumpReports(w), Poll(w, r[1], r[2])
  PROVE  NodeInv'
<1>1. w \in Open /\ link[w] \in PeerLinkType /\ LinkCoherent(link[w])
  BY DEF Poll, NodeInv, NodeType, Coherent
<1>2. r[2] \in Nat
  <2> DEFINE B == IF heard[w] = HelloLen \/ (link[w].initiator /\ link[w].out_at < HelloLen)
                    THEN {} ELSE IF heard[w] = 0 THEN {Neighbour[w]} ELSE Offers
             E == {"Progress", "Completed", "Aborted", "Err"}
  <2>1. B \subseteq Nat
    BY NodeAssumption
  <2>2. \/ r = <<"Aborted", 0>> \/ r \in E \X {0}
        \/ r \in {<<"Received", b>> : b \in B}
    BY DEF PumpReports
  <2> HIDE DEF B
  <2>3. CASE r \in {<<"Received", b>> : b \in B}
    BY <2>1, <2>3
  <2> QED BY <2>2, <2>3
<1> DEFINE l == OfferNext(link[w], WPumpInit.tx).link
           a == OnPumpEvent(l, WPumpInit, tab, r[1], r[2])
<1>3. l \in PeerLinkType /\ SameStanding(link[w], l) /\ l.session = link[w].session
  BY <1>1, OfferOutcome
<1>4. LinkCoherent(l)
  BY <1>1, <1>3 DEF LinkCoherent, SameStanding
<1>5. tab \in [TableSlots -> Session] /\ \A i \in Occupied(tab) : Own(tab[i])
  BY DEF NodeInv, NodeType, Coherent
<1>6. a.link \in PeerLinkType /\ Outcome(l, a.link, tab, a.tab)
  <2> HIDE DEF l
  <2> QED BY <1>2, <1>3, <1>4, <1>5, EventOutcome
<1>7. Outcome(link[w], a.link, tab, a.tab)
  <2> HIDE DEF l, a
  <2> QED BY <1>3, <1>6, OutcomeTransfers
<1>8. link' = [link EXCEPT ![w] = a.link] /\ Wrote(w, a.tab) /\ tab' = a.tab /\ removed' = removed
  BY DEF Poll, Wrote
<1>9. Acts(w, a.link)
  <2> HIDE DEF l, a
  <2> QED BY <1>1, <1>6, <1>7, <1>8 DEF Acts
<1> QED BY <1>9, ActsKeeps

LEMMA AbortKeeps ==
  ASSUME NodeInv, NEW w \in Wires, Abort(w)
  PROVE  NodeInv'
<1>1. w \in Open /\ link[w] \in PeerLinkType
  BY DEF Abort, NodeInv, NodeType
<1> DEFINE k == [link[w] EXCEPT !.session = SessionAbort(@)]
<1>2. k \in PeerLinkType /\ Outcome(link[w], k, tab, Synced(k, tab))
  BY <1>1, EndOutcome
<1>3. /\ link' = [link EXCEPT ![w] = k] /\ Wrote(w, Synced(k, tab))
      /\ removed' = removed
  BY DEF Abort, LinkAbort
<1>4. tab' = Synced(k, tab)
  BY <1>3 DEF Wrote
<1>5. Acts(w, k)
  <2> HIDE DEF k
  <2> QED BY <1>1, <1>2, <1>3, <1>4 DEF Acts
<1> QED BY <1>5, ActsKeeps

-----------------------------------------------------------------------------
(* The application's other calls. *)

LEMMA OpenedFields ==
  ASSUME NodeInv, NEW w \in Wires, NEW l \in PeerLinkType, LinkCoherent(l), Opened(w, l)
  PROVE  /\ w \notin Open /\ Open' = Open \cup {w} /\ link'[w] = l
         /\ w \notin removed /\ removed' = removed /\ spoilt' = spoilt
         /\ link' \in [Wires -> PeerLinkType]
         /\ \A v \in Wires \ {w} : link'[v] = link[v]
<1>1. l # NoLink
  BY OwnIsSomething DEF LinkCoherent
<1> QED BY <1>1 DEF Opened, NodeInv, NodeType, Open, Histories

LEMMA AcceptKeeps ==
  ASSUME NodeInv, NEW w \in Wires, NodeAccept(w)
  PROVE  NodeInv'
<1> DEFINE l == LinkAccept(OwnId, OwnConfig)
<1>1. l \in PeerLinkType /\ LinkCoherent(l) /\ l.slot = 0
  BY NewFields, TableAssumption DEF LinkAccept, PeerLinkType, LinkCoherent
<1>2. Opened(w, l) /\ tab' = tab
  BY DEF NodeAccept
<1> HIDE DEF l
<1>3. /\ Open' = Open \cup {w} /\ link'[w] = l
      /\ w \notin removed /\ removed' = removed /\ spoilt' = spoilt
      /\ link' \in [Wires -> PeerLinkType]
      /\ \A v \in Wires \ {w} : link'[v] = link[v]
  BY <1>1, <1>2, OpenedFields
<1>4. Occupied(tab)' = Occupied(tab)
  BY <1>2 DEF Occupied
<1>5. NodeType' /\ Coherent'
  BY <1>1, <1>2, <1>3, <1>4 DEF NodeInv, NodeType, Coherent, Open
<1>6. Histories' /\ OwnsAlone' /\ Mirrors'
  BY <1>1, <1>2, <1>3, <1>4 DEF NodeInv, Histories, OwnsAlone, Mirrors, Open
<1>7. OneSlotPerPeer'
  BY <1>2, <1>3, <1>4 DEF NodeInv, OneSlotPerPeer
<1> QED BY <1>5, <1>6, <1>7 DEF NodeInv

LEMMA ConnectKeeps ==
  ASSUME NodeInv, NEW w \in Wires, NodeConnect(w)
  PROVE  NodeInv'
<1> DEFINE c == TableConnect(tab, OwnId, OwnConfig)
           i == First(TableSlots \ Occupied(tab))
           s == Connect(SessionNew(OwnId, OwnConfig))
           l == LinkConnect(i, s)
<1>1. /\ c.err = "" /\ tab' = c.tab /\ Opened(w, LinkConnect(c.slot, c.tab[c.slot]))
  BY DEF NodeConnect
<1>2. Occupied(tab) # TableSlots /\ c.slot = i /\ c.tab = Store(tab, i, s)
  BY <1>1 DEF TableConnect, Failed
<1>3. i \in TableSlots \ Occupied(tab)
  BY <1>2, FirstFree DEF Occupied
<1>4. s \in Session /\ Own(s) /\ s.remote = Nobody /\ s # NoEntry
  BY NewFields, OwnIsSomething
<1>5. /\ tab' \in [TableSlots -> Session] /\ tab'[i] = s
      /\ \A j \in TableSlots \ {i} : tab'[j] = tab[j]
      /\ tab' = Store(tab, i, s)
  <2> HIDE DEF c, i, s
  <2>1. tab' = Store(tab, i, s)
    BY <1>1, <1>2
  <2>2. tab \in [TableSlots -> Session] /\ i \in TableSlots
    BY <1>3 DEF NodeInv, NodeType
  <2> QED BY <1>4, <2>1, <2>2, StoreType
<1>6. i \in 0 .. TableLen /\ i # 0
  BY <1>3, TableAssumption DEF TableSlots
<1>7. l \in PeerLinkType /\ LinkCoherent(l) /\ l.slot = i /\ l.session = s
  <2>1. HelloBytes(s) \in Seq({0, OwnId, OwnConfig})
    <3> HIDE DEF s
    <3> QED BY <1>4 DEF HelloBytes, Own
  <2> HIDE DEF s, i
  <2> QED BY <1>4, <1>6, <2>1 DEF LinkConnect, PeerLinkType, LinkCoherent
<1>8. Opened(w, l)
  <2> HIDE DEF c, i, s
  <2>1. c.tab[c.slot] = s
    BY <1>1, <1>2, <1>5
  <2>2. LinkConnect(c.slot, c.tab[c.slot]) = l
    BY <1>2, <2>1
  <2> HIDE DEF l
  <2> QED BY <1>1, <2>2
<1> HIDE DEF c, i, s, l
<1>9. /\ w \notin Open /\ Open' = Open \cup {w} /\ link'[w] = l
      /\ w \notin removed /\ removed' = removed /\ spoilt' = spoilt
      /\ link' \in [Wires -> PeerLinkType]
      /\ \A v \in Wires \ {w} : link'[v] = link[v]
  BY <1>7, <1>8, OpenedFields
<1>10. Occupied(tab)' = Occupied(tab) \cup {i} /\ i \notin Occupied(tab)
  BY <1>3, <1>4, <1>5 DEF Occupied
<1>11. i \notin spoilt /\ \A v \in Open \ removed : link[v].slot # i
  BY <1>6, <1>10 DEF NodeInv, Histories, OwnsAlone
<1>12. NodeType' /\ Coherent'
  BY <1>4, <1>5, <1>7, <1>9, <1>10 DEF NodeInv, NodeType, Coherent, Open, Occupied
<1>13. Histories' /\ OwnsAlone'
  BY <1>6, <1>7, <1>9, <1>10, <1>11 DEF NodeInv, Histories, OwnsAlone, Open
<1>14. Mirrors'
  BY <1>5, <1>7, <1>9, <1>10, <1>11 DEF NodeInv, Mirrors, OwnsAlone, Open, Occupied
<1>15. OneSlotPerPeer'
  BY <1>3, <1>4, <1>5, <1>9, StoreKeepsOne DEF NodeInv
<1> QED BY <1>12, <1>13, <1>14, <1>15 DEF NodeInv

LEMMA RemoveKeeps ==
  ASSUME NodeInv, NEW i \in TableSlots, RemoveSlot(i)
  PROVE  NodeInv'
<1>1. /\ tab' \in [TableSlots -> Session] /\ tab'[i] = NoEntry
      /\ \A j \in TableSlots \ {i} : tab'[j] = tab[j]
  BY NewFields DEF RemoveSlot, Remove, NodeInv, NodeType
<1>2. Occupied(tab)' = Occupied(tab) \ {i}
  BY <1>1 DEF Occupied
<1>3. /\ removed' = removed \cup {w \in Open : link[w].slot = i}
      /\ spoilt' = spoilt \ {i} /\ link' = link /\ Open' = Open
  BY DEF RemoveSlot, Open
<1>4. i # 0
  BY TableAssumption DEF TableSlots
<1>5. NodeType' /\ Coherent'
  BY <1>1, <1>2, <1>3 DEF NodeInv, NodeType, Coherent, Occupied
<1>6. Histories'
  BY <1>2, <1>3, <1>4 DEF NodeInv, Histories
<1>7. OwnsAlone'
  BY <1>2, <1>3 DEF NodeInv, OwnsAlone
<1>8. Mirrors'
  BY <1>1, <1>3 DEF NodeInv, Mirrors, OwnsAlone, Occupied
<1>9. OneSlotPerPeer'
  BY <1>1, <1>2, <1>3 DEF NodeInv, OneSlotPerPeer, Occupied
<1> QED BY <1>5, <1>6, <1>7, <1>8, <1>9 DEF NodeInv

LEMMA DropKeeps ==
  ASSUME NodeInv, NEW w \in Wires, Drop(w)
  PROVE  NodeInv'
<1>1. /\ link' \in [Wires -> PeerLinkType] /\ Open' = Open \ {w}
      /\ \A v \in Wires \ {w} : link'[v] = link[v]
  BY OwnIsSomething DEF Drop, NodeInv, NodeType, Open
<1>2. tab' = tab /\ spoilt' = spoilt /\ removed' = removed \ {w}
  BY DEF Drop
<1>3. Occupied(tab)' = Occupied(tab)
  BY <1>2 DEF Occupied
<1>4. NodeType' /\ Coherent'
  BY <1>1, <1>2, <1>3 DEF NodeInv, NodeType, Coherent, Open
<1>5. Histories' /\ OwnsAlone' /\ Mirrors'
  BY <1>1, <1>2, <1>3 DEF NodeInv, Histories, OwnsAlone, Mirrors, Open
<1>6. OneSlotPerPeer'
  BY <1>2, <1>3 DEF NodeInv, OneSlotPerPeer
<1> QED BY <1>4, <1>5, <1>6 DEF NodeInv

(* What neither the table nor a link takes part in. *)
LEMMA StutterKeeps ==
  ASSUME NodeInv, UNCHANGED <<tab, link, removed, spoilt>>
  PROVE  NodeInv'
BY DEF NodeInv, NodeType, Coherent, Histories, OwnsAlone, Mirrors, OneSlotPerPeer,
       Open, Occupied

(***************************************************************************)
(* The inductive invariant: a link that still owns its slot owns it alone, *)
(* an occupied slot holds a session of this node, and a listener without a *)
(* hello has no slot.  It holds for every table length and number of wires.*)
(***************************************************************************)
THEOREM NodeInvariance == Spec => []NodeInv
<1>1. Init => NodeInv
  <2> SUFFICES ASSUME Init PROVE NodeInv
    OBVIOUS
  <2>1. NodeType
    BY NewFields, OwnIsSomething DEF Init, NodeType, TableNew
  <2>2. Open = {} /\ Occupied(tab) = {}
    BY DEF Init, Open, Occupied, TableNew
  <2> QED BY <2>1, <2>2 DEF Init, NodeInv, Coherent, Histories, OwnsAlone, Mirrors,
                            OneSlotPerPeer
<1>2. NodeInv /\ [Next]_vars => NodeInv'
  <2> SUFFICES ASSUME NodeInv, [Next]_vars PROVE NodeInv'
    OBVIOUS
  <2>1. ASSUME NEW w \in Wires, Restart(w)
        PROVE  NodeInv'
    BY <2>1, StutterKeeps DEF Restart
  <2>2. CASE UNCHANGED vars
    BY <2>2, StutterKeeps DEF vars
  <2> QED
    BY <2>1, <2>2, ConnectKeeps, AcceptKeeps, AbortKeeps, DropKeeps, PollKeeps, RemoveKeeps
       DEF Next
<1> QED BY <1>1, <1>2, PTL DEF Spec

(***************************************************************************)
(* "Rejects a second hello from a remote already listed" (table.rs:175):   *)
(* accept and finish_connect keep every remote to one slot, save slots     *)
(* that sync wrote back after a remove.                                    *)
(***************************************************************************)
THEOREM ListedOnce == Spec => []OneSlotPerPeer
<1>1. NodeInv => OneSlotPerPeer
  BY DEF NodeInv
<1> QED BY <1>1, NodeInvariance, PTL

(***************************************************************************)
(* The copy of the session in a link and the one in its slot agree, and no *)
(* other link has the slot (link.rs, sync), with the same exception.       *)
(***************************************************************************)
THEOREM TableAgrees == Spec => []SlotMirrorsLink
<1>1. NodeInv => SlotMirrorsLink
  BY DEF NodeInv, SlotMirrorsLink, OwnsAlone, Mirrors
<1> QED BY <1>1, NodeInvariance, PTL
=============================================================================
