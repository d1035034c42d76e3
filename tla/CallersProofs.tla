---------------------------- MODULE CallersProofs ----------------------------
(***************************************************************************)
(* Proofs about the loops of Callers, for every set of links, capacity,    *)
(* source, sink, budget and modulus.                                       *)
(***************************************************************************)
EXTENDS CallersInv, HalvesProofs, FiniteSetTheorems

-----------------------------------------------------------------------------
(* The scheduler. *)

LEMMA GapIs ==
  ASSUME NEW c \in Slots, NEW i \in Slots
  PROVE  /\ Gap(c, i) = IF i >= c THEN i - c ELSE i - c + Capacity
         /\ Gap(c, i) \in Nat /\ Gap(c, i) < Capacity
BY CallersAssumption DEF Gap, Slots

LEMMA NextSlotType ==
  ASSUME NEW i \in Slots
  PROVE  NextSlot(i) \in Slots
BY CallersAssumption DEF NextSlot, Slots

(* Once the cursor steps behind slot i, slot i is last and the slots that  *)
(* were behind it keep their order.                                        *)
LEMMA GapStep ==
  ASSUME NEW c \in Slots, NEW i \in Slots, NEW k \in Slots,
         Gap(c, i) < Gap(c, k)
  PROVE  /\ Gap(NextSlot(i), k) < Gap(NextSlot(i), i)
         /\ \A j \in Slots : Gap(c, k) < Gap(c, j) =>
              Gap(NextSlot(i), k) < Gap(NextSlot(i), j)
<1> DEFINE n == NextSlot(i)
<1>1. n \in Slots /\ n = IF i = Capacity THEN 1 ELSE i + 1
  BY NextSlotType DEF NextSlot
<1>2. c \in 1 .. Capacity /\ i \in 1 .. Capacity /\ k \in 1 .. Capacity
      /\ n \in 1 .. Capacity /\ Capacity \in Nat
  BY <1>1, CallersAssumption DEF Slots
<1> HIDE DEF n
<1>3. /\ Gap(c, i) = IF i >= c THEN i - c ELSE i - c + Capacity
      /\ Gap(c, k) = IF k >= c THEN k - c ELSE k - c + Capacity
      /\ Gap(n, i) = IF i >= n THEN i - n ELSE i - n + Capacity
      /\ Gap(n, k) = IF k >= n THEN k - n ELSE k - n + Capacity
  BY <1>1, GapIs
<1>4. Gap(n, k) < Gap(n, i)
  BY <1>1, <1>2, <1>3
<1>5. ASSUME NEW j \in Slots, Gap(c, k) < Gap(c, j)
      PROVE  Gap(n, k) < Gap(n, j)
  <2>1. /\ Gap(c, j) = IF j >= c THEN j - c ELSE j - c + Capacity
        /\ Gap(n, j) = IF j >= n THEN j - n ELSE j - n + Capacity
    BY <1>1, GapIs
  <2>2. j \in 1 .. Capacity
    BY DEF Slots
  <2> QED BY <1>1, <1>2, <1>3, <1>5, <2>1, <2>2
<1> QED BY <1>4, <1>5 DEF n

(* Every step but Spawn and SystemTick leaves the scheduler alone. *)
LEMMA SchedStutter ==
  ASSUME SchedInv, UNCHANGED <<sys, waited>>
  PROVE  SchedInv'
<1>1. LiveSlots' = LiveSlots
  BY DEF LiveSlots, Live
<1>2. \A l : Spawned(l)' = Spawned(l)
  BY DEF Spawned
<1>3. \A l : Passed(l)' = Passed(l)
  BY DEF Passed
<1> QED BY <1>1, <1>2, <1>3 DEF SchedInv, SchedTyped, OneSlotEach

LEMMA PassedFinite ==
  ASSUME NEW l
  PROVE  /\ IsFiniteSet(Passed(l)) /\ Cardinality(Passed(l)) \in Nat
         /\ \A S \in SUBSET Passed(l) : Cardinality(S) <= Cardinality(Passed(l))
<1>1. Passed(l) \in SUBSET Links
  BY DEF Passed
<1>2. IsFiniteSet(Passed(l))
  BY <1>1, FS_Subset, CallersAssumption
<1> QED BY <1>2, FS_Subset, FS_CardinalityType

LEMMA LiveFinite ==
  IsFiniteSet(LiveSlots) /\ Cardinality(LiveSlots) \in Nat
<1>1. IsFiniteSet(Slots)
  BY FS_Interval, CallersAssumption DEF Slots
<1>2. LiveSlots \in SUBSET Slots
  BY DEF LiveSlots
<1> QED BY <1>1, <1>2, FS_Subset, FS_CardinalityType

LEMMA SpawnSched ==
  ASSUME SchedInv, NEW l \in Links, Spawn(l)
  PROVE  SchedInv'
<1>1. PICK i \in Slots :
        /\ sys.slots[i] = Free
        /\ sys' = [sys EXCEPT !.slots[i] = l, !.live = @ + 1]
  BY DEF Spawn
<1>2. /\ sys'.slots = [sys.slots EXCEPT ![i] = l] /\ sys'.cursor = sys.cursor
      /\ sys'.live = sys.live + 1 /\ sys'.done = sys.done
      /\ sys.slots \in [Slots -> Links \cup {Free}]
  BY <1>1 DEF SchedInv, SchedTyped
<1>3. l # Free /\ ~Spawned(l) /\ l \notin sys.done
  BY CallersAssumption DEF Spawn, Free, SchedInv
<1>4. SchedTyped'
  <2>1. [sys.slots EXCEPT ![i] = l] \in [Slots -> Links \cup {Free}]
    BY <1>2
  <2>2. sys' = [sys EXCEPT !.slots = [sys.slots EXCEPT ![i] = l], !.live = sys.live + 1]
    BY <1>1
  <2>3. sys' \in [slots : [Slots -> Links \cup {Free}], cursor : Slots, live : Nat,
                 done : SUBSET Links]
    <3>1. PICK z : z = [sys.slots EXCEPT ![i] = l]
      OBVIOUS
    <3>2. PICK n : n = sys.live + 1
      OBVIOUS
    <3>3. n \in Nat /\ z \in [Slots -> Links \cup {Free}]
      BY <2>1, <3>1, <3>2 DEF SchedInv, SchedTyped
    <3>4. sys' = [sys EXCEPT !.slots = z, !.live = n]
      BY <2>2, <3>1, <3>2
    <3> QED BY <3>3, <3>4 DEF SchedInv, SchedTyped
  <2> QED BY <2>3 DEF SchedInv, SchedTyped, Spawn
<1>5. OneSlotEach'
  BY <1>2, <1>3 DEF SchedInv, OneSlotEach, Spawned
<1>6. \A m \in sys'.done : Spawned(m)'
  <2>1. \A m \in sys.done : m # Free
    BY CallersAssumption DEF SchedInv, SchedTyped, Free
  <2> QED BY <1>1, <1>2, <2>1 DEF SchedInv, Spawned
<1>7. sys'.live = Cardinality(LiveSlots')
  <2>1. LiveSlots' = LiveSlots \cup {i}
    BY <1>1, <1>2, <1>3 DEF LiveSlots, Live
  <2>2. i \notin LiveSlots
    BY <1>1 DEF LiveSlots, Live
  <2>3. Cardinality(LiveSlots \cup {i}) = Cardinality(LiveSlots) + 1
    BY <2>2, LiveFinite, FS_AddElement
  <2> QED BY <1>2, <2>1, <2>3 DEF SchedInv
<1>8. ASSUME NEW m \in Links
      PROVE  waited'[m] <= Cardinality(Passed(m)')
  <2>1. Passed(m) \subseteq Passed(m)'
    <3> SUFFICES ASSUME NEW x \in Passed(m)
                 PROVE  x \in Passed(m)'
      OBVIOUS
    <3>1. PICK a, b \in Slots : /\ sys.slots[a] = m /\ sys.slots[b] = x
                                /\ Gap(sys.cursor, a) < Gap(sys.cursor, b)
      BY DEF Passed
    <3>2. x \in Links /\ m # Free /\ x # Free
      BY CallersAssumption DEF Passed, Free
    <3>3. sys'.slots[a] = m /\ sys'.slots[b] = x
      BY <1>1, <1>2, <3>1, <3>2
    <3>4. Gap(sys'.cursor, a) < Gap(sys'.cursor, b)
      BY <1>2, <3>1
    <3> QED BY <3>2, <3>3, <3>4 DEF Passed
  <2>2. IsFiniteSet(Passed(m)')
    <3>1. Passed(m)' \in SUBSET Links
      BY DEF Passed
    <3> QED BY <3>1, FS_Subset, CallersAssumption
  <2>3. Cardinality(Passed(m)) <= Cardinality(Passed(m)')
    BY <2>1, <2>2, FS_Subset
  <2>4. waited'[m] = waited[m] /\ waited[m] <= Cardinality(Passed(m)) /\ waited[m] \in Nat
    BY DEF Spawn, SchedInv, SchedTyped
  <2>5. Cardinality(Passed(m)) \in Nat /\ Cardinality(Passed(m)') \in Nat
    BY <2>2, PassedFinite, FS_CardinalityType
  <2> QED BY <2>3, <2>4, <2>5
<1> QED BY <1>4, <1>5, <1>6, <1>7, <1>8 DEF SchedInv

(* A system with a live actor has one to pick, and it is the nearest. *)
LEMMA PickedIs ==
  ASSUME SchedInv, sys.live > 0
  PROVE  /\ Picked \in Slots /\ Live(Picked)
         /\ \A j \in Slots : Live(j) => Gap(sys.cursor, Picked) <= Gap(sys.cursor, j)
<1> DEFINE G == {Gap(sys.cursor, j) : j \in LiveSlots}
<1>1. sys.cursor \in Slots
  BY DEF SchedInv, SchedTyped
<1>2. LiveSlots # {} /\ LiveSlots \subseteq Slots
  BY FS_EmptySet DEF SchedInv, LiveSlots
<1>3. G # {} /\ G \subseteq Nat
  BY <1>1, <1>2, GapIs
<1>4. PICK g \in G : \A h \in G : g <= h
  <2> HIDE DEF G
  <2> QED BY <1>3, LeastExists
<1>5. PICK i \in LiveSlots : g = Gap(sys.cursor, i)
  BY <1>4
<1>6. /\ i \in Slots /\ Live(i)
      /\ \A j \in Slots : Live(j) => Gap(sys.cursor, i) <= Gap(sys.cursor, j)
  BY <1>4, <1>5 DEF LiveSlots
<1> QED BY <1>6 DEF Picked, Gap

LEMMA TickSched ==
  ASSUME SchedInv, SystemTick
  PROVE  SchedInv'
<1>1. PICK i \in {Picked}, out \in Outcomes :
        LET l == sys.slots[i] IN
        /\ sys' = IF ActorTick(out) = "Done"
                    THEN [sys EXCEPT !.cursor = NextSlot(i), !.live = @ - 1,
                                     !.done = @ \cup {l}]
                    ELSE [sys EXCEPT !.cursor = NextSlot(i)]
        /\ waited' = [m \in Links |-> IF m = l \/ ~Spawned(m) \/ m \in sys.done
                                        THEN 0 ELSE waited[m] + 1]
  BY DEF SystemTick
<1>2. /\ i \in Slots /\ Live(i)
      /\ \A j \in Slots : Live(j) => Gap(sys.cursor, i) <= Gap(sys.cursor, j)
  BY PickedIs DEF SystemTick
<1>3. PICK l : l = sys.slots[i]
  OBVIOUS
<1>4. l \in Links /\ l # Free /\ l \notin sys.done
  BY <1>2, <1>3, CallersAssumption DEF SchedInv, SchedTyped, Live, Free
<1>5. /\ sys'.slots = sys.slots /\ sys'.cursor = NextSlot(i)
      /\ \/ sys'.live = sys.live - 1 /\ sys'.done = sys.done \cup {l}
         \/ sys'.live = sys.live /\ sys'.done = sys.done
  BY <1>1, <1>3 DEF SchedInv, SchedTyped
<1>6. waited' = [m \in Links |-> IF m = l \/ ~Spawned(m) \/ m \in sys.done
                                   THEN 0 ELSE waited[m] + 1]
  BY <1>1, <1>3
<1>7. SchedTyped'
  <2>1. sys.live - 1 \in Nat
    BY DEF SystemTick, SchedInv, SchedTyped
  <2>2. waited' \in [Links -> Nat]
    BY <1>6 DEF SchedInv, SchedTyped
  <2> QED BY <1>1, <1>2, <1>3, <1>4, <2>1, <2>2, NextSlotType DEF SchedInv, SchedTyped
<1>8. OneSlotEach'
  BY <1>5 DEF SchedInv, OneSlotEach
<1>9. \A m \in sys'.done : Spawned(m)'
  BY <1>2, <1>3, <1>5 DEF SchedInv, Spawned
<1>10. sys'.live = Cardinality(LiveSlots')
  <2>1. CASE sys'.live = sys.live - 1 /\ sys'.done = sys.done \cup {l}
    <3>1. LiveSlots' = LiveSlots \ {i}
      BY <1>2, <1>3, <1>4, <1>5, <2>1 DEF LiveSlots, Live, SchedInv, OneSlotEach
    <3>2. i \in LiveSlots
      BY <1>2 DEF LiveSlots
    <3>3. Cardinality(LiveSlots \ {i}) = Cardinality(LiveSlots) - 1
      BY <3>2, LiveFinite, FS_RemoveElement
    <3> QED BY <2>1, <3>1, <3>3 DEF SchedInv
  <2>2. CASE sys'.live = sys.live /\ sys'.done = sys.done
    <3>1. LiveSlots' = LiveSlots
      BY <1>5, <2>2 DEF LiveSlots, Live
    <3> QED BY <2>2, <3>1 DEF SchedInv
  <2> QED BY <1>5, <2>1, <2>2
<1>11. ASSUME NEW m \in Links
       PROVE  waited'[m] <= Cardinality(Passed(m)')
  <2>1. IsFiniteSet(Passed(m)') /\ Cardinality(Passed(m)') \in Nat
    <3>1. Passed(m)' \in SUBSET Links
      BY DEF Passed
    <3> QED BY <3>1, FS_Subset, FS_CardinalityType, CallersAssumption
  <2>2. CASE m = l \/ ~Spawned(m) \/ m \in sys.done
    <3>1. waited'[m] = 0
      BY <1>6, <2>2
    <3> QED BY <2>1, <3>1
  <2>3. CASE ~(m = l \/ ~Spawned(m) \/ m \in sys.done)
    <3>1. PICK k \in Slots : sys.slots[k] = m
      BY <2>3 DEF Spawned
    <3>2. m # Free /\ Live(k) /\ k # i
      BY <1>3, <2>3, <3>1, CallersAssumption DEF Live, Free
    <3>3. Gap(sys.cursor, i) < Gap(sys.cursor, k)
      <4>1. Gap(sys.cursor, i) # Gap(sys.cursor, k)
        <5>1. sys.cursor \in Slots
          BY DEF SchedInv, SchedTyped
        <5>2. /\ Gap(sys.cursor, i) = IF i >= sys.cursor THEN i - sys.cursor
                                      ELSE i - sys.cursor + Capacity
              /\ Gap(sys.cursor, k) = IF k >= sys.cursor THEN k - sys.cursor
                                      ELSE k - sys.cursor + Capacity
          BY <1>2, <5>1, GapIs
        <5>3. i \in 1 .. Capacity /\ k \in 1 .. Capacity /\ sys.cursor \in 1 .. Capacity
              /\ Capacity \in Nat
          BY <1>2, <5>1, CallersAssumption DEF Slots
        <5> QED BY <3>2, <5>2, <5>3
      <4>2. Gap(sys.cursor, i) \in Nat /\ Gap(sys.cursor, k) \in Nat
        BY <1>2, GapIs DEF SchedInv, SchedTyped
      <4> QED BY <1>2, <3>2, <4>1, <4>2
    <3>4. /\ Gap(sys'.cursor, k) < Gap(sys'.cursor, i)
          /\ \A j \in Slots : Gap(sys.cursor, k) < Gap(sys.cursor, j) =>
               Gap(sys'.cursor, k) < Gap(sys'.cursor, j)
      BY <1>2, <1>5, <3>3, GapStep DEF SchedInv, SchedTyped
    <3>5. l \in Passed(m)'
      BY <1>2, <1>3, <1>4, <1>5, <3>1, <3>4 DEF Passed
    <3>6. l \notin Passed(m)
      <4> SUFFICES ASSUME l \in Passed(m)
                   PROVE  FALSE
        OBVIOUS
      <4>1. PICK a, b \in Slots : /\ sys.slots[a] = m /\ sys.slots[b] = l
                                  /\ Gap(sys.cursor, a) < Gap(sys.cursor, b)
        BY DEF Passed
      <4>2. a = k /\ b = i
        BY <1>2, <1>3, <1>4, <3>1, <3>2, <4>1 DEF SchedInv, OneSlotEach
      <4>3. Gap(sys.cursor, i) \in Nat /\ Gap(sys.cursor, k) \in Nat
        BY <1>2, GapIs DEF SchedInv, SchedTyped
      <4> QED BY <3>3, <4>1, <4>2, <4>3
    <3>7. Passed(m) \subseteq Passed(m)'
      <4> SUFFICES ASSUME NEW x \in Passed(m)
                   PROVE  x \in Passed(m)'
        OBVIOUS
      <4>1. PICK a, b \in Slots : /\ sys.slots[a] = m /\ sys.slots[b] = x
                                  /\ Gap(sys.cursor, a) < Gap(sys.cursor, b)
        BY DEF Passed
      <4>2. a = k
        BY <3>1, <3>2, <4>1 DEF SchedInv, OneSlotEach
      <4>3. x \in Links
        BY DEF Passed
      <4> QED BY <1>5, <3>1, <3>4, <4>1, <4>2, <4>3 DEF Passed
    <3>8. Cardinality(Passed(m) \cup {l}) = Cardinality(Passed(m)) + 1
      BY <3>6, PassedFinite, FS_AddElement
    <3>9. Cardinality(Passed(m) \cup {l}) <= Cardinality(Passed(m)')
      BY <2>1, <3>5, <3>7, FS_Subset
    <3>10. /\ waited'[m] = waited[m] + 1 /\ waited[m] \in Nat
           /\ waited[m] <= Cardinality(Passed(m))
      BY <1>6, <2>3 DEF SchedInv, SchedTyped
    <3> QED BY <2>1, <3>8, <3>9, <3>10, PassedFinite
  <2> QED BY <2>2, <2>3
<1> QED BY <1>7, <1>8, <1>9, <1>10, <1>11 DEF SchedInv

LEMMA SchedInit ==
  ASSUME Init
  PROVE  SchedInv
<1> USE CallersAssumption
<1>1. SchedTyped
  <2>1. 1 \in Slots /\ [i \in Slots |-> Free] \in [Slots -> Links \cup {Free}]
    BY DEF Slots
  <2>2. waited \in [Links -> Nat]
    BY DEF Init
  <2>3. sys = [slots |-> [i \in Slots |-> Free], cursor |-> 1, live |-> 0, done |-> {}]
    BY DEF Init
  <2> QED BY <2>1, <2>2, <2>3 DEF SchedTyped
<1>2. OneSlotEach
  BY DEF Init, OneSlotEach
<1>3. LiveSlots = {}
  BY DEF Init, LiveSlots, Live
<1>4. ASSUME NEW l \in Links
      PROVE  waited[l] <= Cardinality(Passed(l))
  <2>1. waited[l] = 0
    BY DEF Init
  <2>2. Cardinality(Passed(l)) \in Nat
    BY PassedFinite
  <2> QED BY <2>1, <2>2
<1> QED BY <1>1, <1>2, <1>3, <1>4, FS_EmptySet DEF Init, SchedInv

LEMMA SchedStep ==
  ASSUME SchedInv, [Next]_vars
  PROVE  SchedInv'
<1>1. CASE SystemTick
  BY <1>1, TickSched
<1>2. ASSUME NEW l \in Links, Spawn(l)
      PROVE  SchedInv'
  BY <1>2, SpawnSched
<1>3. ASSUME NEW l \in Links, SendNext(l) \/ SendPoll(l) \/ SendError(l) \/ SendAbort(l)
      PROVE  SchedInv'
  BY <1>3, SchedStutter DEF SendNext, SendPoll, SendError, SendAbort
<1>4. CASE RecvPoll \/ HandPoll \/ UNCHANGED vars
  BY <1>4, SchedStutter DEF RecvPoll, HandPoll, vars
<1> QED BY <1>1, <1>2, <1>3, <1>4 DEF Next

(* Round robin, System::tick: between two ticks of an actor each other     *)
(* actor is ticked at most once, whatever the actors do and however many   *)
(* share the system.                                                       *)
THEOREM RoundRobin == Spec => []NoActorStarves
<1>1. ASSUME SchedInv
      PROVE  NoActorStarves
  <2> SUFFICES ASSUME NEW l \in Links, Spawned(l)
               PROVE  waited[l] < Cardinality({m \in Links : Spawned(m)})
    BY DEF NoActorStarves
  <2> DEFINE A == {m \in Links : Spawned(m)}
  <2>1. IsFiniteSet(A) /\ l \in A
    BY FS_Subset, CallersAssumption
  <2>2. Passed(l) \subseteq A \ {l}
    <3> SUFFICES ASSUME NEW x \in Passed(l)
                 PROVE  x \in A /\ x # l
      OBVIOUS
    <3>1. PICK a, b \in Slots : /\ sys.slots[a] = l /\ sys.slots[b] = x
                                /\ Gap(sys.cursor, a) < Gap(sys.cursor, b)
      BY DEF Passed
    <3>2. x \in A
      BY <3>1 DEF Passed, Spawned
    <3>3. ASSUME x = l PROVE FALSE
      <4>1. a = b
        BY <1>1, <3>1, <3>3, CallersAssumption DEF SchedInv, OneSlotEach, Free
      <4>2. Gap(sys.cursor, a) \in Nat
        BY <1>1, GapIs DEF SchedInv, SchedTyped
      <4> QED BY <3>1, <4>1, <4>2
    <3> QED BY <3>2, <3>3
  <2>3. /\ Cardinality(A \ {l}) = Cardinality(A) - 1 /\ IsFiniteSet(A \ {l})
        /\ Cardinality(A) \in Nat
    BY <2>1, FS_RemoveElement, FS_CardinalityType
  <2>4. Cardinality(Passed(l)) <= Cardinality(A \ {l})
    BY <2>2, <2>3, FS_Subset
  <2>5. waited[l] \in Nat /\ waited[l] <= Cardinality(Passed(l))
    BY <1>1 DEF SchedInv, SchedTyped
  <2> HIDE DEF A
  <2>6. waited[l] < Cardinality(A)
    BY <2>3, <2>4, <2>5, PassedFinite
  <2> QED BY <2>6 DEF A
<1> QED BY <1>1, SchedInit, SchedStep, PTL DEF Spec

-----------------------------------------------------------------------------
(* One link: the steps of its sender. *)

LinkTypes(t, r, f, b, s, len, d) ==
  /\ t \in TxType /\ r \in RxType /\ f \in Seq(Frame) /\ b \in Seq(Frame)
  /\ s \in SendType /\ len \in Nat /\ d \in Nat

(* What the receiver holds and what is on its way to it is about what the  *)
(* source has read, so it holds on while nothing more is read.             *)
LEMMA SameRead ==
  ASSUME NEW r, NEW s, NEW z, NEW len, NEW d,
         z.read = s.read, GaveUp(s) => GaveUp(z)
  PROVE  /\ RxOK(r, s, len, d) => RxOK(r, z, len, d)
         /\ \A x : FwdOK(x, s, len, d) => FwdOK(x, z, len, d)
BY DEF RxOK, FwdOK

(* A send_all that gives up leaves nothing to say about its sender. *)
LEMMA GivesUp ==
  ASSUME NEW t, NEW r, NEW f, NEW b, NEW s, NEW len, NEW d, NEW stop, NEW heard,
         LinkState(t, r, f, b, s, len, d, stop, heard),
         NEW u, NEW c, NEW z, z.read = s.read, GaveUp(z)
  PROVE  LinkState(u, r, f, c, z, len, d, stop, heard)
<1>1. RxOK(r, z, len, d) /\ (~stop => \A k \in 1 .. Len(f) : FwdOK(f[k], z, len, d))
  BY SameRead DEF LinkState
<1>2. TxOK(u, r, f, c, z, len, d, stop, heard)
  BY DEF TxOK, GaveUp
<1> QED BY <1>1, <1>2 DEF LinkState

LEMMA EmptyWire ==
  ASSUME NEW w \in Seq(Frame), Len(w) = 0
  PROVE  w = <<>>
OBVIOUS

(* The frame the sender writes. *)
LEMMA WireAppend ==
  ASSUME NEW f \in Seq(Frame), NEW x \in Frame, NEW s, NEW len, NEW d,
         FwdOK(x, s, len, d), \A k \in 1 .. Len(f) : FwdOK(f[k], s, len, d)
  PROVE  \A k \in 1 .. Len(Append(f, x)) : FwdOK(Append(f, x)[k], s, len, d)
<1> SUFFICES ASSUME NEW k \in 1 .. Len(Append(f, x))
             PROVE  FwdOK(Append(f, x)[k], s, len, d)
  OBVIOUS
<1>1. k \in 1 .. Len(f) \/ k = Len(f) + 1
  BY AppendFacts
<1> QED BY <1>1, AppendFacts

LEMMA OfferDataLink ==
  ASSUME NEW t, NEW r, NEW f, NEW b, NEW s, NEW len, NEW d, NEW stop, NEW heard,
         LinkTypes(t, r, f, b, s, len, d),
         LinkState(t, r, f, b, s, len, d, stop, heard),
         s.res = "Run", CanOfferData(t), s.read < len,
         NEW l \in Nat, NEW u, u = Offer(t, l, s.read + 1),
         NEW z, z = [s EXCEPT !.read = s.read + 1]
  PROVE  LinkState(u, r, f, b, z, len, d, stop, heard)
<1>1. ~InFlight(t) /\ ~t.writing
  BY DEF CanOfferData
<1>2. /\ t.state = "Idle" /\ s.read = s.n /\ d = s.n /\ ~IsFinished(r)
      /\ ~Replying(r) /\ b = <<>> /\ (~stop => f = <<>>) /\ t.seq = s.n % SeqMod
  BY <1>1 DEF LinkState, TxOK, RestOK
<1>3. s.read \in Nat /\ s.n \in Nat /\ z.res = "Run" /\ z.n = s.n /\ z.read = s.read + 1
  BY DEF LinkTypes, SendType
<1>4. /\ u.state = "Sending" /\ u.writing = t.writing /\ u.seq = t.seq
      /\ u.flight.kind = "Data" /\ u.flight.seq = t.seq
      /\ u.flight.pos = s.read + 1 /\ ~u.flight.waiting
  BY DEF LinkTypes, Offer, Begin, TxType
<1>5. RxOK(r, z, len, d)
  <2>1. r.action = "None"
    BY <1>2 DEF Replying
  <2>2. d <= z.read /\ z.read <= len
    BY <1>2, <1>3 DEF LinkTypes
  <2>3. ~GaveUp(s)
    BY DEF GaveUp
  <2> QED BY <1>2, <2>1, <2>2, <2>3 DEF LinkState, RxOK
<1>6. ~stop => Len(f) = 0
  BY <1>2
<1>7. FlightIs(u, r, z, len, d)
  BY <1>2, <1>3, <1>4 DEF FlightIs, LinkTypes
<1>8. OneUnderWay(u, r, f, b, z, d, stop, heard)
  BY <1>2 DEF OneUnderWay
<1>9. InFlight(u)
  BY <1>4 DEF InFlight
<1>10. TxOK(u, r, f, b, z, len, d, stop, heard)
  BY <1>1, <1>2, <1>3, <1>4, <1>7, <1>8, <1>9 DEF TxOK
<1> QED BY <1>5, <1>6, <1>10 DEF LinkState

LEMMA OfferFinishLink ==
  ASSUME NEW t, NEW r, NEW f, NEW b, NEW s, NEW len, NEW d, NEW stop, NEW heard,
         LinkTypes(t, r, f, b, s, len, d),
         LinkState(t, r, f, b, s, len, d, stop, heard),
         s.res = "Run", CanOfferData(t), s.read = len,
         NEW l \in Nat, NEW u, u = OfferFinish(t, l, len + 1)
  PROVE  LinkState(u, r, f, b, s, len, d, stop, heard)
<1>1. ~InFlight(t) /\ ~t.writing
  BY DEF CanOfferData
<1>2. /\ t.state = "Idle" /\ s.read = s.n /\ d = s.n /\ ~IsFinished(r)
      /\ ~Replying(r) /\ b = <<>> /\ (~stop => f = <<>>) /\ t.seq = s.n % SeqMod
  BY <1>1 DEF LinkState, TxOK, RestOK
<1>4. /\ u.state = "Sending" /\ u.writing = t.writing /\ u.seq = t.seq
      /\ u.flight.kind = "Finish" /\ u.flight.seq = t.seq /\ ~u.flight.waiting
  BY DEF LinkTypes, OfferFinish, Begin, TxType
<1>7. FlightIs(u, r, s, len, d)
  BY <1>2, <1>4 DEF FlightIs
<1>8. OneUnderWay(u, r, f, b, s, d, stop, heard)
  BY <1>2 DEF OneUnderWay
<1>9. InFlight(u)
  BY <1>4 DEF InFlight
<1>10. TxOK(u, r, f, b, s, len, d, stop, heard)
  BY <1>1, <1>2, <1>4, <1>7, <1>8, <1>9 DEF TxOK
<1> QED BY <1>10 DEF LinkState

(* A flight in the middle of a send_all that runs. *)
LEMMA FlightOf ==
  ASSUME NEW t, NEW r, NEW f, NEW b, NEW s, NEW len, NEW d, NEW stop, NEW heard,
         LinkState(t, r, f, b, s, len, d, stop, heard), InFlight(t),
         s.res = "Run" \/ t.flight.kind = "Abort"
  PROVE  \/ /\ s.res = "Run" /\ ~t.writing /\ t.seq = s.n % SeqMod
            /\ FlightIs(t, r, s, len, d)
            /\ OneUnderWay(t, r, f, b, s, d, stop, heard)
         \/ t.flight.kind = "Abort" /\ GaveUp(s)
<1>1. CASE s.res = "Run"
  BY <1>1 DEF LinkState, TxOK
<1>2. CASE t.flight.kind = "Abort" /\ s.res # "Run"
  BY <1>2 DEF LinkState, TxOK, GaveUp
<1> QED BY <1>1, <1>2

LEMMA WriteLink ==
  ASSUME NEW t, NEW r, NEW f, NEW b, NEW s, NEW len, NEW d, NEW stop, NEW heard,
         LinkTypes(t, r, f, b, s, len, d),
         LinkState(t, r, f, b, s, len, d, stop, heard),
         s.res = "Run" \/ t.flight.kind = "Abort", WantsWrite(t),
         NEW u, u = EndWrite(BeginWrite(t)),
         NEW w, w = f \/ w = Append(f, FlightFrame(t)) \/ w = Append(f, BadFrame)
  PROVE  /\ w \in Seq(Frame)
         /\ s.res = "Run" => u.state = "WaitingAck"
         /\ LinkState(u, r, w, b, s, len, d, stop, heard)
<1> USE DEF LinkTypes
<1>0. InFlight(t) /\ ~t.flight.waiting /\ ~t.writing
  BY DEF WantsWrite
<1>1. /\ SameFlight(u, t) /\ u.state = "WaitingAck" /\ ~u.writing /\ u.flight.waiting
  <2>1. PICK v : v = BeginWrite(t)
    OBVIOUS
  <2>2. v \in TxType /\ SameFlight(v, t)
    BY <2>1, TxOpsType, WriteFields
  <2>3. SameFlight(EndWrite(v), v) /\ EndWrite(v).state = "WaitingAck" /\ ~EndWrite(v).writing
    BY <2>2, WriteFields
  <2>4. EndWrite(v).flight.waiting
    BY <2>2 DEF EndWrite, TxType, Flight
  <2> QED BY <2>1, <2>2, <2>3, <2>4 DEF SameFlight
<1>2. FlightFrame(t) \in Frame /\ FlightFrame(t).type = t.flight.kind
      /\ FlightFrame(t).seq = t.flight.seq /\ FlightFrame(t).pos = t.flight.pos
  <2>1. t.flight.kind \in FrameTypes /\ t.flight.seq \in Seqs
        /\ t.flight.sess \in Nat /\ t.flight.pos \in Nat
    BY <1>0 DEF TxType, Flight, InFlight, FlightKinds, FrameTypes
  <2> QED BY <2>1, FrameType DEF FlightFrame, MkFrame
<1>3. w \in Seq(Frame)
  <2>1. BadFrame \in Frame
    BY FrameType
  <2>2. \A x \in Frame : Append(f, x) \in Seq(Frame)
    BY FrameSeq
  <2> QED BY <1>2, <2>1, <2>2
<1>4. BadFrame.type = "Bad"
  BY DEF BadFrame, MkFrame
<1>5. FwdOK(BadFrame, s, len, d)
  BY <1>4 DEF FwdOK
<1>6. FwdOK(FlightFrame(t), s, len, d)
  <2>1. CASE t.flight.kind = "Abort" /\ GaveUp(s)
    BY <1>2, <2>1 DEF FwdOK
  <2>2. CASE t.seq = s.n % SeqMod /\ FlightIs(t, r, s, len, d)
    <3>1. CASE /\ t.flight.kind = "Data" /\ t.flight.pos = s.read /\ s.read = s.n + 1
               /\ d >= s.n /\ t.flight.seq = t.seq
      <4>1. s.n \in Nat
        BY DEF SendType
      <4>2. SeqOf(s.read) = s.n % SeqMod /\ s.read >= 1 /\ d >= s.read - 1
        <5>1. s.read - 1 = s.n
          BY <3>1, <4>1
        <5> QED BY <3>1, <4>1, <5>1 DEF SeqOf
      <4> QED BY <1>2, <2>2, <3>1, <4>2 DEF FwdOK
    <3>2. CASE /\ t.flight.kind = "Finish" /\ s.n = len /\ d = len
               /\ t.flight.seq = t.seq
      BY <1>2, <2>2, <3>2 DEF FwdOK
    <3> QED BY <2>2, <3>1, <3>2 DEF FlightIs
  <2> QED BY <1>0, <2>1, <2>2, FlightOf
<1>7. ~stop => \A k \in 1 .. Len(w) : FwdOK(w[k], s, len, d)
  <2> SUFFICES ASSUME ~stop
               PROVE  \A k \in 1 .. Len(w) : FwdOK(w[k], s, len, d)
    OBVIOUS
  <2>1. \A k \in 1 .. Len(f) : FwdOK(f[k], s, len, d)
    BY DEF LinkState
  <2>2. BadFrame \in Frame
    BY FrameType
  <2> QED BY <1>2, <1>5, <1>6, <2>1, <2>2, WireAppend
<1>8. TxOK(u, r, w, b, s, len, d, stop, heard)
  <2>1. CASE t.flight.kind = "Abort" /\ GaveUp(s)
    BY <2>1 DEF TxOK, GaveUp
  <2>2. CASE /\ s.res = "Run" /\ ~t.writing /\ t.seq = s.n % SeqMod
             /\ FlightIs(t, r, s, len, d)
             /\ OneUnderWay(t, r, f, b, s, d, stop, heard)
    <3>1. FlightIs(u, r, s, len, d)
      BY <1>1, <2>2 DEF FlightIs, SameFlight
    <3>2. b = <<>> /\ (~stop => f = <<>> /\ ~Replying(r))
          /\ (Replying(r) => r.action \in ReplyOf(u.flight.kind))
      BY <1>0, <1>1, <2>2 DEF OneUnderWay, SameFlight
    <3>3. ~stop /\ w # <<>> => Len(w) = 1 /\ w[1].type \in {t.flight.kind, "Bad"}
      BY <1>2, <1>4, <3>2
    <3>4. OneUnderWay(u, r, w, b, s, d, stop, heard)
      BY <1>1, <3>2, <3>3 DEF OneUnderWay, SameFlight
    <3>5. InFlight(u)
      BY <1>0, <1>1 DEF InFlight, SameFlight
    <3> QED BY <1>1, <2>2, <3>1, <3>4, <3>5 DEF TxOK, SameFlight
  <2> QED BY <1>0, <2>1, <2>2, FlightOf
<1> QED BY <1>1, <1>3, <1>7, <1>8 DEF LinkState

(* The flight goes on, with nothing on its way back. *)
LEMMA FlightGoesOn ==
  ASSUME NEW t, NEW r, NEW f, NEW b, NEW s, NEW len, NEW d, NEW stop, NEW heard,
         LinkState(t, r, f, b, s, len, d, stop, heard),
         s.res = "Run", InFlight(t), ~t.writing,
         NEW u, SameFlight(u, t), u.writing = t.writing,
         u.state \in {"Retrying", t.state},
         \/ u.flight.waiting = t.flight.waiting
         \/ ~stop => f = <<>> /\ ~Replying(r)
  PROVE  LinkState(u, r, f, <<>>, s, len, d, stop, heard)
<1>1. /\ t.seq = s.n % SeqMod /\ FlightIs(t, r, s, len, d)
      /\ OneUnderWay(t, r, f, b, s, d, stop, heard)
  BY DEF LinkState, TxOK
<1>2. FlightIs(u, r, s, len, d)
  BY <1>1 DEF FlightIs, SameFlight
<1>3. OneUnderWay(u, r, f, <<>>, s, d, stop, heard)
  BY <1>1 DEF OneUnderWay, SameFlight
<1>4. InFlight(u) /\ u.seq = t.seq
  BY DEF InFlight, SameFlight
<1>5. TxOK(u, r, f, <<>>, s, len, d, stop, heard)
  BY <1>1, <1>2, <1>3, <1>4 DEF TxOK
<1> QED BY <1>5 DEF LinkState

(* What send_all makes of a poll. *)
LEMMA SettleIs ==
  ASSUME NEW s \in SendType, NEW t, NEW u, NEW z, z = Settle(s, t, u)
  PROVE  /\ z \in SendType /\ z.read = s.read
         /\ s.res # "Run" => z = s
         /\ s.res = "Run" =>
              /\ u.state \in {"Sending", "WaitingAck", "Retrying"} => z = s
              /\ u.state = "Failed" => GaveUp(z)
              /\ u.state = "Aborted" => GaveUp(z)
              /\ u.state = "Finished" => z.res = "Ok" /\ z.n = s.n
              /\ u.state = "Idle" /\ t.flight.kind = "Data" =>
                   z.res = "Run" /\ z.n = s.n + 1
<1>1. CASE s.res # "Run"
  BY <1>1 DEF Settle
<1>2. CASE s.res = "Run"
  <2>1. CASE u.state = "Finished"
    <3>1. z = [s EXCEPT !.res = "Ok"]
      BY <1>2, <2>1 DEF Settle
    <3> QED BY <1>2, <2>1, <3>1 DEF SendType, SendResults
  <2>2. CASE u.state = "Aborted"
    <3>1. z = [s EXCEPT !.res = "Aborted"]
      BY <1>2, <2>2 DEF Settle
    <3> QED BY <1>2, <2>2, <3>1 DEF SendType, SendResults, GaveUp
  <2>3. CASE u.state = "Failed"
    <3>1. z = [s EXCEPT !.res = "RetriesExhausted"]
      BY <1>2, <2>3 DEF Settle
    <3> QED BY <1>2, <2>3, <3>1 DEF SendType, SendResults, GaveUp
  <2>4. CASE u.state = "Idle" /\ t.flight.kind = "Data"
    <3>1. z = [s EXCEPT !.n = s.n + 1]
      BY <1>2, <2>4 DEF Settle
    <3> QED BY <1>2, <2>4, <3>1 DEF SendType, SendResults
  <2>5. CASE /\ u.state \notin {"Finished", "Aborted", "Failed"}
             /\ ~(u.state = "Idle" /\ t.flight.kind = "Data")
    <3>1. z = s
      BY <1>2, <2>5 DEF Settle
    <3> QED BY <1>2, <2>5, <3>1
  <2> QED BY <2>1, <2>2, <2>3, <2>4, <2>5
<1> QED BY <1>1, <1>2

LEMMA EmptyReadLink ==
  ASSUME NEW t, NEW r, NEW f, NEW b, NEW s, NEW len, NEW d, NEW stop, NEW heard,
         LinkTypes(t, r, f, b, s, len, d),
         LinkState(t, r, f, b, s, len, d, stop, heard),
         s.res = "Run" \/ t.flight.kind = "Abort", Waits(t), b = <<>>,
         ~stop => f = <<>> /\ ~Replying(r),
         NEW u, u = OnEmptyRead(t), NEW z, z = Settle(s, t, u)
  PROVE  LinkState(u, r, f, b, z, len, d, stop, heard)
<1> USE DEF LinkTypes
<1>1. InFlight(t) /\ ~t.writing
  BY DEF Waits
<1>2. CASE s.res # "Run"
  <2>1. GaveUp(s) /\ z = s
    BY <1>1, <1>2, FlightOf, SettleIs
  <2> QED BY <2>1, GivesUp
<1>3. CASE s.res = "Run"
  <2>1. /\ u.writing = t.writing
        /\ \/ u.flight.kind = "None" /\ u.state = "Failed"
           \/ SameFlight(u, t) /\ u.state \in {"Retrying", t.state}
    BY AttemptFields
  <2>2. t.state \in {"Sending", "WaitingAck", "Retrying"}
    BY <1>1, <1>3 DEF LinkState, TxOK, FlightIs
  <2>3. CASE u.state = "Failed"
    BY <1>3, <2>3, SettleIs, GivesUp
  <2>4. CASE SameFlight(u, t) /\ u.state \in {"Retrying", t.state}
    <3>1. z = s
      BY <1>3, <2>2, <2>4, SettleIs
    <3>2. LinkState(u, r, f, <<>>, s, len, d, stop, heard)
      BY <1>1, <1>3, <2>1, <2>4, FlightGoesOn
    <3> QED BY <3>1, <3>2
  <2> QED BY <2>1, <2>3, <2>4
<1> QED BY <1>2, <1>3

LEMMA ControlLink ==
  ASSUME NEW t, NEW r, NEW f, NEW b, NEW s, NEW len, NEW d, NEW stop, NEW heard,
         LinkTypes(t, r, f, b, s, len, d),
         LinkState(t, r, f, b, s, len, d, stop, heard),
         s.res = "Run" \/ t.flight.kind = "Abort", Waits(t), b # <<>>,
         NEW u, u = OnControl(t, Head(b)), NEW z, z = Settle(s, t, u)
  PROVE  LinkState(u, r, f, Tail(b), z, len, d, stop, heard)
<1> USE DEF LinkTypes
<1>1. InFlight(t) /\ ~t.writing
  BY DEF Waits
<1>2. CASE s.res # "Run"
  <2>1. GaveUp(s) /\ z = s
    BY <1>1, <1>2, FlightOf, SettleIs
  <2> QED BY <2>1, GivesUp
<1>3. CASE s.res = "Run"
  <2>1. /\ t.seq = s.n % SeqMod /\ FlightIs(t, r, s, len, d)
        /\ OneUnderWay(t, r, f, b, s, d, stop, heard)
    BY <1>1, <1>3 DEF LinkState, TxOK
  <2>2. /\ Len(b) = 1 /\ BackOK(b[1], t, s, d, heard)
        /\ ~Replying(r) /\ (~stop => f = <<>>)
    BY <2>1 DEF OneUnderWay
  <2>3. PICK c : c = Head(b)
    OBVIOUS
  <2>4. Tail(b) = <<>> /\ c = b[1] /\ c \in Frame
    <3>1. Head(b) = b[1] /\ Head(b) \in Frame /\ Tail(b) \in Seq(Frame)
          /\ Len(Tail(b)) = Len(b) - 1
      BY TailFacts
    <3>2. Len(Tail(b)) = 0
      BY <2>2, <3>1
    <3>3. Tail(b) = <<>>
      BY <3>1, <3>2, EmptyWire
    <3> QED BY <2>3, <3>1, <3>3
  <2>5. c.type \in {"Ack", "Nack", "Bad"}
    BY <2>2, <2>4 DEF BackOK
  <2>6. t.state \in {"Sending", "WaitingAck", "Retrying"}
    BY <2>1 DEF FlightIs
  <2>7. CASE c.type = "Ack" /\ c.seq = t.flight.seq /\ u = OnAck(t)
    <3>1. CASE t.flight.kind = "Data"
      <4>1. /\ u.flight.kind = "None" /\ u.state = "Idle" /\ u.seq = Advance(t.seq)
            /\ u.writing = t.writing
        BY <2>7, <3>1, AckFields
      <4>2. z.res = "Run" /\ z.n = s.n + 1 /\ z.read = s.read /\ s.n \in Nat
        BY <1>3, <3>1, <4>1, SettleIs DEF SendType
      <4>3. d = s.read /\ s.read = s.n + 1 /\ ~IsFinished(r)
        BY <2>1, <2>2, <2>4, <2>7, <3>1 DEF BackOK, FlightIs
      <4>4. u.seq = z.n % SeqMod
        BY <2>1, <4>1, <4>2, AdvanceMod
      <4>5. RestOK(u, r, f, Tail(b), z, d, stop)
        BY <2>2, <2>4, <4>1, <4>2, <4>3 DEF RestOK
      <4>6. TxOK(u, r, f, Tail(b), z, len, d, stop, heard)
        BY <1>1, <4>1, <4>2, <4>4, <4>5 DEF TxOK, InFlight
      <4>7. GaveUp(s) => GaveUp(z)
        BY <1>3 DEF GaveUp
      <4> QED BY <4>2, <4>6, <4>7, SameRead DEF LinkState
    <3>2. CASE t.flight.kind = "Finish"
      <4>1. u.flight.kind = "None" /\ u.state = "Finished"
        BY <2>7, <3>2, AckFields
      <4>2. z.res = "Ok" /\ z.n = s.n /\ z.read = s.read
        BY <1>3, <4>1, SettleIs
      <4>3. heard /\ s.n = len /\ d = len
        BY <2>1, <2>2, <2>4, <2>7, <3>2 DEF BackOK, FlightIs
      <4>6. TxOK(u, r, f, Tail(b), z, len, d, stop, heard)
        BY <4>1, <4>2, <4>3 DEF TxOK, InFlight
      <4>7. GaveUp(s) => GaveUp(z)
        BY <1>3 DEF GaveUp
      <4> QED BY <4>2, <4>6, <4>7, SameRead DEF LinkState
    <3> QED BY <2>1, <3>1, <3>2 DEF FlightIs
  <2>8. CASE u.flight.kind = "None" /\ u.state = "Failed"
    BY <1>3, <2>8, SettleIs, GivesUp
  <2>9. CASE /\ SameFlight(u, t) /\ u.state \in {"Retrying", t.state}
             /\ u.writing = t.writing
    <3>1. z = s
      BY <1>3, <2>6, <2>9, SettleIs
    <3>2. LinkState(u, r, f, <<>>, s, len, d, stop, heard)
      BY <1>1, <1>3, <2>2, <2>9, FlightGoesOn
    <3> QED BY <2>4, <3>1, <3>2
  <2> QED BY <2>3, <2>4, <2>5, <2>7, <2>8, <2>9, ControlFields
<1> QED BY <1>2, <1>3

LEMMA AbortLink ==
  ASSUME NEW t, NEW r, NEW f, NEW b, NEW s, NEW len, NEW d, NEW stop, NEW heard,
         LinkTypes(t, r, f, b, s, len, d),
         LinkState(t, r, f, b, s, len, d, stop, heard), GaveUp(s),
         NEW u, NEW z, z = [s EXCEPT !.gone = TRUE],
         NEW w, w = f \/ \E k \in 1 .. FrameLen - 1 : w = Append(f, TornFrame(k))
  PROVE  w \in Seq(Frame) /\ LinkState(u, r, w, b, z, len, d, stop, heard)
<1> USE DEF LinkTypes
<1>1. z.read = s.read /\ z.res = s.res /\ GaveUp(z)
  BY DEF SendType, GaveUp
<1>2. LinkState(u, r, f, b, z, len, d, stop, heard)
  BY <1>1, GivesUp
<1>3. CASE w = f
  BY <1>2, <1>3
<1>4. ASSUME NEW k \in 1 .. FrameLen - 1, w = Append(f, TornFrame(k))
      PROVE  w \in Seq(Frame) /\ LinkState(u, r, w, b, z, len, d, stop, heard)
  <2>1. TornFrame(k) \in Frame
    BY FrameType
  <2>2. FwdOK(TornFrame(k), z, len, d)
    BY <1>1 DEF FwdOK, TornFrame, MkFrame
  <2>3. w \in Seq(Frame)
    BY <1>4, <2>1, FrameSeq
  <2>4. ~stop => \A j \in 1 .. Len(w) : FwdOK(w[j], z, len, d)
    BY <1>2, <1>4, <2>1, <2>2, WireAppend DEF LinkState
  <2>5. TxOK(u, r, w, b, z, len, d, stop, heard)
    BY <1>1 DEF TxOK, GaveUp
  <2> QED BY <1>2, <2>3, <2>4, <2>5 DEF LinkState
<1> QED BY <1>3, <1>4

-----------------------------------------------------------------------------
(* One link: the steps of its receiver.  stop and hears hold after them.   *)

(* The reply arrives, is lost or arrives damaged, and the application has  *)
(* been handed the byte of a Deliver, or refused it: e bytes by now.       *)
Replied(r, b, c, d, e, heard, hears) ==
  /\ c = b \/ c = Append(b, r.reply) \/ c = Append(b, BadFrame)
  /\ r.action = "Deliver" => e = d + 1
  /\ r.action # "Deliver" => e = d
  /\ heard \/ r.action = "Finished" => hears

LEMMA ReplyLink ==
  ASSUME NEW t, NEW r, NEW f, NEW b, NEW s, NEW len, NEW d, NEW heard \in BOOLEAN,
         LinkTypes(t, r, f, b, s, len, d),
         LinkState(t, r, f, b, s, len, d, FALSE, heard),
         Replying(r), NEW u, u = TakePending(r),
         NEW stop \in BOOLEAN, NEW hears \in BOOLEAN,
         NEW c, NEW e, Replied(r, b, c, d, e, heard, hears)
  PROVE  LinkState(t, u, f, c, s, len, e, stop, hears)
<1> USE DEF LinkTypes, Replied
<1>1. /\ u.action = "None" /\ u.abort_latched = r.abort_latched
      /\ r.action = "Deliver" => u.expected = Advance(r.expected)
      /\ r.action # "Deliver" => u.expected = r.expected
      /\ u.finish_seq = r.finish_seq
  <2>1. r.action # "Started"
    BY DEF LinkState, RxOK
  <2> QED BY <2>1 DEF TakePending, RxType
<1>2. r.reply \in Frame /\ BadFrame \in Frame /\ BadFrame.type = "Bad"
  BY FrameType DEF RxType, BadFrame, MkFrame
<1>3. c \in Seq(Frame)
  BY <1>2, FrameSeq
<1>4. RxOK(r, s, len, d)
  BY DEF LinkState
<1>5. e \in Nat /\ s.read \in Nat /\ s.n \in Nat
  BY DEF SendType
<1>6. r.action = "Deliver" =>
        d + 1 = s.read /\ e = s.read /\ ~IsFinished(r) /\ ~r.abort_latched
  BY <1>4, <1>5 DEF RxOK
<1>7. RxOK(u, s, len, e)
  <2>1. e <= s.read /\ s.read <= len
    BY <1>4, <1>5, <1>6 DEF RxOK
  <2>2. ~u.abort_latched => u.expected = e % SeqMod
    <3>1. CASE r.action = "Deliver"
      BY <1>1, <1>4, <3>1, AdvanceMod DEF RxOK
    <3>2. CASE r.action # "Deliver"
      BY <1>1, <1>4, <3>2 DEF RxOK
    <3> QED BY <3>1, <3>2
  <2>3. IsFinished(u) => e = len /\ u.finish_seq = len % SeqMod
    BY <1>1, <1>4, <1>6 DEF RxOK, IsFinished
  <2>4. u.abort_latched => GaveUp(s)
    BY <1>1, <1>4 DEF RxOK
  <2> QED BY <1>1, <2>1, <2>2, <2>3, <2>4 DEF RxOK
<1>8. \A k \in 1 .. Len(f) : FwdOK(f[k], s, len, e)
  <2> SUFFICES ASSUME NEW k \in 1 .. Len(f)
               PROVE  FwdOK(f[k], s, len, e)
    OBVIOUS
  <2>1. FwdOK(f[k], s, len, d)
    BY DEF LinkState
  <2>2. r.action = "Deliver" => d # len
    BY <1>4, <1>5, <1>6 DEF RxOK
  <2>3. d >= s.read - 1 => e >= s.read - 1
    BY <1>5
  <2> QED BY <2>1, <2>2, <2>3 DEF FwdOK
<1>9. TxOK(t, u, f, c, s, len, e, stop, hears)
  <2>1. ASSUME s.res = "Ok"
        PROVE  s.n = len /\ e = len /\ hears /\ ~InFlight(t)
    <3>1. s.n = len /\ d = len /\ heard /\ ~InFlight(t)
      BY <2>1 DEF LinkState, TxOK
    <3>2. r.action # "Deliver"
      BY <1>4, <1>5, <1>6, <3>1 DEF RxOK
    <3> QED BY <3>1, <3>2
  <2>2. ASSUME s.res = "Run"
        PROVE  /\ ~t.writing /\ t.seq = s.n % SeqMod
               /\ InFlight(t) => /\ FlightIs(t, u, s, len, e)
                                 /\ OneUnderWay(t, u, f, c, s, e, stop, hears)
               /\ ~InFlight(t) => RestOK(t, u, f, c, s, e, stop)
    <3>1. ~t.writing /\ t.seq = s.n % SeqMod
      BY <2>2 DEF LinkState, TxOK
    <3>2. InFlight(t)
      BY <2>2 DEF LinkState, TxOK, RestOK
    <3>3. /\ FlightIs(t, r, s, len, d)
          /\ OneUnderWay(t, r, f, b, s, d, FALSE, heard)
      BY <2>2, <3>2 DEF LinkState, TxOK
    <3>4. /\ b = <<>> /\ f = <<>> /\ t.flight.waiting
          /\ r.action \in ReplyOf(t.flight.kind)
      BY <3>3 DEF OneUnderWay
    <3>5. FlightIs(t, u, s, len, e)
      <4>1. t.flight.kind # "Data" => r.action # "Deliver"
        BY <3>4 DEF ReplyOf
      <4>2. d >= s.n => e >= s.n
        BY <1>5
      <4> QED BY <1>1, <3>3, <4>1, <4>2 DEF FlightIs, IsFinished
    <3>6. BackOK(BadFrame, t, s, e, hears)
      BY <1>2 DEF BackOK
    <3>7. BackOK(r.reply, t, s, e, hears)
      <4>1. CASE r.action \in {"CrcRejected", "Rejected"}
        BY <1>4, <4>1 DEF BackOK, RxOK
      <4>2. CASE r.action \in {"Deliver", "Duplicate"} /\ t.flight.kind = "Data"
        <5>1. r.reply.type = "Ack" /\ r.reply.seq = SeqOf(s.read) /\ e = s.read
          BY <1>4, <1>6, <4>2 DEF RxOK
        <5>2. s.read - 1 = s.n /\ t.flight.seq = s.n % SeqMod
          BY <1>5, <3>1, <3>3, <4>2 DEF FlightIs
        <5> QED BY <4>2, <5>1, <5>2 DEF BackOK, SeqOf
      <4>3. CASE r.action = "Finished" /\ t.flight.kind = "Finish"
        <5>1. r.reply.type = "Ack" /\ r.reply.seq = len % SeqMod
          BY <1>4, <4>3 DEF RxOK
        <5>2. t.flight.seq = len % SeqMod
          BY <3>1, <3>3, <4>3 DEF FlightIs
        <5> QED BY <4>3, <5>1, <5>2 DEF BackOK
      <4> QED BY <3>3, <3>4, <4>1, <4>2, <4>3 DEF ReplyOf, FlightIs
    <3>8. c # <<>> => Len(c) = 1 /\ c[1] \in {r.reply, BadFrame}
      BY <1>2, <3>4
    <3>9. OneUnderWay(t, u, f, c, s, e, stop, hears)
      BY <1>1, <3>4, <3>6, <3>7, <3>8 DEF OneUnderWay, Replying
    <3> QED BY <3>1, <3>2, <3>5, <3>9
  <2> QED BY <2>1, <2>2 DEF TxOK
<1> QED BY <1>3, <1>7, <1>8, <1>9 DEF LinkState

(* Nothing is read or written; the loop may stop. *)
LEMMA IdleLink ==
  ASSUME NEW t, NEW r, NEW f, NEW b, NEW s, NEW len, NEW d, NEW heard \in BOOLEAN,
         LinkState(t, r, f, b, s, len, d, FALSE, heard),
         NEW stop \in BOOLEAN, NEW hears \in BOOLEAN, heard => hears
  PROVE  LinkState(t, r, f, b, s, len, d, stop, hears)
<1>1. TxOK(t, r, f, b, s, len, d, stop, hears)
  BY DEF LinkState, TxOK, OneUnderWay, BackOK, RestOK
<1> QED BY <1>1 DEF LinkState

(* The receiver after it has read a frame. *)
AnswerTo(u, r, x) ==
  /\ u.action \notin {"None", "CrcRejected", "Rejected"} =>
       /\ x.type = "Data" => u.action \in {"Deliver", "Duplicate"}
       /\ x.type = "Finish" => u.action = "Finished"
       /\ x.type \in {"Data", "Finish", "Abort"}
  /\ x.type # "Finish" => u.finish_seq = r.finish_seq

LEMMA ReadKeepsRx ==
  ASSUME NEW t, NEW r, NEW f, NEW b, NEW s, NEW len, NEW d, NEW heard,
         LinkTypes(t, r, f, b, s, len, d),
         LinkState(t, r, f, b, s, len, d, FALSE, heard),
         ~Replying(r), f # <<>>, NEW u, u = TakeFrame(r, f[1])
  PROVE  RxOK(u, s, len, d) /\ AnswerTo(u, r, f[1])
<1> USE DEF LinkTypes
<1>1. PICK x : x = f[1]
  OBVIOUS
<1>2. x \in Frame /\ FwdOK(x, s, len, d)
  <2>1. 1 \in 1 .. Len(f) /\ f[1] \in Frame
    BY TailFacts
  <2> QED BY <1>1, <2>1 DEF LinkState
<1>3. RxOK(r, s, len, d)
  BY DEF LinkState
<1>4. s.read \in Nat /\ d <= s.read /\ s.read <= len
  BY <1>3 DEF SendType, RxOK
<1>5. \/ Skipped(u, r) \/ Nacked(u, r)
      \/ Accepted(u, r, x) \/ Repeated(u, r, x) \/ Restarted(u, r, x)
      \/ Cancelled(u, r, x) \/ Concluded(u, r, x)
  BY <1>1, <1>2, ReadOutcomes
<1>6. CASE Skipped(u, r)
  <2>1. RxOK(u, s, len, d)
    BY <1>3, <1>6 DEF Skipped, SameLatches, RxOK, IsFinished
  <2> QED BY <1>1, <1>6, <2>1 DEF Skipped, SameLatches, AnswerTo
<1>7. CASE Nacked(u, r)
  <2>1. RxOK(u, s, len, d)
    BY <1>3, <1>7 DEF Nacked, SameLatches, RxOK, IsFinished
  <2> QED BY <1>1, <1>7, <2>1 DEF Nacked, SameLatches, AnswerTo
<1>8. ASSUME x.type = "Data", ~IsClosed(r), SameLatches(u, r), Acks(u, x.seq, x),
             x.seq = r.expected => u.action = "Deliver",
             x.seq # r.expected => u.action = "Duplicate",
             x.seq \in {r.expected, Previous(r.expected)}
      PROVE  RxOK(u, s, len, d)
  <2>1. /\ s.read >= 1 /\ x.pos = s.read /\ x.seq = SeqOf(s.read) /\ d >= s.read - 1
        /\ r.expected = d % SeqMod
    BY <1>2, <1>3, <1>8 DEF FwdOK, RxOK, IsClosed
  <2>2. u.reply.type = "Ack" /\ u.reply.seq = SeqOf(s.read) /\ u.reply.pos = s.read
    BY <1>8, <2>1 DEF Acks, MkFrame
  <2>3. s.read - 1 \in Nat /\ x.seq = (s.read - 1) % SeqMod
    BY <1>4, <2>1 DEF SeqOf
  <2>4. x.seq = r.expected => d = s.read - 1
    <3> SUFFICES ASSUME x.seq = r.expected
                 PROVE  d = s.read - 1
      OBVIOUS
    <3>1. PICK a \in Nat : a = s.read - 1
      BY <2>3
    <3>2. d % SeqMod = a % SeqMod
      BY <2>1, <2>3, <3>1
    <3>3. d - a < SeqMod /\ a - d < SeqMod
      BY <1>4, <2>1, <3>1, SeqModAssumption
    <3>4. d = a
      BY <3>2, <3>3, ModInjective
    <3> QED BY <3>1, <3>4
  <2>5. d = s.read - 1 => x.seq = r.expected
    BY <2>1, <2>3
  <2>6. d = s.read - 1 \/ d = s.read
    BY <1>4, <2>1
  <2>7. d = IF u.action = "Deliver" THEN s.read - 1 ELSE s.read
    BY <1>8, <2>4, <2>5, <2>6
  <2>8. u.action \in {"Deliver", "Duplicate"} /\ ~u.abort_latched /\ ~IsFinished(u)
    BY <1>8 DEF SameLatches, IsClosed, IsFinished
  <2> QED BY <1>3, <1>4, <1>8, <2>1, <2>2, <2>7, <2>8 DEF RxOK, SameLatches
<1>9. CASE Accepted(u, r, x) \/ Repeated(u, r, x)
  <2>1. RxOK(u, s, len, d)
    BY <1>8, <1>9 DEF Accepted, Repeated
  <2> QED BY <1>1, <1>9, <2>1 DEF Accepted, Repeated, SameLatches, AnswerTo
<1>10. CASE Restarted(u, r, x)
  BY <1>2, <1>10 DEF Restarted, FwdOK
<1>11. CASE Cancelled(u, r, x)
  <2>1. RxOK(u, s, len, d)
    BY <1>2, <1>3, <1>11 DEF Cancelled, FwdOK, RxOK, IsFinished
  <2> QED BY <1>1, <1>11, <2>1 DEF Cancelled, AnswerTo
<1>12. CASE Concluded(u, r, x)
  <2>1. x.seq = len % SeqMod /\ d = len
    BY <1>2, <1>12 DEF Concluded, FwdOK
  <2>2. u.reply.type = "Ack" /\ u.reply.seq = len % SeqMod /\ u.action = "Finished"
    BY <1>12, <2>1 DEF Concluded, Acks, MkFrame
  <2>3. IsFinished(u)
    BY <1>12, SeqModAssumption DEF Concluded, IsFinished, NoSeq, Seqs
  <2>4. RxOK(u, s, len, d)
    BY <1>3, <1>12, <2>1, <2>2, <2>3 DEF Concluded, RxOK
  <2> QED BY <1>1, <1>12, <2>4 DEF Concluded, AnswerTo
<1> QED BY <1>5, <1>6, <1>7, <1>9, <1>10, <1>11, <1>12

LEMMA ReadLink ==
  ASSUME NEW t, NEW r, NEW f, NEW b, NEW s, NEW len, NEW d, NEW heard \in BOOLEAN,
         LinkTypes(t, r, f, b, s, len, d),
         LinkState(t, r, f, b, s, len, d, FALSE, heard),
         ~Replying(r), f # <<>>, NEW u, u = TakeFrame(r, Head(f)),
         NEW stop \in BOOLEAN, NEW hears \in BOOLEAN, heard => hears
  PROVE  LinkState(t, u, Tail(f), b, s, len, d, stop, hears)
<1> USE DEF LinkTypes
<1>1. Head(f) = f[1] /\ Len(Tail(f)) = Len(f) - 1 /\ Tail(f) \in Seq(Frame)
      /\ Len(f) \in Nat
      /\ \A k \in 1 .. Len(Tail(f)) : k + 1 \in 1 .. Len(f) /\ Tail(f)[k] = f[k + 1]
  BY TailFacts
<1>2. RxOK(u, s, len, d) /\ AnswerTo(u, r, f[1])
  <2>1. u = TakeFrame(r, f[1])
    BY <1>1
  <2> QED BY <2>1, ReadKeepsRx
<1>3. \A k \in 1 .. Len(Tail(f)) : FwdOK(Tail(f)[k], s, len, d)
  BY <1>1 DEF LinkState
<1>4. TxOK(t, u, Tail(f), b, s, len, d, stop, hears)
  <2>1. ASSUME s.res = "Ok"
        PROVE  s.n = len /\ d = len /\ hears /\ ~InFlight(t)
    BY <2>1 DEF LinkState, TxOK
  <2>2. ASSUME s.res = "Run"
        PROVE  /\ ~t.writing /\ t.seq = s.n % SeqMod
               /\ InFlight(t) => /\ FlightIs(t, u, s, len, d)
                                 /\ OneUnderWay(t, u, Tail(f), b, s, d, stop, hears)
               /\ ~InFlight(t) => RestOK(t, u, Tail(f), b, s, d, stop)
    <3>1. ~t.writing /\ t.seq = s.n % SeqMod
      BY <2>2 DEF LinkState, TxOK
    <3>2. InFlight(t)
      BY <2>2 DEF LinkState, TxOK, RestOK
    <3>3. /\ FlightIs(t, r, s, len, d)
          /\ OneUnderWay(t, r, f, b, s, d, FALSE, heard)
      BY <2>2, <3>2 DEF LinkState, TxOK
    <3>4. /\ b = <<>> /\ Len(f) = 1 /\ t.flight.waiting
          /\ f[1].type \in {t.flight.kind, "Bad"}
      BY <3>3 DEF OneUnderWay
    <3>5. FlightIs(t, u, s, len, d)
      BY <1>2, <3>3, <3>4 DEF FlightIs, IsFinished, AnswerTo
    <3>6. Tail(f) = <<>>
      BY <1>1, <3>4
    <3>7. Replying(u) => u.action \in ReplyOf(t.flight.kind)
      BY <1>2, <3>3, <3>4 DEF Replying, ReplyOf, FlightIs, AnswerTo
    <3>8. OneUnderWay(t, u, Tail(f), b, s, d, stop, hears)
      BY <3>4, <3>6, <3>7 DEF OneUnderWay
    <3> QED BY <3>1, <3>2, <3>5, <3>8
  <2> QED BY <2>1, <2>2 DEF TxOK
<1> QED BY <1>2, <1>3, <1>4 DEF LinkState

-----------------------------------------------------------------------------
(* The steps of the senders preserve the invariant. *)

LinksInv == LinkTyped /\ HostInv /\ \A l \in Links : LinkInv(l)

LinkFacts(l) ==
  /\ LinkTypes(tx[l], rx[l], fwd[l], back[l], send[l], src[l].len, Delivered(l))
  /\ LinkState(tx[l], rx[l], fwd[l], back[l], send[l], src[l].len, Delivered(l),
               Stopped(l), FinishHeard(l))

LEMMA DeliveredType ==
  ASSUME LinkTyped, NEW l \in Links
  PROVE  Delivered(l) \in Nat /\ Len(sink[l]) \in Nat
<1>1. sink[l] \in Seq(Nat)
  BY DEF LinkTyped
<1>2. Len(sink[l]) \in Nat
  BY <1>1
<1>3. PICK n \in Nat : n = Len(sink[l])
  BY <1>2
<1>4. Delivered(l) = n + 1 \/ Delivered(l) = n + 0
  BY <1>3 DEF Delivered
<1>5. Delivered(l) \in Nat
  BY <1>4
<1> QED BY <1>2, <1>5

LEMMA FactsOf ==
  ASSUME LinksInv, NEW l \in Links
  PROVE  LinkFacts(l)
<1>1. /\ tx[l] \in TxType /\ rx[l] \in RxType /\ fwd[l] \in Seq(Frame)
      /\ back[l] \in Seq(Frame) /\ send[l] \in SendType /\ src[l].len \in Nat
  BY DEF LinksInv, LinkTyped
<1> QED BY <1>1, DeliveredType DEF LinkFacts, LinkTypes, LinksInv, LinkInv

(* Every other link is as it was. *)
OnlyLink(l) ==
  \A m \in Links \ {l} :
    /\ tx'[m] = tx[m] /\ rx'[m] = rx[m] /\ fwd'[m] = fwd[m] /\ back'[m] = back[m]
    /\ send'[m] = send[m]

LEMMA SenderStep ==
  ASSUME LinksInv, NEW l \in Links, LinkTyped', OnlyLink(l),
         UNCHANGED <<host, rx, src, sink, recv, sys>>,
         LinkState(tx'[l], rx[l], fwd'[l], back'[l], send'[l], src[l].len,
                   Delivered(l), Stopped(l), FinishHeard(l)),
         GaveUp(send[l]) => GaveUp(send'[l])
  PROVE  LinksInv'
<1>1. HostInv'
  BY DEF LinksInv, HostInv
<1>2. ASSUME NEW m \in Links
      PROVE  LinkInv(m)'
  <2>1. /\ Delivered(m)' = Delivered(m) /\ Stopped(m)' = Stopped(m)
        /\ FinishHeard(m)' = FinishHeard(m) /\ SinkInv(m)' = SinkInv(m)
    BY DEF Delivered, Stopped, FinishHeard, SinkInv
  <2>2. GaveUp(send[m]) => GaveUp(send'[m])
    BY DEF OnlyLink
  <2>3. LinkState(tx'[m], rx'[m], fwd'[m], back'[m], send'[m], src'[m].len,
                  Delivered(m)', Stopped(m)', FinishHeard(m)')
    BY <2>1, FactsOf, Zenon DEF OnlyLink, LinkFacts
  <2>4. LinkInv(m)
    BY DEF LinksInv
  <2>5. /\ m \in sys'.done => Delivered(m)' = src'[m].len \/ GaveUp(send'[m])
        /\ m = 1 /\ recv'.res = "Ok" => Delivered(m)' = src'[m].len
    BY <2>1, <2>2, <2>4 DEF LinkInv
  <2>6. SinkInv(m)'
    BY <2>1, <2>4 DEF LinkInv
  <2> QED BY <2>3, <2>5, <2>6, Zenon DEF LinkInv
<1> QED BY <1>1, <1>2 DEF LinksInv

LEMMA SendNextInv ==
  ASSUME LinksInv, NEW l \in Links, SendNext(l)
  PROVE  LinksInv'
<1>1. LinkFacts(l)
  BY FactsOf
<1>2. /\ tx \in [Links -> TxType] /\ send \in [Links -> SendType] /\ l \in Nat
      /\ tx[l] \in TxType /\ send[l] \in SendType /\ src[l].len \in Nat
  BY CallersAssumption DEF LinksInv, LinkTyped
<1>3. /\ send[l].res = "Run" /\ CanOfferData(tx[l])
      /\ send[l].read \in Nat /\ Remaining(l) = src[l].len - send[l].read
      /\ UNCHANGED <<host, rx, fwd, back, src, sink, recv, sys, waited, faults>>
  BY <1>2 DEF SendNext, Running, Remaining, SendType
<1>4. ASSUME tx' \in [Links -> TxType], send' \in [Links -> SendType],
             \A m \in Links \ {l} : tx'[m] = tx[m] /\ send'[m] = send[m]
      PROVE  LinkTyped' /\ OnlyLink(l)
  <2>1. LinkTyped'
    BY <1>3, <1>4 DEF LinksInv, LinkTyped
  <2> QED BY <1>3, <1>4, <2>1 DEF OnlyLink
<1>5. ~GaveUp(send[l])
  BY <1>3 DEF GaveUp
<1>6. CASE /\ Remaining(l) > 0
           /\ tx' = [tx EXCEPT ![l] = Offer(@, l, send[l].read + 1)]
           /\ send' = [send EXCEPT ![l].read = @ + 1]
  <2>1. PICK u : u = Offer(tx[l], l, send[l].read + 1)
    OBVIOUS
  <2>2. PICK z : z = [send[l] EXCEPT !.read = send[l].read + 1]
    OBVIOUS
  <2>3. u \in TxType /\ z \in SendType
    <3>1. send[l].read + 1 \in Nat
      BY <1>3
    <3>2. \A p \in Nat : Offer(tx[l], l, p) \in TxType
      BY <1>2, TxOpsType
    <3>3. z \in SendType
      BY <1>2, <2>2, <3>1 DEF SendType
    <3> QED BY <2>1, <3>1, <3>2, <3>3
  <2>4. tx' = [tx EXCEPT ![l] = u] /\ send' = [send EXCEPT ![l] = z]
    BY <1>2, <1>6, <2>1, <2>2
  <2>5. LinkTyped' /\ OnlyLink(l) /\ tx'[l] = u /\ send'[l] = z
    BY <1>2, <1>4, <2>3, <2>4
  <2>6. send[l].read < src[l].len
    BY <1>2, <1>3, <1>6
  <2>7. LinkState(u, rx[l], fwd[l], back[l], z, src[l].len, Delivered(l),
                  Stopped(l), FinishHeard(l))
    BY <1>1, <1>2, <1>3, <2>1, <2>2, <2>6, OfferDataLink DEF LinkFacts
  <2> QED BY <1>3, <1>5, <2>5, <2>7, SenderStep
<1>7. CASE /\ Remaining(l) = 0 /\ ~src[l].fails
           /\ tx' = [tx EXCEPT ![l] = OfferFinish(@, l, src[l].len + 1)]
           /\ UNCHANGED send
  <2>1. PICK u : u = OfferFinish(tx[l], l, src[l].len + 1)
    OBVIOUS
  <2>3. u \in TxType
    <3>1. src[l].len + 1 \in Nat
      BY <1>2
    <3>2. \A p \in Nat : OfferFinish(tx[l], l, p) \in TxType
      BY <1>2, TxOpsType
    <3> QED BY <2>1, <3>1, <3>2
  <2>4. tx' = [tx EXCEPT ![l] = u]
    BY <1>7, <2>1
  <2>5. LinkTyped' /\ OnlyLink(l) /\ tx'[l] = u /\ send'[l] = send[l]
    BY <1>2, <1>4, <1>7, <2>3, <2>4
  <2>6. send[l].read = src[l].len
    BY <1>2, <1>3, <1>7
  <2>7. LinkState(u, rx[l], fwd[l], back[l], send[l], src[l].len, Delivered(l),
                  Stopped(l), FinishHeard(l))
    BY <1>1, <1>2, <1>3, <2>1, <2>6, OfferFinishLink DEF LinkFacts
  <2> QED BY <1>3, <1>5, <2>5, <2>7, SenderStep
<1>8. CASE /\ send' = [send EXCEPT ![l].res = "Source"]
           /\ UNCHANGED tx
  <2>1. PICK z : z = [send[l] EXCEPT !.res = "Source"]
    OBVIOUS
  <2>2. z \in SendType /\ z.read = send[l].read /\ GaveUp(z)
    BY <1>2, <2>1 DEF SendType, SendResults, GaveUp
  <2>3. send' = [send EXCEPT ![l] = z]
    BY <1>8, <2>1
  <2>5. LinkTyped' /\ OnlyLink(l) /\ tx'[l] = tx[l] /\ send'[l] = z
    BY <1>2, <1>4, <1>8, <2>2, <2>3
  <2>7. LinkState(tx[l], rx[l], fwd[l], back[l], z, src[l].len, Delivered(l),
                  Stopped(l), FinishHeard(l))
    BY <1>1, <2>2, GivesUp DEF LinkFacts
  <2> QED BY <1>3, <1>5, <2>5, <2>7, SenderStep
<1> QED BY <1>6, <1>7, <1>8 DEF SendNext

LEMMA SendPollInv ==
  ASSUME LinksInv, NEW l \in Links, SendPoll(l)
  PROVE  LinksInv'
<1>1. LinkFacts(l)
  BY FactsOf
<1>2. /\ tx \in [Links -> TxType] /\ send \in [Links -> SendType]
      /\ fwd \in [Links -> Seq(Frame)] /\ back \in [Links -> Seq(Frame)]
      /\ tx[l] \in TxType /\ send[l] \in SendType /\ src[l].len \in Nat
      /\ fwd[l] \in Seq(Frame) /\ back[l] \in Seq(Frame)
      /\ faults \in 0 .. FaultBudget
  BY DEF LinksInv, LinkTyped
<1>3. /\ send[l].res = "Run" \/ tx[l].flight.kind = "Abort"
      /\ UNCHANGED <<host, rx, src, sink, recv, sys, waited>>
      /\ send' = [send EXCEPT ![l] = Settle(@, tx[l], tx'[l])]
  BY DEF SendPoll, StillPolls, Running
<1>4. PICK u : u = tx'[l]
  OBVIOUS
<1>5. PICK z : z = Settle(send[l], tx[l], u)
  OBVIOUS
<1>6. z \in SendType /\ send' = [send EXCEPT ![l] = z] /\ send'[l] = z
      /\ (GaveUp(send[l]) => GaveUp(z))
      /\ (u.state \in {"Sending", "WaitingAck", "Retrying"} => z = send[l])
  <2>1. z \in SendType /\ (send[l].res # "Run" => z = send[l])
        /\ (send[l].res = "Run" =>
              (u.state \in {"Sending", "WaitingAck", "Retrying"} => z = send[l]))
    BY <1>2, <1>5, SettleIs
  <2> QED BY <1>2, <1>3, <1>4, <1>5, <2>1 DEF GaveUp
<1>7. ASSUME NEW v \in TxType, NEW w \in Seq(Frame), NEW c \in Seq(Frame),
             tx' = [tx EXCEPT ![l] = v], fwd' = [fwd EXCEPT ![l] = w],
             back' = [back EXCEPT ![l] = c], faults' \in 0 .. FaultBudget,
             LinkState(v, rx[l], w, c, z, src[l].len, Delivered(l), Stopped(l),
                       FinishHeard(l))
      PROVE  LinksInv'
  <2>1. tx'[l] = v /\ fwd'[l] = w /\ back'[l] = c
    BY <1>2, <1>7
  <2>2. OnlyLink(l)
    BY <1>2, <1>3, <1>6, <1>7 DEF OnlyLink
  <2>3. /\ tx' \in [Links -> TxType] /\ fwd' \in [Links -> Seq(Frame)]
        /\ back' \in [Links -> Seq(Frame)] /\ send' \in [Links -> SendType]
    BY <1>2, <1>6, <1>7
  <2>4. LinkTyped'
    BY <1>3, <1>7, <2>3 DEF LinksInv, LinkTyped
  <2> QED BY <1>3, <1>6, <1>7, <2>1, <2>2, <2>4, SenderStep
<1>8. CASE /\ WantsWrite(tx[l])
           /\ \E a \in Arrivals(fwd[l], FlightFrame(tx[l])) :
                /\ fwd' = [fwd EXCEPT ![l] = a.wire]
                /\ faults' = faults + a.hit
           /\ tx' = [tx EXCEPT ![l] = EndWrite(BeginWrite(@))]
           /\ UNCHANGED back
  <2>1. PICK a \in Arrivals(fwd[l], FlightFrame(tx[l])) :
                /\ fwd' = [fwd EXCEPT ![l] = a.wire]
                /\ faults' = faults + a.hit
    BY <1>8
  <2>2. PICK w : w = a.wire
    OBVIOUS
  <2>3. /\ \/ w = fwd[l]
           \/ w = Append(fwd[l], FlightFrame(tx[l]))
           \/ w = Append(fwd[l], BadFrame)
        /\ faults + a.hit \in 0 .. FaultBudget
    BY <1>2, <2>1, <2>2, CallersAssumption DEF Arrivals
  <2>4. PICK v : v = EndWrite(BeginWrite(tx[l]))
    OBVIOUS
  <2>5. v \in TxType /\ tx' = [tx EXCEPT ![l] = v] /\ u = v
    BY <1>2, <1>4, <1>8, <2>4, TxOpsType
  <2>6. /\ w \in Seq(Frame)
        /\ send[l].res = "Run" => v.state = "WaitingAck"
        /\ LinkState(v, rx[l], w, back[l], send[l], src[l].len, Delivered(l),
                     Stopped(l), FinishHeard(l))
    <3>1. LinkTypes(tx[l], rx[l], fwd[l], back[l], send[l], src[l].len, Delivered(l))
          /\ LinkState(tx[l], rx[l], fwd[l], back[l], send[l], src[l].len, Delivered(l),
                       Stopped(l), FinishHeard(l))
      BY <1>1 DEF LinkFacts
    <3>2. WantsWrite(tx[l])
      BY <1>8
    <3> QED BY <1>3, <2>3, <2>4, <3>1, <3>2, WriteLink
  <2>7. z = send[l]
    BY <1>2, <1>5, <2>5, <2>6, SettleIs
  <2>8. back' = [back EXCEPT ![l] = back[l]]
    BY <1>2, <1>8
  <2> QED BY <1>2, <1>7, <2>1, <2>2, <2>3, <2>5, <2>6, <2>7, <2>8
<1>9. CASE /\ Waits(tx[l]) /\ back[l] # <<>>
           /\ tx' = [tx EXCEPT ![l] = OnControl(@, Head(back[l]))]
           /\ back' = [back EXCEPT ![l] = Tail(@)]
           /\ UNCHANGED <<fwd, faults>>
  <2>1. PICK v : v = OnControl(tx[l], Head(back[l]))
    OBVIOUS
  <2>2. Tail(back[l]) \in Seq(Frame) /\ Head(back[l]) \in Frame
    BY <1>2, <1>9, TailFacts
  <2>3. v \in TxType /\ tx' = [tx EXCEPT ![l] = v] /\ u = v
    BY <1>2, <1>4, <1>9, <2>1, <2>2, TxOpsType
  <2>4. LinkState(v, rx[l], fwd[l], Tail(back[l]), z, src[l].len, Delivered(l),
                  Stopped(l), FinishHeard(l))
    BY <1>1, <1>3, <1>5, <1>9, <2>1, <2>3, ControlLink DEF LinkFacts
  <2>5. fwd' = [fwd EXCEPT ![l] = fwd[l]] /\ back' = [back EXCEPT ![l] = Tail(back[l])]
        /\ faults' \in 0 .. FaultBudget
    BY <1>2, <1>9
  <2> QED BY <1>2, <1>7, <2>2, <2>3, <2>4, <2>5
<1>10. CASE /\ Waits(tx[l]) /\ back[l] = <<>>
            /\ Stopped(l) \/ (fwd[l] = <<>> /\ ~Replying(rx[l]))
            /\ tx' = [tx EXCEPT ![l] = OnEmptyRead(@)]
            /\ UNCHANGED <<fwd, back, faults>>
  <2>1. PICK v : v = OnEmptyRead(tx[l])
    OBVIOUS
  <2>3. v \in TxType /\ tx' = [tx EXCEPT ![l] = v] /\ u = v
    BY <1>2, <1>4, <1>10, <2>1, TxOpsType
  <2>4. LinkState(v, rx[l], fwd[l], back[l], z, src[l].len, Delivered(l),
                  Stopped(l), FinishHeard(l))
    BY <1>1, <1>3, <1>5, <1>10, <2>1, <2>3, EmptyReadLink DEF LinkFacts
  <2>5. fwd' = [fwd EXCEPT ![l] = fwd[l]] /\ back' = [back EXCEPT ![l] = back[l]]
        /\ faults' \in 0 .. FaultBudget
    BY <1>2, <1>10
  <2> QED BY <1>2, <1>7, <2>3, <2>4, <2>5
<1> QED BY <1>8, <1>9, <1>10 DEF SendPoll

LEMMA SendEndInv ==
  ASSUME LinksInv, NEW l \in Links, SendError(l) \/ SendAbort(l)
  PROVE  LinksInv'
<1>1. LinkFacts(l)
  BY FactsOf
<1>2. /\ tx \in [Links -> TxType] /\ send \in [Links -> SendType] /\ l \in Nat
      /\ fwd \in [Links -> Seq(Frame)] /\ back \in [Links -> Seq(Frame)]
      /\ tx[l] \in TxType /\ send[l] \in SendType /\ src[l].len \in Nat
      /\ fwd[l] \in Seq(Frame) /\ back[l] \in Seq(Frame)
      /\ faults \in 0 .. FaultBudget /\ FaultBudget \in Nat
  BY CallersAssumption DEF LinksInv, LinkTyped
<1>3. ASSUME NEW v \in TxType, NEW w \in Seq(Frame), NEW z \in SendType,
             tx' = [tx EXCEPT ![l] = v], fwd' = [fwd EXCEPT ![l] = w],
             send' = [send EXCEPT ![l] = z], faults' \in 0 .. FaultBudget,
             UNCHANGED <<host, rx, back, src, sink, recv, sys>>, GaveUp(z),
             LinkState(v, rx[l], w, back[l], z, src[l].len, Delivered(l), Stopped(l),
                       FinishHeard(l))
      PROVE  LinksInv'
  <2>1. tx'[l] = v /\ fwd'[l] = w /\ back'[l] = back[l] /\ send'[l] = z
    BY <1>2, <1>3
  <2>2. OnlyLink(l)
    BY <1>2, <1>3 DEF OnlyLink
  <2>3. /\ tx' \in [Links -> TxType] /\ fwd' \in [Links -> Seq(Frame)]
        /\ back' \in [Links -> Seq(Frame)] /\ send' \in [Links -> SendType]
    BY <1>2, <1>3
  <2>4. LinkTyped'
    BY <1>3, <2>3 DEF LinksInv, LinkTyped
  <2> QED BY <1>3, <2>1, <2>2, <2>4, SenderStep
<1>4. CASE SendError(l)
  <2>1. PICK v : v = IF WantsWrite(tx[l]) THEN BeginWrite(tx[l]) ELSE tx[l]
    OBVIOUS
  <2>2. PICK z : z = [send[l] EXCEPT !.res = "Transport"]
    OBVIOUS
  <2>3. v \in TxType /\ tx' = [tx EXCEPT ![l] = v]
    BY <1>2, <1>4, <2>1, TxOpsType DEF SendError
  <2>4. z \in SendType /\ z.read = send[l].read /\ GaveUp(z)
        /\ send' = [send EXCEPT ![l] = z]
    BY <1>2, <1>4, <2>2 DEF SendError, SendType, SendResults, GaveUp
  <2>5. faults' \in 0 .. FaultBudget /\ fwd' = [fwd EXCEPT ![l] = fwd[l]]
        /\ UNCHANGED <<host, rx, back, src, sink, recv, sys>>
    BY <1>2, <1>4 DEF SendError
  <2>6. LinkState(v, rx[l], fwd[l], back[l], z, src[l].len, Delivered(l), Stopped(l),
                  FinishHeard(l))
    BY <1>1, <2>4, GivesUp DEF LinkFacts
  <2> QED BY <1>2, <1>3, <2>3, <2>4, <2>5, <2>6
<1>5. CASE SendAbort(l)
  <2>1. PICK v : v = OfferAbort(tx[l], l, 0)
    OBVIOUS
  <2>2. PICK z : z = [send[l] EXCEPT !.gone = TRUE]
    OBVIOUS
  <2>3. v \in TxType /\ tx' = [tx EXCEPT ![l] = v]
    BY <1>2, <1>5, <2>1, TxOpsType DEF SendAbort
  <2>4. z \in SendType /\ GaveUp(send[l]) /\ GaveUp(z)
        /\ send' = [send EXCEPT ![l] = z]
    BY <1>2, <1>5, <2>2 DEF SendAbort, SendType, GaveUp
  <2>5. PICK w : /\ fwd' = [fwd EXCEPT ![l] = w]
                 /\ w = fwd[l] \/ \E k \in 1 .. FrameLen - 1 : w = Append(fwd[l], TornFrame(k))
    <3>1. CASE tx[l].writing
      <4>1. PICK k \in 1 .. FrameLen - 1 :
              fwd' = [fwd EXCEPT ![l] = Append(@, TornFrame(k))]
        BY <1>5, <3>1 DEF SendAbort
      <4> QED BY <4>1
    <3>2. CASE ~tx[l].writing
      <4>1. fwd' = [fwd EXCEPT ![l] = fwd[l]]
        BY <1>2, <1>5, <3>2 DEF SendAbort
      <4> QED BY <4>1
    <3> QED BY <3>1, <3>2
  <2>6. faults' \in 0 .. FaultBudget /\ UNCHANGED <<host, rx, back, src, sink, recv, sys>>
    BY <1>2, <1>5 DEF SendAbort
  <2>7. w \in Seq(Frame)
        /\ LinkState(v, rx[l], w, back[l], z, src[l].len, Delivered(l), Stopped(l),
                     FinishHeard(l))
    BY <1>1, <2>2, <2>4, <2>5, AbortLink DEF LinkFacts
  <2> QED BY <1>2, <1>3, <2>3, <2>4, <2>5, <2>6, <2>7
<1> QED BY <1>4, <1>5

-----------------------------------------------------------------------------
(* The steps of the receiving loops preserve the invariant. *)

(* Receiver::poll by the loop that runs link l, which hands over e bytes so *)
(* far.                                                                    *)
RxFrame(l) ==
  /\ rx' \in [Links -> RxType] /\ fwd' \in [Links -> Seq(Frame)]
  /\ back' \in [Links -> Seq(Frame)] /\ faults' \in 0 .. FaultBudget
  /\ \A m \in Links \ {l} : rx'[m] = rx[m] /\ fwd'[m] = fwd[m] /\ back'[m] = back[m]

LEMMA RxPollInv ==
  ASSUME LinksInv, NEW l \in Links, NEW out \in Outcomes, RxPoll(l, out), ~Stopped(l),
         NEW e, e = IF out = "Deliver" THEN Delivered(l) + 1 ELSE Delivered(l),
         NEW stop \in BOOLEAN, NEW hears \in BOOLEAN,
         FinishHeard(l) \/ out = "Finished" => hears
  PROVE  /\ RxFrame(l)
         /\ LinkState(tx[l], rx'[l], fwd'[l], back'[l], send[l], src[l].len, e, stop, hears)
         /\ out = "Deliver" => rx[l].reply.pos = Delivered(l) + 1
         /\ out = "Finished" => Delivered(l) = src[l].len
         /\ out = "Aborted" => GaveUp(send[l])
<1>0. PICK h \in BOOLEAN : h = FinishHeard(l)
  BY DEF FinishHeard
<1>1. /\ LinkTypes(tx[l], rx[l], fwd[l], back[l], send[l], src[l].len, Delivered(l))
      /\ LinkState(tx[l], rx[l], fwd[l], back[l], send[l], src[l].len, Delivered(l),
                   FALSE, h)
  <2>1. Stopped(l) = FALSE
    BY DEF Stopped
  <2> QED BY <1>0, <2>1, FactsOf, Zenon DEF LinkFacts
<1>2. /\ rx \in [Links -> RxType] /\ fwd \in [Links -> Seq(Frame)]
      /\ back \in [Links -> Seq(Frame)] /\ rx[l] \in RxType
      /\ fwd[l] \in Seq(Frame) /\ back[l] \in Seq(Frame)
      /\ faults \in 0 .. FaultBudget /\ FaultBudget \in Nat
  BY CallersAssumption DEF LinksInv, LinkTyped
<1>3. RxOK(rx[l], send[l], src[l].len, Delivered(l))
  BY <1>1 DEF LinkState
<1>4. CASE /\ Replying(rx[l])
           /\ out = rx[l].action
           /\ rx' = [rx EXCEPT ![l] = TakePending(@)]
           /\ \E a \in Arrivals(back[l], rx[l].reply) :
                /\ back' = [back EXCEPT ![l] = a.wire]
                /\ faults' = faults + a.hit
           /\ UNCHANGED fwd
  <2>1. PICK a \in Arrivals(back[l], rx[l].reply) :
                /\ back' = [back EXCEPT ![l] = a.wire]
                /\ faults' = faults + a.hit
    BY <1>4
  <2>2. PICK c : c = a.wire
    OBVIOUS
  <2>3. /\ \/ c = back[l]
           \/ c = Append(back[l], rx[l].reply)
           \/ c = Append(back[l], BadFrame)
        /\ faults + a.hit \in 0 .. FaultBudget
    BY <1>2, <2>1, <2>2 DEF Arrivals
  <2>4. PICK u : u = TakePending(rx[l])
    OBVIOUS
  <2>5. u \in RxType /\ rx' = [rx EXCEPT ![l] = u] /\ rx'[l] = u
    BY <1>2, <1>4, <2>4, RxOpsType
  <2>6. /\ c \in Seq(Frame)
        /\ LinkState(tx[l], u, fwd[l], c, send[l], src[l].len, e, stop, hears)
    <3>1. /\ Replying(rx[l])
          /\ Replied(rx[l], back[l], c, Delivered(l), e, h, hears)
      BY <1>0, <1>4, <2>3 DEF Replied
    <3>3. LinkState(tx[l], u, fwd[l], c, send[l], src[l].len, e, stop, hears)
      BY <1>1, <2>4, <3>1, ReplyLink
    <3>4. rx[l].reply \in Frame /\ BadFrame \in Frame
      BY <1>2, FrameType DEF RxType
    <3> QED BY <1>2, <2>3, <3>3, <3>4, FrameSeq
  <2>7. back'[l] = c /\ fwd'[l] = fwd[l]
    BY <1>2, <1>4, <2>1, <2>2
  <2>8. RxFrame(l)
    BY <1>2, <1>4, <2>1, <2>2, <2>3, <2>5, <2>6 DEF RxFrame
  <2>9. /\ out = "Deliver" => rx[l].reply.pos = Delivered(l) + 1
        /\ out = "Finished" => Delivered(l) = src[l].len
        /\ out = "Aborted" => GaveUp(send[l])
    <3>1. send[l].read \in Nat /\ Delivered(l) \in Nat
      BY <1>1 DEF LinkTypes, SendType
    <3> QED BY <1>3, <1>4, <3>1 DEF RxOK
  <2> QED BY <2>5, <2>6, <2>7, <2>8, <2>9
<1>5. CASE /\ ~Replying(rx[l]) /\ fwd[l] # <<>>
           /\ out = "Pending"
           /\ rx' = [rx EXCEPT ![l] = TakeFrame(@, Head(fwd[l]))]
           /\ fwd' = [fwd EXCEPT ![l] = Tail(@)]
           /\ UNCHANGED <<back, faults>>
  <2>1. PICK u : u = TakeFrame(rx[l], Head(fwd[l]))
    OBVIOUS
  <2>2. Head(fwd[l]) \in Frame /\ Tail(fwd[l]) \in Seq(Frame)
    BY <1>2, <1>5, TailFacts
  <2>3. u \in RxType /\ rx' = [rx EXCEPT ![l] = u] /\ rx'[l] = u
    BY <1>2, <1>5, <2>1, <2>2, RxOpsType
  <2>4. fwd'[l] = Tail(fwd[l]) /\ back'[l] = back[l] /\ e = Delivered(l)
    BY <1>2, <1>5
  <2>5. LinkState(tx[l], u, Tail(fwd[l]), back[l], send[l], src[l].len, Delivered(l),
                  stop, hears)
    <3>1. h => hears
      BY <1>0
    <3>2. ~Replying(rx[l]) /\ fwd[l] # <<>>
      BY <1>5
    <3> QED BY <1>1, <2>1, <3>1, <3>2, ReadLink
  <2>6. RxFrame(l)
    BY <1>2, <1>5, <2>2, <2>3 DEF RxFrame
  <2> QED BY <1>5, <2>3, <2>4, <2>5, <2>6
<1>6. CASE /\ out \in {"Pending", "Err"} /\ UNCHANGED <<rx, fwd, back>>
           /\ faults' \in 0 .. FaultBudget
  <2>1. LinkState(tx[l], rx[l], fwd[l], back[l], send[l], src[l].len, Delivered(l),
                  stop, hears)
    BY <1>0, <1>1, IdleLink
  <2>2. RxFrame(l)
    BY <1>2, <1>6 DEF RxFrame
  <2>3. e = Delivered(l) /\ out \notin {"Deliver", "Finished", "Aborted"}
    BY <1>6
  <2> QED BY <1>6, <2>1, <2>2, <2>3
<1> QED BY <1>2, <1>4, <1>5, <1>6 DEF RxPoll

(* What the loop of link l leaves alone. *)
LEMMA ReceiverStep ==
  ASSUME LinksInv, NEW l \in Links, RxFrame(l), UNCHANGED <<host, tx, src, send>>,
         LinkState(tx[l], rx'[l], fwd'[l], back'[l], send[l], src[l].len,
                   Delivered(l)', Stopped(l)', FinishHeard(l)'),
         SinkInv(l)', HostInv', recv' \in RecvType, sink' \in [Links -> Seq(Nat)],
         \A m \in Links \ {l} : /\ sink'[m] = sink[m]
                                /\ m \in sys'.done <=> m \in sys.done,
         l # 1 => recv' = recv,
         l \in sys'.done => Delivered(l)' = src[l].len \/ GaveUp(send[l]),
         l = 1 /\ recv'.res = "Ok" => Delivered(l)' = src[l].len
  PROVE  LinksInv'
<1>1. LinkTyped'
  BY DEF LinksInv, LinkTyped, RxFrame
<1>2. ASSUME NEW m \in Links
      PROVE  LinkInv(m)'
  <2>1. CASE m = l
    <3>1. LinkState(tx'[l], rx'[l], fwd'[l], back'[l], send'[l], src'[l].len,
                    Delivered(l)', Stopped(l)', FinishHeard(l)')
      BY Zenon
    <3> QED BY <2>1, <3>1, Zenon DEF LinkInv
  <2>2. CASE m # l
    <3>1. /\ Delivered(m)' = Delivered(m) /\ Stopped(m)' = Stopped(m)
          /\ FinishHeard(m)' = FinishHeard(m) /\ SinkInv(m)' = SinkInv(m)
      BY <2>2 DEF Delivered, Stopped, FinishHeard, SinkInv
    <3>2. LinkInv(m)
      BY DEF LinksInv
    <3>3. /\ rx'[m] = rx[m] /\ fwd'[m] = fwd[m] /\ back'[m] = back[m]
          /\ m \in sys'.done <=> m \in sys.done
          /\ m = 1 => recv' = recv
      BY <2>2 DEF RxFrame
    <3>4. LinkState(tx'[m], rx'[m], fwd'[m], back'[m], send'[m], src'[m].len,
                    Delivered(m)', Stopped(m)', FinishHeard(m)')
      BY <3>1, <3>2, <3>3, Zenon DEF LinkInv
    <3>5. /\ m \in sys'.done => Delivered(m)' = src'[m].len \/ GaveUp(send'[m])
          /\ m = 1 /\ recv'.res = "Ok" => Delivered(m)' = src'[m].len
      BY <3>1, <3>2, <3>3 DEF LinkInv
    <3>6. SinkInv(m)'
      BY <3>1, <3>2 DEF LinkInv
    <3> QED BY <3>4, <3>5, <3>6, Zenon DEF LinkInv
  <2> QED BY <2>1, <2>2
<1> QED BY <1>1, <1>2 DEF LinksInv

(* The application takes the byte of a Deliver. *)
LEMMA SinkAppend ==
  ASSUME LinksInv, NEW l \in Links, NEW p, p = Delivered(l) + 1, l = 1 => recv.res # "Full",
         sink' = [sink EXCEPT ![l] = Append(@, p)]
  PROVE  /\ sink' \in [Links -> Seq(Nat)] /\ SinkInv(l)'
         /\ Len(sink'[l]) = Len(sink[l]) + 1
         /\ \A m \in Links \ {l} : sink'[m] = sink[m]
<1>1. sink \in [Links -> Seq(Nat)] /\ sink[l] \in Seq(Nat)
  BY DEF LinksInv, LinkTyped
<1>2. PICK n \in Nat : n = Len(sink[l])
  BY <1>1
<1>3. Delivered(l) = n + 0
  BY <1>2 DEF Delivered
<1>4. p = n + 1
  BY <1>3
<1>5. PICK q : q = Append(sink[l], p)
  OBVIOUS
<1>6. q \in Seq(Nat) /\ Len(q) = n + 1 /\ q[n + 1] = n + 1
      /\ \A i \in 1 .. n : q[i] = sink[l][i]
  BY <1>1, <1>2, <1>4, <1>5
<1>7. sink' = [sink EXCEPT ![l] = q] /\ sink'[l] = q
  BY <1>1, <1>5
<1>8. \A i \in 1 .. n : sink[l][i] = i
  BY <1>2 DEF LinksInv, LinkInv, SinkInv
<1>9. \A i \in 1 .. n + 1 : q[i] = i
  BY <1>6, <1>8
<1> QED BY <1>1, <1>2, <1>6, <1>7, <1>9 DEF SinkInv

LEMMA CountsByte ==
  ASSUME NEW r \in RecvType, NEW k \in Nat, NEW u, u = [r EXCEPT !.n = k, !.idle = 0]
  PROVE  u \in RecvType
BY DEF RecvType

LEMMA CountsIdle ==
  ASSUME NEW r \in RecvType, NEW k \in Nat, NEW u, u = [r EXCEPT !.idle = k]
  PROVE  u \in RecvType /\ u.n = r.n /\ u.res = r.res
BY DEF RecvType

LEMMA OutcomeIs ==
  ASSUME NEW r \in RecvType, r.res = "Run", NEW out \in Outcomes, NEW u,
         u = OnOutcome(r, out)
  PROVE  /\ u \in RecvType
         /\ out = "Deliver" /\ SinkTakes(r) => u.res = "Run" /\ u.n = r.n + 1
         /\ out = "Deliver" /\ ~SinkTakes(r) => u.res = "Full" /\ u.n = r.n
         /\ out # "Deliver" => u.n = r.n /\ u.res # "Full"
         /\ u.res = "Ok" <=> out = "Finished"
<1>1. CASE out = "Deliver"
  <2>1. CASE SinkTakes(r)
    <3>1. u = [r EXCEPT !.n = r.n + 1, !.idle = 0]
      BY <1>1, <2>1 DEF OnOutcome
    <3>2. u.n = r.n + 1 /\ u.res = "Run" /\ r.n + 1 \in Nat
      BY <3>1 DEF RecvType
    <3>3. u \in RecvType
      <4>1. PICK k \in Nat : k = r.n + 1
        BY <3>2
      <4>2. u = [r EXCEPT !.n = k, !.idle = 0]
        BY <3>1, <4>1
      <4> QED BY <4>2, CountsByte
    <3> QED BY <1>1, <2>1, <3>2, <3>3
  <2>2. CASE ~SinkTakes(r)
    <3>1. u = [r EXCEPT !.res = "Full"]
      BY <1>1, <2>2 DEF OnOutcome
    <3> QED BY <1>1, <2>2, <3>1 DEF RecvType, RecvResults
  <2> QED BY <2>1, <2>2
<1>2. CASE out = "Finished"
  <2>1. u = [r EXCEPT !.res = "Ok"]
    BY <1>2 DEF OnOutcome
  <2> QED BY <1>2, <2>1 DEF RecvType, RecvResults
<1>3. CASE out = "Aborted"
  <2>1. u = [r EXCEPT !.res = "Aborted"]
    BY <1>3 DEF OnOutcome
  <2> QED BY <1>3, <2>1 DEF RecvType, RecvResults
<1>4. CASE out = "Err"
  <2>1. u = [r EXCEPT !.res = "Transport"]
    BY <1>4 DEF OnOutcome
  <2> QED BY <1>4, <2>1 DEF RecvType, RecvResults
<1>5. CASE out = "Pending"
  <2>1. \/ u = [r EXCEPT !.idle = r.idle + 1, !.res = "IdleBudgetExhausted"]
        \/ u = [r EXCEPT !.idle = r.idle + 1]
    BY <1>5 DEF OnOutcome, IdleTick
  <2>2. PICK k \in Nat : k = r.idle + 1
    BY DEF RecvType
  <2>3. \/ u = [r EXCEPT !.idle = k, !.res = "IdleBudgetExhausted"]
        \/ u = [r EXCEPT !.idle = k]
    BY <2>1, <2>2
  <2>4. u \in RecvType /\ u.n = r.n /\ u.res \in {"Run", "IdleBudgetExhausted"}
    <3>1. CASE u = [r EXCEPT !.idle = k]
      BY <3>1, CountsIdle
    <3>2. CASE u = [r EXCEPT !.idle = k, !.res = "IdleBudgetExhausted"]
      <4>1. u \in RecvType /\ u.n = r.n /\ u.res = "IdleBudgetExhausted"
        BY <3>2 DEF RecvType, RecvResults
      <4> QED BY <4>1
    <3> QED BY <2>3, <3>1, <3>2, Zenon
  <2> QED BY <1>5, <2>4
<1>6. CASE out \notin {"Deliver", "Finished", "Aborted", "Err", "Pending"}
  <2>1. u = [r EXCEPT !.idle = 0]
    BY <1>6 DEF OnOutcome
  <2> QED BY <1>6, <2>1 DEF RecvType, RecvResults
<1> QED BY <1>1, <1>2, <1>3, <1>4, <1>5, <1>6

LEMMA RecvPollInv ==
  ASSUME LinksInv, RecvPoll
  PROVE  LinksInv'
<1>1. PICK out \in Outcomes :
        /\ RxPoll(1, out)
        /\ recv' = OnOutcome(recv, out)
        /\ sink' = IF out = "Deliver" /\ SinkTakes(recv)
                     THEN [sink EXCEPT ![1] = Append(@, rx[1].reply.pos)]
                     ELSE sink
  BY DEF RecvPoll
<1>2. /\ host = "recv_all" /\ recv.res = "Run" /\ sys.done = {} /\ recv.n = Len(sink[1])
      /\ recv \in RecvType /\ sink \in [Links -> Seq(Nat)] /\ 1 \in Links
      /\ UNCHANGED <<host, tx, src, send, sys, waited>>
  BY CallersAssumption DEF RecvPoll, LinksInv, LinkTyped, HostInv
<1>3. ~Stopped(1)
  BY <1>2 DEF Stopped
<1>4. /\ recv' \in RecvType
      /\ out = "Deliver" /\ SinkTakes(recv) => recv'.res = "Run" /\ recv'.n = recv.n + 1
      /\ out = "Deliver" /\ ~SinkTakes(recv) => recv'.res = "Full" /\ recv'.n = recv.n
      /\ out # "Deliver" => recv'.n = recv.n /\ recv'.res # "Full"
      /\ recv'.res = "Ok" <=> out = "Finished"
  BY <1>1, <1>2, OutcomeIs
<1>5. PICK n \in Nat : n = Len(sink[1])
  BY <1>2, DeliveredType DEF LinksInv
<1>6. Delivered(1) = n + 0
  BY <1>2, <1>5 DEF Delivered
<1>7. PICK e : e = IF out = "Deliver" THEN Delivered(1) + 1 ELSE Delivered(1)
  OBVIOUS
<1>8. PICK stop \in BOOLEAN, hears \in BOOLEAN : stop = Stopped(1)' /\ hears = FinishHeard(1)'
  BY DEF Stopped, FinishHeard
<1>9. FinishHeard(1) \/ out = "Finished" => hears
  BY <1>2, <1>4, <1>8 DEF FinishHeard
<1>10. /\ RxFrame(1)
       /\ LinkState(tx[1], rx'[1], fwd'[1], back'[1], send[1], src[1].len, e, stop, hears)
       /\ out = "Deliver" => rx[1].reply.pos = Delivered(1) + 1
       /\ out = "Finished" => Delivered(1) = src[1].len
  <2>1. 1 \in Links /\ RxPoll(1, out)
    BY <1>1, <1>2
  <2> QED BY <1>3, <1>7, <1>9, <2>1, RxPollInv
<1>11. /\ sink' \in [Links -> Seq(Nat)] /\ SinkInv(1)'
       /\ \A m \in Links \ {1} : sink'[m] = sink[m]
       /\ recv'.n = Len(sink'[1]) /\ Delivered(1)' = e
  <2>1. CASE out = "Deliver" /\ SinkTakes(recv)
    <3>1. PICK p : p = rx[1].reply.pos
      OBVIOUS
    <3>2. sink' = [sink EXCEPT ![1] = Append(@, p)] /\ p = Delivered(1) + 1
      BY <1>1, <1>10, <2>1, <3>1
    <3>3. /\ sink' \in [Links -> Seq(Nat)] /\ SinkInv(1)' /\ Len(sink'[1]) = n + 1
          /\ \A m \in Links \ {1} : sink'[m] = sink[m]
      BY <1>2, <1>5, <3>2, SinkAppend
    <3>4. Delivered(1)' = (n + 1) + 0
      BY <1>4, <2>1, <3>3 DEF Delivered
    <3> QED BY <1>2, <1>4, <1>5, <1>6, <1>7, <2>1, <3>3, <3>4
  <2>2. CASE ~(out = "Deliver" /\ SinkTakes(recv))
    <3>1. sink' = sink
      BY <1>1, <2>2
    <3>2. SinkInv(1)'
      BY <1>2, <3>1 DEF LinksInv, LinkInv, SinkInv
    <3>3. CASE out = "Deliver"
      <4>1. Delivered(1)' = n + 1
        BY <1>4, <1>5, <2>2, <3>1, <3>3 DEF Delivered
      <4> QED BY <1>2, <1>4, <1>6, <1>7, <2>2, <3>1, <3>2, <3>3, <4>1
    <3>4. CASE out # "Deliver"
      <4>1. Delivered(1)' = n + 0
        BY <1>4, <1>5, <3>1, <3>4 DEF Delivered
      <4> QED BY <1>2, <1>4, <1>6, <1>7, <3>1, <3>2, <3>4, <4>1
    <3> QED BY <3>3, <3>4
  <2> QED BY <2>1, <2>2
<1>12. HostInv'
  BY <1>2, <1>11 DEF HostInv
<1>13. LinkState(tx[1], rx'[1], fwd'[1], back'[1], send[1], src[1].len,
                 Delivered(1)', Stopped(1)', FinishHeard(1)')
  BY <1>8, <1>10, <1>11, Zenon
<1>14. recv'.res = "Ok" => Delivered(1)' = src[1].len
  BY <1>4, <1>7, <1>10, <1>11
<1> QED BY <1>2, <1>4, <1>10, <1>11, <1>12, <1>13, <1>14, ReceiverStep

LEMMA HandPollInv ==
  ASSUME LinksInv, HandPoll
  PROVE  LinksInv'
<1>1. PICK out \in Outcomes :
        /\ RxPoll(1, out)
        /\ sink' = IF out = "Deliver"
                     THEN [sink EXCEPT ![1] = Append(@, rx[1].reply.pos)]
                     ELSE sink
  BY DEF HandPoll
<1>2. /\ host = "by hand" /\ recv.res = "Run" /\ sys.done = {}
      /\ recv \in RecvType /\ sink \in [Links -> Seq(Nat)] /\ 1 \in Links
      /\ UNCHANGED <<host, tx, src, send, recv, sys, waited>>
  BY CallersAssumption DEF HandPoll, LinksInv, LinkTyped, HostInv
<1>3. ~Stopped(1)
  BY <1>2 DEF Stopped
<1>5. PICK n \in Nat : n = Len(sink[1])
  BY <1>2, DeliveredType DEF LinksInv
<1>6. Delivered(1) = n + 0
  BY <1>2, <1>5 DEF Delivered
<1>7. PICK e : e = IF out = "Deliver" THEN Delivered(1) + 1 ELSE Delivered(1)
  OBVIOUS
<1>8. PICK stop \in BOOLEAN, hears \in BOOLEAN : stop = Stopped(1)' /\ hears = FinishHeard(1)'
  BY DEF Stopped, FinishHeard
<1>9. FinishHeard(1) \/ out = "Finished" => hears
  BY <1>2, <1>8 DEF FinishHeard
<1>10. /\ RxFrame(1)
       /\ LinkState(tx[1], rx'[1], fwd'[1], back'[1], send[1], src[1].len, e, stop, hears)
       /\ out = "Deliver" => rx[1].reply.pos = Delivered(1) + 1
       /\ out = "Finished" => Delivered(1) = src[1].len
  <2>1. 1 \in Links /\ RxPoll(1, out)
    BY <1>1, <1>2
  <2> QED BY <1>3, <1>7, <1>9, <2>1, RxPollInv
<1>11. /\ sink' \in [Links -> Seq(Nat)] /\ SinkInv(1)'
       /\ \A m \in Links \ {1} : sink'[m] = sink[m]
       /\ Delivered(1)' = e
  <2>1. CASE out = "Deliver"
    <3>1. PICK p : p = rx[1].reply.pos
      OBVIOUS
    <3>2. sink' = [sink EXCEPT ![1] = Append(@, p)] /\ p = Delivered(1) + 1
      BY <1>1, <1>10, <2>1, <3>1
    <3>3. /\ sink' \in [Links -> Seq(Nat)] /\ SinkInv(1)' /\ Len(sink'[1]) = n + 1
          /\ \A m \in Links \ {1} : sink'[m] = sink[m]
      BY <1>2, <1>5, <3>2, SinkAppend
    <3>4. Delivered(1)' = (n + 1) + 0
      BY <1>2, <2>1, <3>3 DEF Delivered
    <3> QED BY <1>6, <1>7, <2>1, <3>3, <3>4
  <2>2. CASE out # "Deliver"
    <3>1. sink' = sink
      BY <1>1, <2>2
    <3>2. SinkInv(1)'
      BY <1>2, <3>1 DEF LinksInv, LinkInv, SinkInv
    <3>3. Delivered(1)' = n + 0
      BY <1>2, <1>5, <3>1 DEF Delivered
    <3> QED BY <1>2, <1>6, <1>7, <2>2, <3>1, <3>2, <3>3
  <2> QED BY <2>1, <2>2
<1>12. HostInv'
  BY <1>2 DEF HostInv
<1>13. LinkState(tx[1], rx'[1], fwd'[1], back'[1], send[1], src[1].len,
                 Delivered(1)', Stopped(1)', FinishHeard(1)')
  BY <1>8, <1>10, <1>11, Zenon
<1> QED BY <1>2, <1>10, <1>11, <1>12, <1>13, ReceiverStep

LEMMA TickInv ==
  ASSUME LinksInv, SchedInv, SystemTick
  PROVE  LinksInv'
<1>1. PICK i \in {Picked}, out \in Outcomes :
        LET l == sys.slots[i] IN
        /\ RxPoll(l, out)
        /\ sys' = IF ActorTick(out) = "Done"
                    THEN [sys EXCEPT !.cursor = NextSlot(i), !.live = @ - 1,
                                     !.done = @ \cup {l}]
                    ELSE [sys EXCEPT !.cursor = NextSlot(i)]
        /\ sink' = IF ActorTick(out) = "Ready"
                     THEN [sink EXCEPT ![l] = Append(@, rx[l].reply.pos)]
                     ELSE sink
  BY DEF SystemTick
<1>2. i \in Slots /\ Live(i)
  BY PickedIs DEF SystemTick
<1>3. PICK l : l = sys.slots[i]
  OBVIOUS
<1>4. l \in Links /\ l \notin sys.done
  BY <1>2, <1>3 DEF SchedInv, SchedTyped, Live
<1>5. /\ host = "system" /\ recv.res = "Run"
      /\ recv \in RecvType /\ sink \in [Links -> Seq(Nat)]
      /\ UNCHANGED <<host, tx, src, send, recv>>
  BY DEF SystemTick, LinksInv, LinkTyped, HostInv
<1>6. /\ ActorTick(out) = "Ready" <=> out = "Deliver"
      /\ ActorTick(out) = "Done" <=> out \in {"Finished", "Aborted"}
  BY DEF ActorTick
<1>7. /\ RxPoll(l, out)
      /\ sys'.done = IF out \in {"Finished", "Aborted"} THEN sys.done \cup {l} ELSE sys.done
      /\ sink' = IF out = "Deliver" THEN [sink EXCEPT ![l] = Append(@, rx[l].reply.pos)]
                                    ELSE sink
  BY <1>1, <1>3, <1>6 DEF SchedInv, SchedTyped
<1>8. ~Stopped(l)
  BY <1>4, <1>5 DEF Stopped
<1>9. PICK n \in Nat : n = Len(sink[l])
  BY <1>4, DeliveredType DEF LinksInv
<1>10. Delivered(l) = n + 0
  BY <1>5, <1>9 DEF Delivered
<1>11. PICK e : e = IF out = "Deliver" THEN Delivered(l) + 1 ELSE Delivered(l)
  OBVIOUS
<1>12. PICK stop \in BOOLEAN, hears \in BOOLEAN : stop = Stopped(l)' /\ hears = FinishHeard(l)'
  BY DEF Stopped, FinishHeard
<1>13. FinishHeard(l) \/ out = "Finished" => hears
  BY <1>5, <1>7, <1>12 DEF FinishHeard
<1>14. /\ RxFrame(l)
       /\ LinkState(tx[l], rx'[l], fwd'[l], back'[l], send[l], src[l].len, e, stop, hears)
       /\ out = "Deliver" => rx[l].reply.pos = Delivered(l) + 1
       /\ out = "Finished" => Delivered(l) = src[l].len
       /\ out = "Aborted" => GaveUp(send[l])
  BY <1>4, <1>7, <1>8, <1>11, <1>13, RxPollInv
<1>15. /\ sink' \in [Links -> Seq(Nat)] /\ SinkInv(l)'
       /\ \A m \in Links \ {l} : sink'[m] = sink[m]
       /\ Delivered(l)' = e
  <2>1. CASE out = "Deliver"
    <3>1. PICK p : p = rx[l].reply.pos
      OBVIOUS
    <3>2. sink' = [sink EXCEPT ![l] = Append(@, p)] /\ p = Delivered(l) + 1
      BY <1>7, <1>14, <2>1, <3>1
    <3>3. /\ sink' \in [Links -> Seq(Nat)] /\ SinkInv(l)' /\ Len(sink'[l]) = n + 1
          /\ \A m \in Links \ {l} : sink'[m] = sink[m]
      BY <1>4, <1>5, <1>9, <3>2, SinkAppend
    <3>4. Delivered(l)' = (n + 1) + 0
      BY <1>5, <3>3 DEF Delivered
    <3> QED BY <1>10, <1>11, <2>1, <3>3, <3>4
  <2>2. CASE out # "Deliver"
    <3>1. sink' = sink
      BY <1>7, <2>2
    <3>2. SinkInv(l)'
      BY <1>4, <3>1 DEF LinksInv, LinkInv, SinkInv
    <3>3. Delivered(l)' = n + 0
      BY <1>5, <1>9, <3>1 DEF Delivered
    <3> QED BY <1>5, <1>10, <1>11, <2>2, <3>1, <3>2, <3>3
  <2> QED BY <2>1, <2>2
<1>16. HostInv'
  BY <1>5 DEF HostInv
<1>17. LinkState(tx[l], rx'[l], fwd'[l], back'[l], send[l], src[l].len,
                 Delivered(l)', Stopped(l)', FinishHeard(l)')
  BY <1>12, <1>14, <1>15, Zenon
<1>18. l \in sys'.done => Delivered(l)' = src[l].len \/ GaveUp(send[l])
  BY <1>4, <1>7, <1>11, <1>14, <1>15
<1>19. /\ \A m \in Links \ {l} : /\ sink'[m] = sink[m]
                                /\ m \in sys'.done <=> m \in sys.done
       /\ recv' = recv /\ recv'.res # "Ok"
  BY <1>5, <1>7, <1>15
<1> QED BY <1>4, <1>5, <1>14, <1>15, <1>16, <1>17, <1>18, <1>19, ReceiverStep

LEMMA SpawnInv ==
  ASSUME LinksInv, UNCHANGED <<host, link, src, send, sink, recv, faults>>,
         sys'.done = sys.done
  PROVE  LinksInv'
<1>1. LinkTyped'
  BY DEF LinksInv, LinkTyped, link
<1>2. HostInv'
  BY DEF LinksInv, HostInv
<1>3. ASSUME NEW m \in Links
      PROVE  LinkInv(m)'
  <2>1. /\ Delivered(m)' = Delivered(m) /\ Stopped(m)' = Stopped(m)
        /\ FinishHeard(m)' = FinishHeard(m) /\ SinkInv(m)' = SinkInv(m)
    BY DEF Delivered, Stopped, FinishHeard, SinkInv
  <2>2. LinkInv(m)
    BY DEF LinksInv
  <2>3. LinkState(tx'[m], rx'[m], fwd'[m], back'[m], send'[m], src'[m].len,
                  Delivered(m)', Stopped(m)', FinishHeard(m)')
    BY <2>1, <2>2, Zenon DEF LinkInv, link
  <2>4. /\ m \in sys'.done => Delivered(m)' = src'[m].len \/ GaveUp(send'[m])
        /\ m = 1 /\ recv'.res = "Ok" => Delivered(m)' = src'[m].len
    BY <2>1, <2>2 DEF LinkInv
  <2>5. SinkInv(m)'
    BY <2>1, <2>2 DEF LinkInv
  <2> QED BY <2>3, <2>4, <2>5, Zenon DEF LinkInv
<1> QED BY <1>1, <1>2, <1>3 DEF LinksInv

LEMMA LinksInit ==
  ASSUME Init
  PROVE  LinksInv
<1>0. /\ \E room \in SinkLens : recv = [res |-> "Run", n |-> 0, idle |-> 0, len |-> room]
      /\ host \in {"recv_all", "system", "by hand"} /\ faults = 0
      /\ sys = [slots |-> [i \in Slots |-> Free], cursor |-> 1, live |-> 0, done |-> {}]
      /\ sink = [l \in Links |-> <<>>]
      /\ src \in [Links -> [len : 0 .. MaxBytes, fails : BOOLEAN]]
  BY Zenon DEF Init
<1>1. TxInit \in TxType /\ RxInit \in RxType
  BY FlightType, NoReplyType, SeqTypes
     DEF TxInit, RxInit, TxType, TxStates, RxType, FrameLen
<1>2. LinkTyped
  <2>1. <<>> \in Seq(Frame) /\ <<>> \in Seq(Nat)
    OBVIOUS
  <2>2. /\ tx \in [Links -> TxType] /\ rx \in [Links -> RxType]
        /\ fwd \in [Links -> Seq(Frame)] /\ back \in [Links -> Seq(Frame)]
        /\ sink \in [Links -> Seq(Nat)]
    BY <1>1, <2>1 DEF Init
  <2>3. src \in [Links -> [len : Nat, fails : BOOLEAN]]
    <3>1. \A x \in [len : 0 .. MaxBytes, fails : BOOLEAN] : x \in [len : Nat, fails : BOOLEAN]
      BY CallersAssumption
    <3> QED BY <1>0, <3>1
  <2>4. send \in [Links -> SendType]
    BY DEF Init, SendType, SendResults
  <2>5. recv \in RecvType
    <3>1. PICK room \in SinkLens : recv = [res |-> "Run", n |-> 0, idle |-> 0, len |-> room]
      BY <1>0
    <3>2. room \in Nat
      BY CallersAssumption
    <3> QED BY <3>1, <3>2 DEF RecvType, RecvResults
  <2>6. faults \in 0 .. FaultBudget /\ host \in {"recv_all", "system", "by hand"}
    <3>1. FaultBudget \in Nat /\ 0 \in 0 .. FaultBudget
      BY CallersAssumption
    <3> QED BY <1>0, <3>1, Zenon
  <2> QED BY <2>2, <2>3, <2>4, <2>5, <2>6 DEF LinkTyped
<1>3. recv.res = "Run" /\ recv.n = 0 /\ sys.done = {} /\ sink[1] = <<>>
  <2>1. 1 \in Links
    BY CallersAssumption
  <2>2. PICK room \in SinkLens : recv = [res |-> "Run", n |-> 0, idle |-> 0, len |-> room]
    BY <1>0, Zenon
  <2>3. recv.res = "Run" /\ recv.n = 0
    BY <2>2
  <2>4. sys = [slots |-> [i \in Slots |-> Free], cursor |-> 1, live |-> 0, done |-> {}]
        /\ sink = [l \in Links |-> <<>>]
    BY <1>0, Zenon
  <2> QED BY <2>1, <2>3, <2>4
<1>4. HostInv
  BY <1>3 DEF HostInv
<1>5. ASSUME NEW l \in Links
      PROVE  LinkInv(l)
  <2>1. /\ tx[l] = TxInit /\ rx[l] = RxInit /\ fwd[l] = <<>> /\ back[l] = <<>>
        /\ send[l].res = "Run" /\ send[l].read = 0 /\ send[l].n = 0 /\ sink[l] = <<>>
    BY DEF Init
  <2>2. src[l].len \in Nat
    BY <1>2 DEF LinkTyped
  <2>3. Delivered(l) = 0
    BY <1>3, <2>1 DEF Delivered
  <2>4. SinkInv(l)
    BY <2>1 DEF SinkInv
  <2>5. /\ RxInit.expected = 0 /\ RxInit.action = "None" /\ ~RxInit.abort_latched
        /\ RxInit.finish_seq = NoSeq
    BY DEF RxInit
  <2>6. 0 % SeqMod = 0
    BY SeqTypes, ModSmall
  <2>7. RxOK(rx[l], send[l], src[l].len, Delivered(l))
    BY <2>1, <2>2, <2>3, <2>5, <2>6 DEF RxOK, IsFinished
  <2>8. /\ TxInit.state = "Idle" /\ TxInit.seq = 0 /\ ~TxInit.writing
        /\ TxInit.flight.kind = "None"
    BY DEF TxInit, NoFlight
  <2>9. RestOK(tx[l], rx[l], fwd[l], back[l], send[l], Delivered(l), Stopped(l))
    BY <2>1, <2>3, <2>5, <2>8 DEF RestOK, IsFinished, Replying
  <2>10. TxOK(tx[l], rx[l], fwd[l], back[l], send[l], src[l].len, Delivered(l),
              Stopped(l), FinishHeard(l))
    BY <2>1, <2>6, <2>8, <2>9 DEF TxOK, InFlight
  <2>11. Len(fwd[l]) = 0
    BY <2>1
  <2>12. LinkState(tx[l], rx[l], fwd[l], back[l], send[l], src[l].len, Delivered(l),
                   Stopped(l), FinishHeard(l))
    BY <2>7, <2>10, <2>11 DEF LinkState
  <2> QED BY <1>3, <2>4, <2>12 DEF LinkInv
<1> QED BY <1>2, <1>4, <1>5 DEF LinksInv

LEMMA LinksStep ==
  ASSUME SchedInv, LinksInv, [Next]_vars
  PROVE  LinksInv'
<1>1. ASSUME NEW l \in Links, Spawn(l)
      PROVE  LinksInv'
  <2>1. sys'.done = sys.done
    BY <1>1 DEF Spawn, SchedInv, SchedTyped
  <2> QED BY <1>1, <2>1, SpawnInv DEF Spawn
<1>2. CASE UNCHANGED vars
  BY <1>2, SpawnInv DEF vars
<1>3. ASSUME NEW l \in Links, SendNext(l) \/ SendPoll(l) \/ SendError(l) \/ SendAbort(l)
      PROVE  LinksInv'
  BY <1>3, SendNextInv, SendPollInv, SendEndInv
<1> QED BY <1>1, <1>2, <1>3, RecvPollInv, HandPollInv, TickInv DEF Next

(* The invariant of the loops: one frame or answer of a link is under way  *)
(* at a time, and what the receiver holds is about the byte the sender has *)
(* in flight, whatever the line, the sink and the budgets do.              *)
THEOREM CallersInvariance == Spec => []CallersInv
<1>1. ASSUME Init
      PROVE  CallersInv
  BY <1>1, SchedInit, LinksInit DEF CallersInv, LinksInv
<1>2. ASSUME CallersInv, [Next]_vars
      PROVE  CallersInv'
  <2>1. SchedInv /\ LinksInv
    BY <1>2 DEF CallersInv, LinksInv
  <2>2. SchedInv' /\ LinksInv'
    BY <1>2, <2>1, SchedStep, LinksStep
  <2> QED BY <2>2 DEF CallersInv, LinksInv
<1> QED BY <1>1, <1>2, PTL DEF Spec

(* A sink that took every byte offered holds the source. *)
LEMMA WholeIs ==
  ASSUME LinksInv, NEW l \in Links, Delivered(l) = src[l].len,
         l = 1 => recv.res # "Full"
  PROVE  Whole(l) /\ Len(sink[l]) = src[l].len
<1>1. sink[l] \in Seq(Nat) /\ src[l].len \in Nat
  BY DEF LinksInv, LinkTyped
<1>2. PICK q : q = sink[l]
  OBVIOUS
<1>3. PICK n \in Nat : n = Len(q)
  BY <1>1, <1>2
<1>4. Delivered(l) = n + 0
  BY <1>2, <1>3 DEF Delivered
<1>5. n = src[l].len
  BY <1>4
<1>6. \A i \in 1 .. n : q[i] = i
  BY <1>2, <1>3 DEF LinksInv, LinkInv, SinkInv
<1>7. q = [i \in 1 .. n |-> i]
  BY <1>1, <1>2, <1>3, <1>6, SMTT(30)
<1> QED BY <1>2, <1>3, <1>5, <1>7 DEF Whole

(* Ok of send_all, of recv_all, or a Done actor, means the whole source is *)
(* in the sink, in order, although every ACK is written before the sink    *)
(* has taken its byte (drain_send, drain_recv, RxActor::tick).             *)
THEOREM OkIsEndToEnd == Spec => []EndToEnd
<1>1. ASSUME CallersInv
      PROVE  EndToEnd
  <2>0. LinksInv
    BY <1>1 DEF CallersInv, LinksInv
  <2>1. ASSUME NEW l \in Links, send[l].res = "Ok"
        PROVE  /\ Whole(l) /\ send[l].n = src[l].len
               /\ host # "by hand" => Stopped(l)
    <3>1. /\ send[l].n = src[l].len /\ Delivered(l) = src[l].len /\ FinishHeard(l)
      BY <2>0, <2>1 DEF LinksInv, LinkInv, LinkState, TxOK
    <3>2. l = 1 => recv.res # "Full"
      BY <2>0, <3>1 DEF FinishHeard, LinksInv, HostInv
    <3>3. host # "by hand" => Stopped(l)
      BY <3>1 DEF FinishHeard, Stopped
    <3> QED BY <2>0, <3>1, <3>2, <3>3, WholeIs
  <2>2. ASSUME recv.res = "Ok"
        PROVE  Whole(1) /\ recv.n = src[1].len
    <3>1. 1 \in Links /\ Delivered(1) = src[1].len
      BY <2>0, <2>2, CallersAssumption DEF LinksInv, LinkInv
    <3>2. Whole(1) /\ Len(sink[1]) = src[1].len
      BY <2>0, <2>2, <3>1, WholeIs
    <3> QED BY <2>0, <2>2, <3>2 DEF LinksInv, HostInv
  <2>3. ASSUME NEW l \in sys.done
        PROVE  Whole(l) \/ send[l].res \notin {"Run", "Ok"}
    <3>1. l \in Links /\ recv.res = "Run"
      BY <1>1, <2>0 DEF CallersInv, SchedInv, SchedTyped, LinksInv, HostInv
    <3>2. Delivered(l) = src[l].len \/ GaveUp(send[l])
      BY <2>0, <3>1 DEF LinksInv, LinkInv
    <3> QED BY <2>0, <3>1, <3>2, WholeIs DEF GaveUp
  <2> QED BY <2>1, <2>2, <2>3 DEF EndToEnd
<1> QED BY <1>1, CallersInvariance, PTL

-----------------------------------------------------------------------------
(* The budget of retries. *)

(* An attempt that is not acknowledged: it was the last, or the next       *)
(* follows, or the sender waits on.                                        *)
Spent(u, t) ==
  \/ u.flight.kind = "None" /\ u.state = "Failed" /\ t.flight.retries_left = 0
  \/ /\ SameFlight(u, t) /\ u.state = "Retrying" /\ ~u.flight.waiting
     /\ u.flight.retries_left = t.flight.retries_left - 1
  \/ /\ SameFlight(u, t) /\ u.state = t.state
     /\ u.flight.waiting = t.flight.waiting
     /\ u.flight.retries_left = t.flight.retries_left

LEMMA AttemptSpends ==
  ASSUME NEW t \in TxType, NEW u, u = OnAttemptFailed(t) \/ u = OnEmptyRead(t), Waits(t)
  PROVE  Spent(u, t)
<1>1. CASE u = OnAttemptFailed(t)
  <2>1. CASE t.flight.retries_left = 0
    BY <1>1, <2>1 DEF OnAttemptFailed, Spent, TxType, NoFlight
  <2>2. CASE t.flight.retries_left # 0
    BY <1>1, <2>2 DEF OnAttemptFailed, Spent, SameFlight, TxType, Flight
  <2> QED BY <2>1, <2>2
<1>2. CASE u = OnEmptyRead(t) /\ u # OnAttemptFailed(t)
  BY <1>2 DEF OnEmptyRead, Spent, SameFlight, TxType, Flight
<1> QED BY <1>1, <1>2

LEMMA ControlSpends ==
  ASSUME NEW t \in TxType, NEW c \in Frame, Waits(t), c.type \in {"Ack", "Nack", "Bad"},
         c.type = "Ack" => c.seq = t.flight.seq,
         NEW u, u = OnControl(t, c)
  PROVE  \/ c.type = "Ack" /\ u = OnAck(t)
         \/ c.type # "Ack" /\ Spent(u, t)
<1>1. CASE c.type = "Ack"
  BY <1>1 DEF OnControl, Answers
<1>2. CASE c.type = "Nack" /\ Answers(t, c)
  <2>1. u = OnAttemptFailed(t)
    BY <1>2 DEF OnControl
  <2> QED BY <1>2, <2>1, AttemptSpends
<1>3. CASE c.type = "Nack" /\ ~Answers(t, c)
  <2>1. u = [t EXCEPT !.flight = [t.flight EXCEPT !.empty_ticks = 0]]
    BY <1>3 DEF OnControl
  <2> QED BY <1>3, <2>1 DEF Spent, SameFlight, TxType, Flight
<1>4. CASE c.type = "Bad"
  <2>1. u = t
    BY <1>4 DEF OnControl
  <2> QED BY <1>4, <2>1 DEF Spent, SameFlight
<1> QED BY <1>1, <1>2, <1>3, <1>4

(* The bytes of a torn frame are the only ones that stay. *)
LEMMA FilledAfter ==
  ASSUME NEW r \in RxType, NEW x \in Frame, NEW u,
         u = TakeFrame(r, x) \/ u = TakePending(r)
  PROVE  u.filled = r.filled \/ (x.type = "Torn" /\ u = TakeFrame(r, x))
<1>1. CASE u = TakePending(r)
  BY <1>1 DEF TakePending, RxType
<1>2. CASE u = TakeFrame(r, x) /\ x.type # "Torn"
  <2>1. HandleError(r).filled = r.filled
    BY DEF HandleError, BeginReply, RxType
  <2>2. HandleFrame(r, x).filled = r.filled
    BY <2>1 DEF HandleFrame, HandleData, HandleStart, HandleFinish, HandleAbort,
                BeginReply, RxType
  <2> QED BY <1>2, <2>1, <2>2 DEF TakeFrame
<1> QED BY <1>1, <1>2

LEMMA CountFacts ==
  ASSUME NEW t \in TxType
  PROVE  /\ Failures(t) \in Nat /\ Failures(t) <= MaxRetries
         /\ t.flight.retries_left \in Nat /\ MaxRetries \in Nat
BY PolicyAssumption DEF Failures, TxType, Flight

-----------------------------------------------------------------------------
(* Hits elsewhere and the end of a loop. *)

LEMMA StopRetry ==
  ASSUME NEW t \in TxType, NEW r, NEW f, NEW b, NEW s, NEW n \in Nat, NEW m \in Nat, n <= m,
         NEW old \in BOOLEAN, NEW stop \in BOOLEAN, NEW hungry, NEW starved,
         RetryState(t, r, f, b, s, old, n, hungry), hungry => starved, old => stop,
         stop /\ ~old => starved \/ m # 0 \/ s.res # "Run"
  PROVE  RetryState(t, r, f, b, s, stop, m, starved)
<1>1. PICK k \in Nat : k = Failures(t)
  BY CountFacts
<1>2. BudgetOK(t, r, f, b, s, stop, m)
  BY <1>1 DEF RetryState, BudgetOK
<1>3. StoppedOK(t, b, s, stop, m, starved)
  BY DEF RetryState, StoppedOK
<1> QED BY <1>2, <1>3 DEF RetryState

(* A send_all that has returned. *)
LEMMA OverRetry ==
  ASSUME NEW t, NEW r, NEW f, NEW b, NEW s, NEW n \in Nat, NEW m \in Nat, n <= m,
         NEW stop, NEW starved, RetryState(t, r, f, b, s, stop, n, starved),
         NEW u, NEW w, NEW c, NEW z, z.res # "Run", GaveUp(s) => GaveUp(z),
         z.res = s.res \/ z.res # "RetriesExhausted"
  PROVE  RetryState(u, r, w, c, z, stop, m, starved)
BY DEF RetryState, BudgetOK, StoppedOK

-----------------------------------------------------------------------------
(* The sender's steps. *)

LEMMA OfferRetry ==
  ASSUME NEW t \in TxType, NEW r, NEW f, NEW b, NEW s, NEW n \in Nat, NEW stop, NEW starved,
         RetryState(t, r, f, b, s, stop, n, starved), s.res = "Run", ~InFlight(t),
         NEW u, u.flight.retries_left = MaxRetries, u.flight.waiting = FALSE,
         NEW z, z.res = "Run"
  PROVE  RetryState(u, r, f, b, z, stop, n, starved)
<1>1. Failures(u) = 0
  BY PolicyAssumption DEF Failures
<1>2. ~Doomed(u, r, f, b)
  BY DEF Doomed
<1>3. stop /\ n = 0 => starved
  BY DEF RetryState, StoppedOK
<1> QED BY <1>1, <1>2, <1>3 DEF RetryState, BudgetOK, StoppedOK, GaveUp

(* An attempt was not acknowledged. *)
LEMMA SpentRetry ==
  ASSUME NEW t \in TxType, NEW r, NEW f, NEW b, NEW s \in SendType,
         NEW n \in Nat, n <= MaxRetries,
         NEW stop \in BOOLEAN, NEW starved,
         RetryState(t, r, f, b, s, stop, n, starved), s.res = "Run", InFlight(t),
         t.state \in {"Sending", "WaitingAck", "Retrying"},
         ~stop => Doomed(t, r, f, b), stop /\ n = 0 => starved,
         NEW u, Spent(u, t), NEW c, NEW z, z = Settle(s, t, u)
  PROVE  RetryState(u, r, f, c, z, stop, n, starved)
<1>1. PICK k \in Nat : k = Failures(t) /\ k <= MaxRetries
  BY CountFacts
<1>2. ~stop => k + 1 <= n
  BY <1>1 DEF RetryState, BudgetOK
<1>3. t.flight.retries_left \in Nat /\ MaxRetries \in Nat /\ k = MaxRetries - t.flight.retries_left
  BY <1>1, CountFacts DEF Failures
<1>4. CASE u.flight.kind = "None" /\ u.state = "Failed" /\ t.flight.retries_left = 0
  <2>1. z.res \in {"RetriesExhausted", "Run"}
    BY <1>4 DEF Settle, SendType
  <2>2. stop
    BY <1>2, <1>3, <1>4
  <2>3. ~InFlight(u)
    BY <1>4 DEF InFlight
  <2> QED BY <2>1, <2>2, <2>3 DEF RetryState, BudgetOK, StoppedOK, GaveUp
<1>5. ASSUME u.state \in {"Sending", "WaitingAck", "Retrying"},
             ~stop => Failures(u) <= n /\ (u.flight.waiting => Failures(u) + 1 <= n)
      PROVE  RetryState(u, r, f, c, z, stop, n, starved)
  <2>1. z = s
    BY <1>5 DEF Settle
  <2> QED BY <1>5, <2>1 DEF RetryState, BudgetOK, StoppedOK, Doomed
<1>6. CASE /\ SameFlight(u, t) /\ u.state = "Retrying" /\ ~u.flight.waiting
           /\ u.flight.retries_left = t.flight.retries_left - 1
  <2>1. Failures(u) = k + 1
    BY <1>3, <1>6 DEF Failures
  <2> QED BY <1>2, <1>5, <1>6, <2>1
<1>7. CASE /\ SameFlight(u, t) /\ u.state = t.state
           /\ u.flight.retries_left = t.flight.retries_left
  <2>1. Failures(u) = k
    BY <1>1, <1>7 DEF Failures
  <2> QED BY <1>2, <1>5, <1>7, <2>1
<1> QED BY <1>4, <1>6, <1>7 DEF Spent

LEMMA EmptyReadRetry ==
  ASSUME NEW t, NEW r, NEW f, NEW b, NEW s, NEW len, NEW d, NEW stop \in BOOLEAN, NEW heard,
         LinkTypes(t, r, f, b, s, len, d),
         LinkState(t, r, f, b, s, len, d, stop, heard),
         NEW n \in Nat, n <= MaxRetries, NEW starved,
         RetryState(t, r, f, b, s, stop, n, starved),
         s.res = "Run", Waits(t), b = <<>>, ~stop => f = <<>> /\ ~Replying(r),
         NEW u, u = OnEmptyRead(t), NEW z, z = Settle(s, t, u)
  PROVE  RetryState(u, r, f, b, z, stop, n, starved)
<1>1. t \in TxType /\ s \in SendType /\ InFlight(t) /\ t.flight.waiting
  BY DEF Waits, LinkTypes
<1>2. t.state \in {"Sending", "WaitingAck", "Retrying"}
  BY <1>1 DEF LinkState, TxOK, FlightIs
<1>3. ~stop => Doomed(t, r, f, b)
  BY <1>1 DEF Doomed, Replying
<1>4. stop /\ n = 0 => starved
  BY DEF RetryState, StoppedOK
<1>5. Spent(u, t)
  BY <1>1, AttemptSpends
<1> QED BY <1>1, <1>2, <1>3, <1>4, <1>5, SpentRetry

LEMMA ControlRetry ==
  ASSUME NEW t, NEW r, NEW f, NEW b, NEW s, NEW len, NEW d, NEW stop \in BOOLEAN, NEW heard,
         LinkTypes(t, r, f, b, s, len, d),
         LinkState(t, r, f, b, s, len, d, stop, heard),
         NEW n \in Nat, n <= MaxRetries, NEW starved,
         RetryState(t, r, f, b, s, stop, n, starved),
         s.res = "Run", Waits(t), b # <<>>,
         NEW u, u = OnControl(t, Head(b)), NEW z, z = Settle(s, t, u)
  PROVE  RetryState(u, r, f, Tail(b), z, stop, n, starved)
<1>1. t \in TxType /\ s \in SendType /\ InFlight(t) /\ t.flight.waiting
  BY DEF Waits, LinkTypes
<1>2. /\ FlightIs(t, r, s, len, d) /\ OneUnderWay(t, r, f, b, s, d, stop, heard)
      /\ t.state \in {"Sending", "WaitingAck", "Retrying"}
  BY <1>1 DEF LinkState, TxOK, FlightIs
<1>3. PICK c : c = Head(b)
  OBVIOUS
<1>4. /\ c = b[1] /\ c \in Frame /\ c.type \in {"Ack", "Nack", "Bad"}
      /\ c.type = "Ack" => c.seq = t.flight.seq
      /\ ~Replying(r) /\ (~stop => f = <<>>)
  <2>1. Head(b) = b[1] /\ Head(b) \in Frame
    BY TailFacts DEF LinkTypes
  <2> QED BY <1>2, <1>3, <2>1 DEF OneUnderWay, BackOK
<1>5. CASE c.type = "Ack" /\ u = OnAck(t)
  <2>1. /\ u.flight.kind = "None" /\ u.state \in {"Idle", "Finished"}
        /\ u.state = "Idle" => t.flight.kind = "Data"
    BY <1>1, <1>2, <1>5, AckFields DEF FlightIs
  <2>2. z.res \in {"Run", "Ok"}
    BY <1>1, <2>1 DEF Settle, SendType
  <2>3. z.res = "Run" => u.state = "Idle"
    BY <1>1, <2>1 DEF Settle, SendType
  <2>4. ~InFlight(u)
    BY <2>1 DEF InFlight
  <2>5. z.res = "Run" /\ stop /\ n = 0 => starved
    BY <2>1, <2>3 DEF RetryState, StoppedOK
  <2> QED BY <2>2, <2>4, <2>5 DEF RetryState, BudgetOK, StoppedOK, GaveUp
<1>6. CASE c.type # "Ack" /\ Spent(u, t)
  <2>1. ~stop => Doomed(t, r, f, b)
    BY <1>1, <1>4, <1>6 DEF Doomed, Replying
  <2>2. stop /\ n = 0 => starved
    BY <1>4, <1>6 DEF RetryState, StoppedOK
  <2> QED BY <1>1, <1>2, <1>6, <2>1, <2>2, SpentRetry
<1>7. Waits(t) /\ u = OnControl(t, c)
  BY <1>3
<1> QED BY <1>1, <1>4, <1>5, <1>6, <1>7, ControlSpends

LEMMA WriteRetry ==
  ASSUME NEW t, NEW r, NEW f, NEW b, NEW s, NEW len, NEW d, NEW stop \in BOOLEAN, NEW heard,
         LinkTypes(t, r, f, b, s, len, d),
         LinkState(t, r, f, b, s, len, d, stop, heard),
         NEW n \in Nat, NEW m \in Nat, NEW starved,
         RetryState(t, r, f, b, s, stop, n, starved),
         s.res = "Run", WantsWrite(t), NEW u, u = EndWrite(BeginWrite(t)),
         NEW w, \/ w = Append(f, FlightFrame(t)) /\ m = n
                \/ (w = f \/ w = Append(f, BadFrame)) /\ m = n + 1
  PROVE  RetryState(u, r, w, b, s, stop, m, starved)
<1>1. t \in TxType /\ InFlight(t) /\ ~t.flight.waiting
  BY DEF WantsWrite, LinkTypes
<1>2. PICK k \in Nat : k = Failures(t)
  BY <1>1, CountFacts
<1>3. u.flight.retries_left = t.flight.retries_left /\ u.flight.kind = t.flight.kind
  BY <1>1 DEF EndWrite, BeginWrite, TxType, Flight
<1>4. Failures(u) = k
  BY <1>2, <1>3 DEF Failures
<1>5. ~stop => k <= n
  BY <1>1, <1>2 DEF RetryState, BudgetOK
<1>6. ~stop => f = <<>>
  <2>1. FlightIs(t, r, s, len, d) /\ OneUnderWay(t, r, f, b, s, d, stop, heard)
    BY <1>1 DEF LinkState, TxOK
  <2> QED BY <1>1, <2>1 DEF OneUnderWay
<1>7. ~stop /\ m = n => ~Doomed(u, r, w, b)
  <2> SUFFICES ASSUME ~stop, m = n
               PROVE  ~Doomed(u, r, w, b)
    OBVIOUS
  <2>1. w = Append(<<>>, FlightFrame(t))
    BY <1>6
  <2>2. w # <<>> /\ w[1] = FlightFrame(t)
    BY <2>1
  <2>3. w[1].type = t.flight.kind
    BY <2>2 DEF FlightFrame, MkFrame
  <2>4. t.flight.kind \in {"Data", "Finish"}
    BY <1>1 DEF LinkState, TxOK, FlightIs
  <2> QED BY <2>2, <2>3, <2>4 DEF Doomed
<1>8. BudgetOK(u, r, w, b, s, stop, m)
  BY <1>4, <1>5, <1>7 DEF BudgetOK
<1>9. StoppedOK(u, b, s, stop, m, starved)
  BY <1>1 DEF RetryState, StoppedOK
<1> QED BY <1>8, <1>9 DEF RetryState

-----------------------------------------------------------------------------
(* The receiver's steps. *)

(* The reply arrives, or the line is hit. *)
Answered(r, b, c, n, m) ==
  \/ c = Append(b, r.reply) /\ m = n
  \/ (c = b \/ c = Append(b, BadFrame)) /\ m = n + 1

(* A loop that stops here without a hit gave up or heard FINISH. *)
StopsFor(r, s, stop, m, starved) ==
  stop /\ m = 0 /\ s.res = "Run" => starved \/ r.action = "Finished"

(* An answer is written; what was hit is not an acknowledgement. *)
LEMMA ReplyRetry ==
  ASSUME NEW t, NEW r, NEW f, NEW b, NEW s, NEW len, NEW d, NEW heard,
         LinkTypes(t, r, f, b, s, len, d),
         LinkState(t, r, f, b, s, len, d, FALSE, heard),
         NEW n \in Nat, NEW m \in Nat, NEW hungry \in BOOLEAN,
         NEW starved \in BOOLEAN, hungry => starved,
         RetryState(t, r, f, b, s, FALSE, n, hungry),
         Replying(r), NEW u, u = TakePending(r),
         NEW c, Answered(r, b, c, n, m),
         NEW stop \in BOOLEAN, StopsFor(r, s, stop, m, starved)
  PROVE  RetryState(t, u, f, c, s, stop, m, starved)
<1>1. t \in TxType /\ r \in RxType
  BY DEF LinkTypes
<1>2. u.filled = r.filled /\ u.action = "None"
  BY <1>1 DEF TakePending, RxType
<1>3. CASE s.res = "Run"
  <2>1. InFlight(t)
    BY <1>3 DEF LinkState, TxOK, RestOK
  <2>2. /\ r.action \in ReplyOf(t.flight.kind) /\ b = <<>> /\ t.flight.waiting /\ f = <<>>
        /\ t.flight.kind \in {"Data", "Finish"}
    BY <1>3, <2>1 DEF LinkState, TxOK, OneUnderWay, FlightIs
  <2>3. r.action \in {"Deliver", "Duplicate", "Finished"} => r.reply.type = "Ack"
    BY DEF LinkState, RxOK
  <2>4. PICK k \in Nat : k = Failures(t)
    BY <1>1, CountFacts
  <2>5. k <= n /\ (Doomed(t, r, f, b) => k + 1 <= n)
    BY <1>3, <2>1, <2>4 DEF RetryState, BudgetOK
  <2>6. Doomed(t, r, f, b) \/ r.action \in {"Deliver", "Duplicate", "Finished"}
    BY <2>2 DEF Doomed
  <2>7. \/ c = Append(b, r.reply) /\ m = n
        \/ (c = b \/ c = Append(b, BadFrame)) /\ m = n + 1
    BY DEF Answered
  <2>8. m = n => c # <<>> /\ c[1] = r.reply
    <3>1. m = n => c = Append(<<>>, r.reply)
      BY <2>2, <2>7
    <3> QED BY <3>1
  <2>9. BudgetOK(t, u, f, c, s, stop, m)
    <3>1. k <= m /\ (Doomed(t, u, f, c) => k + 1 <= m)
      <4>1. CASE m = n + 1
        BY <2>5, <4>1
      <4>2. CASE m = n
        <5>1. Doomed(t, u, f, c) => Doomed(t, r, f, b)
          BY <2>3, <2>6, <2>8, <4>2 DEF Doomed
        <5> QED BY <2>5, <4>2, <5>1
      <4> QED BY <2>7, <4>1, <4>2
    <3> QED BY <2>4, <3>1 DEF BudgetOK
  <2>10. StoppedOK(t, c, s, stop, m, starved)
    <3> SUFFICES ASSUME stop, m = 0, ~starved
                 PROVE  /\ InFlight(t) /\ t.flight.waiting /\ t.flight.kind = "Finish"
                        /\ c # <<>> /\ c[1].type = "Ack"
      BY DEF StoppedOK
    <3>1. r.action = "Finished" /\ m = n
      BY <1>3, <2>7 DEF StopsFor
    <3>2. t.flight.kind = "Finish"
      BY <2>2, <3>1 DEF ReplyOf
    <3> QED BY <2>1, <2>2, <2>3, <2>8, <3>1, <3>2
  <2> QED BY <1>2, <1>3, <2>9, <2>10 DEF RetryState
<1>4. CASE s.res # "Run"
  BY <1>2, <1>4 DEF RetryState, BudgetOK, StoppedOK
<1> QED BY <1>3, <1>4

(* What the receiver makes of the flight's frame is an acknowledgement. *)
LEMMA GoodFrame ==
  ASSUME NEW t, NEW r, NEW f, NEW b, NEW s, NEW len, NEW d, NEW heard,
         LinkTypes(t, r, f, b, s, len, d),
         LinkState(t, r, f, b, s, len, d, FALSE, heard),
         s.res = "Run", InFlight(t), r.filled = 0,
         f # <<>>, f[1].type # "Bad", NEW u, u = TakeFrame(r, f[1])
  PROVE  u.action \in {"Deliver", "Duplicate", "Finished"}
<1>1. /\ FlightIs(t, r, s, len, d) /\ f[1].type = t.flight.kind
      /\ RxOK(r, s, len, d) /\ ~GaveUp(s)
  BY DEF LinkState, TxOK, OneUnderWay, GaveUp
<1>2. PICK x : x = f[1]
  OBVIOUS
<1>3. FwdOK(x, s, len, d) /\ x \in Frame /\ r \in RxType
  <2>1. 1 \in 1 .. Len(f) /\ f[1] \in Frame
    BY TailFacts DEF LinkTypes
  <2> QED BY <1>2, <2>1 DEF LinkState, LinkTypes
<1>4. ~r.abort_latched /\ r.expected = d % SeqMod
  BY <1>1 DEF RxOK
<1>5. CASE x.type = "Data"
  <2>1. ~IsClosed(r) /\ s.read >= 1 /\ x.seq = SeqOf(s.read) /\ d >= s.read - 1
        /\ d <= s.read /\ s.read \in Nat /\ d \in Nat
    BY <1>1, <1>2, <1>3, <1>4, <1>5 DEF FlightIs, IsClosed, FwdOK, RxOK, LinkTypes, SendType
  <2>2. u = HandleData(r, x)
    BY <1>2, <1>5 DEF TakeFrame, HandleFrame
  <2>3. x.seq = r.expected \/ x.seq = Previous(r.expected)
    <3>1. CASE d = s.read - 1
      BY <1>4, <2>1, <3>1 DEF SeqOf
    <3>2. CASE d = s.read
      <4>1. PICK a \in Nat : a = s.read - 1
        BY <2>1
      <4>2. r.expected = (a + 1) % SeqMod /\ x.seq = a % SeqMod
        BY <1>4, <2>1, <3>2, <4>1 DEF SeqOf
      <4> QED BY <4>2, PreviousMod
    <3> QED BY <2>1, <3>1, <3>2
  <2>4. u.action \in {"Deliver", "Duplicate"}
    BY <1>3, <2>1, <2>2, <2>3 DEF HandleData, BeginReply, RxType
  <2> QED BY <2>4
<1>6. CASE x.type = "Finish"
  <2>1. x.seq = len % SeqMod /\ d = len
    BY <1>3, <1>6 DEF FwdOK
  <2>2. u = HandleFinish(r, x)
    BY <1>2, <1>6 DEF TakeFrame, HandleFrame
  <2>3. IsFinished(r) => r.finish_seq = x.seq
    BY <1>1, <2>1 DEF RxOK
  <2>4. u.action = "Finished"
    BY <1>3, <1>4, <2>1, <2>2, <2>3 DEF HandleFinish, BeginReply, RxType
  <2> QED BY <2>4
<1> QED BY <1>1, <1>2, <1>5, <1>6 DEF FlightIs

LEMMA TakeRetry ==
  ASSUME NEW t, NEW r, NEW f, NEW b, NEW s, NEW len, NEW d, NEW heard,
         LinkTypes(t, r, f, b, s, len, d),
         LinkState(t, r, f, b, s, len, d, FALSE, heard),
         NEW n \in Nat, NEW hungry, NEW starved, hungry => starved,
         RetryState(t, r, f, b, s, FALSE, n, hungry),
         ~Replying(r), f # <<>>, NEW u, u = TakeFrame(r, Head(f)),
         NEW stop \in BOOLEAN, stop => starved
  PROVE  RetryState(t, u, Tail(f), b, s, stop, n, starved)
<1>1. /\ t \in TxType /\ r \in RxType /\ f[1] \in Frame /\ u = TakeFrame(r, f[1])
      /\ FwdOK(f[1], s, len, d)
  <2>1. Head(f) = f[1] /\ f[1] \in Frame /\ 1 \in 1 .. Len(f)
    BY TailFacts DEF LinkTypes
  <2> QED BY <2>1 DEF LinkTypes, LinkState
<1>2. u.filled # 0 => GaveUp(s)
  <2>1. PICK x \in Frame : x = f[1]
    BY <1>1
  <2>2. u.filled = r.filled \/ x.type = "Torn"
    BY <1>1, <2>1, FilledAfter
  <2>3. r.filled # 0 => GaveUp(s)
    BY DEF RetryState
  <2>4. x.type = "Torn" => GaveUp(s)
    BY <1>1, <2>1 DEF FwdOK
  <2> QED BY <2>2, <2>3, <2>4
<1>3. BudgetOK(t, u, Tail(f), b, s, stop, n)
  <2> SUFFICES ASSUME s.res = "Run", InFlight(t)
               PROVE  /\ Failures(t) <= n
                      /\ Doomed(t, u, Tail(f), b) => Failures(t) + 1 <= n
    BY DEF BudgetOK
  <2>1. ~GaveUp(s) /\ r.filled = 0
    BY DEF GaveUp, RetryState
  <2>2. t.flight.waiting /\ b = <<>>
    BY DEF LinkState, TxOK, OneUnderWay
  <2>3. Failures(t) <= n /\ (Doomed(t, r, f, b) => Failures(t) + 1 <= n)
    BY DEF RetryState, BudgetOK
  <2>4. CASE f[1].type = "Bad"
    BY <2>2, <2>3, <2>4 DEF Doomed, Replying
  <2>5. CASE f[1].type # "Bad"
    <3>1. u.action \in {"Deliver", "Duplicate", "Finished"}
      BY <1>1, <2>1, <2>5, GoodFrame
    <3> QED BY <2>3, <3>1 DEF Doomed
  <2> QED BY <2>4, <2>5
<1>4. StoppedOK(t, b, s, stop, n, starved)
  BY DEF StoppedOK
<1> QED BY <1>2, <1>3, <1>4 DEF RetryState
-----------------------------------------------------------------------------
(* The steps of the senders and of the loops keep the budget. *)

Budget(l) ==
  RetryState(tx[l], rx[l], fwd[l], back[l], send[l], Stopped(l), faults, Starved)

LEMMA BudgetTypes ==
  ASSUME LinksInv
  PROVE  /\ faults \in Nat
         /\ FaultBudget <= MaxRetries => faults <= MaxRetries
<1>1. faults \in 0 .. FaultBudget
  BY DEF LinksInv, LinkTyped
<1> QED BY <1>1, CallersAssumption, PolicyAssumption

LEMMA SenderRetry ==
  ASSUME LinksInv, RetryInv, NEW l \in Links, OnlyLink(l),
         UNCHANGED <<host, rx, recv, sys>>, faults' \in Nat, faults <= faults',
         RetryState(tx'[l], rx[l], fwd'[l], back'[l], send'[l], Stopped(l), faults', Starved)
  PROVE  RetryInv'
<1>1. \A m \in Links : Stopped(m)' = Stopped(m) /\ Stopped(m) \in BOOLEAN
  BY DEF Stopped
<1>2. Starved' = Starved /\ faults \in Nat
  BY BudgetTypes DEF Starved
<1>3. ASSUME NEW m \in Links \ {l}
      PROVE  RetryState(tx'[m], rx'[m], fwd'[m], back'[m], send'[m], Stopped(m)',
                        faults', Starved')
  <2>1. /\ tx'[m] = tx[m] /\ rx'[m] = rx[m] /\ fwd'[m] = fwd[m] /\ back'[m] = back[m]
        /\ send'[m] = send[m] /\ tx[m] \in TxType
    BY DEF OnlyLink, LinksInv, LinkTyped
  <2>2. RetryState(tx[m], rx[m], fwd[m], back[m], send[m], Stopped(m), faults, Starved)
    BY DEF RetryInv
  <2>3. RetryState(tx[m], rx[m], fwd[m], back[m], send[m], Stopped(m), faults', Starved)
    BY <1>1, <1>2, <2>1, <2>2, StopRetry
  <2> QED BY <1>1, <1>2, <2>1, <2>3, Zenon
<1>4. RetryState(tx'[l], rx'[l], fwd'[l], back'[l], send'[l], Stopped(l)',
                 faults', Starved')
  BY <1>1, <1>2, Zenon
<1> QED BY <1>3, <1>4 DEF RetryInv

LEMMA SendNextRetry ==
  ASSUME LinksInv, RetryInv, FaultBudget <= MaxRetries, NEW l \in Links, SendNext(l)
  PROVE  RetryInv'
<1>1. /\ tx \in [Links -> TxType] /\ send \in [Links -> SendType]
      /\ tx[l] \in TxType /\ send[l] \in SendType /\ faults \in Nat
  BY BudgetTypes DEF LinksInv, LinkTyped
<1>2. /\ UNCHANGED <<host, rx, fwd, back, src, sink, recv, sys, waited, faults>>
      /\ send[l].res = "Run" /\ ~InFlight(tx[l])
  BY DEF SendNext, Running, CanOfferData
<1>3. Budget(l)
  BY DEF RetryInv, Budget
<1>4. PICK u : u = tx'[l]
  OBVIOUS
<1>5. PICK z : z = send'[l]
  OBVIOUS
<1>6. /\ OnlyLink(l)
      /\ \/ z.res = "Run" /\ u.flight.retries_left = MaxRetries /\ u.flight.waiting = FALSE
         \/ z.res = "Source"
  <2>1. CASE /\ tx' = [tx EXCEPT ![l] = Offer(@, l, send[l].read + 1)]
             /\ send' = [send EXCEPT ![l].read = @ + 1]
    <3>1. u = Offer(tx[l], l, send[l].read + 1) /\ z.res = "Run"
      BY <1>1, <1>2, <1>4, <1>5, <2>1 DEF SendType
    <3>2. u.flight.retries_left = MaxRetries /\ u.flight.waiting = FALSE
      BY <1>1, <3>1 DEF Offer, Begin, TxType
    <3> QED BY <1>1, <1>2, <2>1, <3>1, <3>2 DEF OnlyLink
  <2>2. CASE /\ tx' = [tx EXCEPT ![l] = OfferFinish(@, l, src[l].len + 1)]
             /\ UNCHANGED send
    <3>1. u = OfferFinish(tx[l], l, src[l].len + 1) /\ z.res = "Run"
      BY <1>1, <1>2, <1>4, <1>5, <2>2
    <3>2. u.flight.retries_left = MaxRetries /\ u.flight.waiting = FALSE
      BY <1>1, <3>1 DEF OfferFinish, Begin, TxType
    <3> QED BY <1>1, <1>2, <2>2, <3>1, <3>2 DEF OnlyLink
  <2>3. CASE /\ send' = [send EXCEPT ![l].res = "Source"]
             /\ UNCHANGED tx
    <3>1. z.res = "Source"
      BY <1>1, <1>5, <2>3 DEF SendType
    <3> QED BY <1>1, <1>2, <2>3, <3>1 DEF OnlyLink
  <2> QED BY <2>1, <2>2, <2>3 DEF SendNext
<1>7. RetryState(u, rx[l], fwd[l], back[l], z, Stopped(l), faults, Starved)
  <2>1. CASE /\ z.res = "Run" /\ u.flight.retries_left = MaxRetries
             /\ u.flight.waiting = FALSE
    BY <1>1, <1>2, <1>3, <2>1, OfferRetry DEF Budget
  <2>2. CASE z.res = "Source"
    <3>1. GaveUp(z) /\ z.res # "Run" /\ z.res # "RetriesExhausted"
      BY <2>2 DEF GaveUp
    <3> QED BY <1>1, <1>3, <3>1, OverRetry DEF Budget
  <2> QED BY <1>6, <2>1, <2>2
<1>8. faults' = faults /\ fwd'[l] = fwd[l] /\ back'[l] = back[l]
  BY <1>2
<1> QED BY <1>1, <1>2, <1>4, <1>5, <1>6, <1>7, <1>8, SenderRetry

LEMMA SendPollRetry ==
  ASSUME LinksInv, RetryInv, FaultBudget <= MaxRetries, NEW l \in Links, SendPoll(l)
  PROVE  RetryInv'
<1>1. /\ tx \in [Links -> TxType] /\ send \in [Links -> SendType]
      /\ fwd \in [Links -> Seq(Frame)] /\ back \in [Links -> Seq(Frame)]
      /\ tx[l] \in TxType /\ send[l] \in SendType
      /\ faults \in Nat /\ faults <= MaxRetries
  BY BudgetTypes DEF LinksInv, LinkTyped
<1>2. /\ UNCHANGED <<host, rx, src, sink, recv, sys, waited>>
      /\ send' = [send EXCEPT ![l] = Settle(@, tx[l], tx'[l])]
  BY DEF SendPoll
<1>3. /\ LinkTypes(tx[l], rx[l], fwd[l], back[l], send[l], src[l].len, Delivered(l))
      /\ LinkState(tx[l], rx[l], fwd[l], back[l], send[l], src[l].len, Delivered(l),
                   Stopped(l), FinishHeard(l))
      /\ RetryState(tx[l], rx[l], fwd[l], back[l], send[l], Stopped(l), faults, Starved)
      /\ Stopped(l) \in BOOLEAN
  BY FactsOf DEF LinkFacts, RetryInv, Stopped
<1>4. PICK u : u = tx'[l]
  OBVIOUS
<1>5. PICK z : z = Settle(send[l], tx[l], u)
  OBVIOUS
<1>6. send'[l] = z
  BY <1>1, <1>2, <1>4, <1>5
<1>7. ASSUME NEW v, NEW w, NEW c, tx' = [tx EXCEPT ![l] = v],
             fwd' = [fwd EXCEPT ![l] = w], back' = [back EXCEPT ![l] = c],
             faults' \in Nat, faults <= faults',
             send[l].res = "Run" =>
               RetryState(v, rx[l], w, c, z, Stopped(l), faults', Starved)
      PROVE  RetryInv'
  <2>1. tx'[l] = v /\ fwd'[l] = w /\ back'[l] = c
    BY <1>1, <1>7
  <2>2. OnlyLink(l)
    BY <1>1, <1>2, <1>7 DEF OnlyLink
  <2>3. RetryState(v, rx[l], w, c, z, Stopped(l), faults', Starved)
    <3>1. CASE send[l].res = "Run"
      BY <1>7, <3>1
    <3>2. CASE send[l].res # "Run"
      <4>1. z = send[l]
        BY <1>5, <3>2 DEF Settle
      <4> QED BY <1>1, <1>3, <1>7, <3>2, <4>1, OverRetry
    <3> QED BY <3>1, <3>2
  <2> QED BY <1>2, <1>6, <1>7, <2>1, <2>2, <2>3, SenderRetry
<1>8. CASE /\ WantsWrite(tx[l])
           /\ \E a \in Arrivals(fwd[l], FlightFrame(tx[l])) :
                /\ fwd' = [fwd EXCEPT ![l] = a.wire]
                /\ faults' = faults + a.hit
           /\ tx' = [tx EXCEPT ![l] = EndWrite(BeginWrite(@))]
           /\ UNCHANGED back
  <2>1. PICK a \in Arrivals(fwd[l], FlightFrame(tx[l])) :
                /\ fwd' = [fwd EXCEPT ![l] = a.wire]
                /\ faults' = faults + a.hit
    BY <1>8
  <2>2. PICK w : w = a.wire
    OBVIOUS
  <2>3. \/ w = Append(fwd[l], FlightFrame(tx[l])) /\ faults' = faults
        \/ (w = fwd[l] \/ w = Append(fwd[l], BadFrame)) /\ faults' = faults + 1
    BY <1>1, <2>1, <2>2 DEF Arrivals
  <2>4. PICK v : v = EndWrite(BeginWrite(tx[l]))
    OBVIOUS
  <2>5. tx' = [tx EXCEPT ![l] = v] /\ u = v
    BY <1>1, <1>4, <1>8, <2>4
  <2>6. faults' \in Nat /\ faults <= faults'
    BY <1>1, <2>3
  <2>7. ASSUME send[l].res = "Run"
        PROVE  RetryState(v, rx[l], w, back[l], z, Stopped(l), faults', Starved)
    <3>1. v.state = "WaitingAck"
      BY <1>1, <2>4 DEF EndWrite, BeginWrite, TxType
    <3>2. z = send[l]
      BY <1>5, <2>5, <3>1 DEF Settle
    <3>3. WantsWrite(tx[l])
      BY <1>8
    <3>4. PICK m \in Nat : m = faults'
      BY <2>6
    <3>5. RetryState(v, rx[l], w, back[l], send[l], Stopped(l), m, Starved)
      BY <1>1, <1>3, <2>3, <2>4, <2>7, <3>3, <3>4, WriteRetry
    <3> QED BY <3>2, <3>4, <3>5
  <2>8. back' = [back EXCEPT ![l] = back[l]] /\ fwd' = [fwd EXCEPT ![l] = w]
    BY <1>1, <1>8, <2>1, <2>2
  <2> QED BY <1>7, <2>5, <2>6, <2>7, <2>8
<1>9. CASE /\ Waits(tx[l]) /\ back[l] # <<>>
           /\ tx' = [tx EXCEPT ![l] = OnControl(@, Head(back[l]))]
           /\ back' = [back EXCEPT ![l] = Tail(@)]
           /\ UNCHANGED <<fwd, faults>>
  <2>1. PICK v : v = OnControl(tx[l], Head(back[l]))
    OBVIOUS
  <2>2. tx' = [tx EXCEPT ![l] = v] /\ u = v
    BY <1>1, <1>4, <1>9, <2>1
  <2>3. ASSUME send[l].res = "Run"
        PROVE  RetryState(v, rx[l], fwd[l], Tail(back[l]), z, Stopped(l), faults, Starved)
    <3>1. /\ Waits(tx[l]) /\ z = Settle(send[l], tx[l], v)
          /\ back[l] # <<>>
      BY <1>5, <1>9, <2>2
    <3> QED BY <1>1, <1>3, <2>1, <2>3, <3>1, ControlRetry
  <2>4. /\ fwd' = [fwd EXCEPT ![l] = fwd[l]] /\ back' = [back EXCEPT ![l] = Tail(back[l])]
        /\ faults' = faults
    BY <1>1, <1>9
  <2>5. faults' \in Nat /\ faults <= faults'
    BY <1>1, <2>4
  <2>6. send[l].res = "Run" =>
          RetryState(v, rx[l], fwd[l], Tail(back[l]), z, Stopped(l), faults', Starved)
    BY <2>3, <2>4, Zenon
  <2> QED BY <1>7, <2>2, <2>4, <2>5, <2>6
<1>10. CASE /\ Waits(tx[l]) /\ back[l] = <<>>
            /\ Stopped(l) \/ (fwd[l] = <<>> /\ ~Replying(rx[l]))
            /\ tx' = [tx EXCEPT ![l] = OnEmptyRead(@)]
            /\ UNCHANGED <<fwd, back, faults>>
  <2>1. PICK v : v = OnEmptyRead(tx[l])
    OBVIOUS
  <2>2. tx' = [tx EXCEPT ![l] = v] /\ u = v
    BY <1>1, <1>4, <1>10, <2>1
  <2>3. ASSUME send[l].res = "Run"
        PROVE  RetryState(v, rx[l], fwd[l], back[l], z, Stopped(l), faults, Starved)
    <3>1. /\ Waits(tx[l]) /\ z = Settle(send[l], tx[l], v)
          /\ back[l] = <<>>
          /\ ~Stopped(l) => fwd[l] = <<>> /\ ~Replying(rx[l])
      BY <1>5, <1>10, <2>2
    <3> QED BY <1>1, <1>3, <2>1, <2>3, <3>1, EmptyReadRetry
  <2>4. /\ fwd' = [fwd EXCEPT ![l] = fwd[l]] /\ back' = [back EXCEPT ![l] = back[l]]
        /\ faults' = faults
    BY <1>1, <1>10
  <2>5. faults' \in Nat /\ faults <= faults'
    BY <1>1, <2>4
  <2>6. send[l].res = "Run" =>
          RetryState(v, rx[l], fwd[l], back[l], z, Stopped(l), faults', Starved)
    BY <2>3, <2>4, Zenon
  <2> QED BY <1>7, <2>2, <2>4, <2>5, <2>6
<1> QED BY <1>8, <1>9, <1>10 DEF SendPoll

LEMMA SendEndRetry ==
  ASSUME LinksInv, RetryInv, NEW l \in Links, SendError(l) \/ SendAbort(l)
  PROVE  RetryInv'
<1>1. /\ tx \in [Links -> TxType] /\ send \in [Links -> SendType]
      /\ fwd \in [Links -> Seq(Frame)] /\ back \in [Links -> Seq(Frame)]
      /\ tx[l] \in TxType /\ send[l] \in SendType /\ faults \in Nat
  BY BudgetTypes DEF LinksInv, LinkTyped
<1>2. RetryState(tx[l], rx[l], fwd[l], back[l], send[l], Stopped(l), faults, Starved)
  BY DEF RetryInv
<1>3. /\ UNCHANGED <<host, rx, recv, sys>> /\ back'[l] = back[l]
      /\ faults' \in Nat /\ faults <= faults'
  BY <1>1 DEF SendError, SendAbort
<1>4. OnlyLink(l)
  <2>1. CASE SendError(l)
    BY <1>1, <2>1 DEF SendError, OnlyLink
  <2>2. CASE SendAbort(l)
    BY <1>1, <2>2 DEF SendAbort, OnlyLink
  <2> QED BY <2>1, <2>2
<1>5. PICK z : z = send'[l]
  OBVIOUS
<1>6. /\ z.res # "Run" /\ (GaveUp(send[l]) => GaveUp(z))
      /\ z.res = send[l].res \/ z.res # "RetriesExhausted"
  <2>1. CASE SendError(l)
    <3>1. z.res = "Transport"
      BY <1>1, <1>5, <2>1 DEF SendError, SendType
    <3> QED BY <3>1 DEF GaveUp
  <2>2. CASE SendAbort(l)
    <3>1. z.res = send[l].res /\ z.res # "Run"
      BY <1>1, <1>5, <2>2 DEF SendAbort, SendType
    <3> QED BY <3>1 DEF GaveUp
  <2> QED BY <2>1, <2>2
<1>7. RetryState(tx'[l], rx[l], fwd'[l], back'[l], z, Stopped(l), faults', Starved)
  BY <1>1, <1>2, <1>3, <1>6, OverRetry
<1> QED BY <1>3, <1>4, <1>5, <1>7, SenderRetry

(* Receiver::poll by the loop that runs link l.  The loop stops because it *)
(* gave up, or because of what poll returned.                              *)
LEMMA RxPollRetry ==
  ASSUME LinksInv, RetryInv, NEW l \in Links, NEW out \in Outcomes, RxPoll(l, out),
         ~Stopped(l), NEW stop \in BOOLEAN, NEW starved \in BOOLEAN, Starved => starved,
         stop => starved \/ out \in {"Finished", "Aborted", "Err"}
  PROVE  /\ RetryState(tx[l], rx'[l], fwd'[l], back'[l], send[l], stop, faults', starved)
         /\ faults' \in Nat /\ faults <= faults'
<1>1. PICK h \in BOOLEAN : h = FinishHeard(l)
  BY DEF FinishHeard
<1>2. PICK hungry \in BOOLEAN : hungry = Starved
  <2>1. Starved \in BOOLEAN
    BY DEF Starved
  <2> QED BY <2>1, Zenon
<1>3. hungry => starved
  BY <1>2, Zenon
<1>4. /\ LinkTypes(tx[l], rx[l], fwd[l], back[l], send[l], src[l].len, Delivered(l))
      /\ LinkState(tx[l], rx[l], fwd[l], back[l], send[l], src[l].len, Delivered(l),
                   FALSE, h)
      /\ RetryState(tx[l], rx[l], fwd[l], back[l], send[l], FALSE, faults, hungry)
  <2>1. Stopped(l) = FALSE
    BY DEF Stopped
  <2> QED BY <1>1, <1>2, <2>1, FactsOf, Zenon DEF LinkFacts, RetryInv
<1>5. /\ rx \in [Links -> RxType] /\ fwd \in [Links -> Seq(Frame)]
      /\ back \in [Links -> Seq(Frame)] /\ rx[l] \in RxType /\ tx[l] \in TxType
      /\ faults \in Nat
  BY BudgetTypes DEF LinksInv, LinkTyped
<1>6. CASE /\ Replying(rx[l])
           /\ out = rx[l].action
           /\ rx' = [rx EXCEPT ![l] = TakePending(@)]
           /\ \E a \in Arrivals(back[l], rx[l].reply) :
                /\ back' = [back EXCEPT ![l] = a.wire]
                /\ faults' = faults + a.hit
           /\ UNCHANGED fwd
  <2>1. PICK a \in Arrivals(back[l], rx[l].reply) :
                /\ back' = [back EXCEPT ![l] = a.wire]
                /\ faults' = faults + a.hit
    BY <1>6
  <2>2. PICK c : c = a.wire
    OBVIOUS
  <2>3. \/ c = Append(back[l], rx[l].reply) /\ faults' = faults
        \/ (c = back[l] \/ c = Append(back[l], BadFrame)) /\ faults' = faults + 1
    BY <1>5, <2>1, <2>2 DEF Arrivals
  <2>4. PICK u : u = TakePending(rx[l])
    OBVIOUS
  <2>5. rx'[l] = u /\ fwd'[l] = fwd[l] /\ back'[l] = c
    BY <1>5, <1>6, <2>1, <2>2, <2>4
  <2>6. PICK m \in Nat : m = faults' /\ faults <= m
    BY <1>5, <2>3
  <2>7. StopsFor(rx[l], send[l], stop, m, starved)
    <3>1. out = "Aborted" => GaveUp(send[l])
      BY <1>4, <1>6 DEF LinkState, RxOK
    <3>2. out # "Err"
      BY <1>5, <1>6 DEF RxType, Actions
    <3> QED BY <1>6, <3>1, <3>2 DEF GaveUp, StopsFor
  <2>8. RetryState(tx[l], u, fwd[l], c, send[l], stop, m, starved)
    <3>1. Replying(rx[l])
      BY <1>6
    <3>2. Answered(rx[l], back[l], c, faults, m)
      BY <2>3, <2>6 DEF Answered
    <3> QED BY <1>3, <1>4, <1>5, <2>4, <2>7, <3>1, <3>2, ReplyRetry, ZenonT(30)
  <2> QED BY <2>5, <2>6, <2>8, Zenon
<1>7. CASE /\ ~Replying(rx[l]) /\ fwd[l] # <<>>
           /\ out = "Pending"
           /\ rx' = [rx EXCEPT ![l] = TakeFrame(@, Head(fwd[l]))]
           /\ fwd' = [fwd EXCEPT ![l] = Tail(@)]
           /\ UNCHANGED <<back, faults>>
  <2>1. PICK u : u = TakeFrame(rx[l], Head(fwd[l]))
    OBVIOUS
  <2>2. /\ rx'[l] = u /\ fwd'[l] = Tail(fwd[l]) /\ back'[l] = back[l]
        /\ faults' = faults /\ faults <= faults
    BY <1>5, <1>7, <2>1
  <2>3. RetryState(tx[l], u, Tail(fwd[l]), back[l], send[l], stop, faults, starved)
    <3>1. ~Replying(rx[l]) /\ fwd[l] # <<>> /\ (stop => starved)
      BY <1>7
    <3> QED BY <1>3, <1>4, <1>5, <2>1, <3>1, TakeRetry
  <2> QED BY <1>5, <2>2, <2>3, Zenon
<1>8. CASE /\ UNCHANGED <<rx, fwd, back>>
           /\ \/ out = "Pending" /\ faults' = faults
              \/ out = "Err" /\ faults' = faults + 1
  <2>1. PICK m \in Nat : m = faults' /\ faults <= m
    BY <1>5, <1>8
  <2>2. stop => starved \/ m # 0 \/ send[l].res # "Run"
    BY <1>5, <1>8, <2>1
  <2>3. RetryState(tx[l], rx[l], fwd[l], back[l], send[l], stop, m, starved)
    <3>1. PICK old \in BOOLEAN : old = FALSE
      OBVIOUS
    <3>2. RetryState(tx[l], rx[l], fwd[l], back[l], send[l], old, faults, hungry)
      BY <1>4, <3>1
    <3>3. ~old
      BY <3>1
    <3> QED BY <1>5, <1>3, <2>1, <2>2, <3>2, <3>3, StopRetry
  <2> QED BY <1>8, <2>1, <2>3, Zenon
<1> QED BY <1>6, <1>7, <1>8 DEF RxPoll

LEMMA ReceiverRetry ==
  ASSUME LinksInv, RetryInv, NEW l \in Links, RxFrame(l), UNCHANGED <<tx, send>>,
         faults' \in Nat, faults <= faults', Starved => Starved',
         \A m \in Links \ {l} : Stopped(m)' = Stopped(m),
         RetryState(tx[l], rx'[l], fwd'[l], back'[l], send[l], Stopped(l)', faults', Starved')
  PROVE  RetryInv'
<1>1. PICK n \in Nat, k \in Nat : n = faults /\ k = faults' /\ n <= k
  BY BudgetTypes
<1>2. PICK starved : starved = Starved'
  OBVIOUS
<1>3. ASSUME NEW m \in Links \ {l}
      PROVE  RetryState(tx'[m], rx'[m], fwd'[m], back'[m], send'[m], Stopped(m)',
                        faults', Starved')
  <2>1. /\ tx'[m] = tx[m] /\ rx'[m] = rx[m] /\ fwd'[m] = fwd[m] /\ back'[m] = back[m]
        /\ send'[m] = send[m] /\ tx[m] \in TxType /\ Stopped(m) \in BOOLEAN
    BY DEF RxFrame, LinksInv, LinkTyped, Stopped
  <2>2. RetryState(tx[m], rx[m], fwd[m], back[m], send[m], Stopped(m), n, Starved)
    BY <1>1 DEF RetryInv
  <2>3. RetryState(tx[m], rx[m], fwd[m], back[m], send[m], Stopped(m), k, starved)
    BY <1>1, <1>2, <2>1, <2>2, StopRetry
  <2> QED BY <1>1, <1>2, <2>1, <2>3, Zenon
<1>4. RetryState(tx'[l], rx'[l], fwd'[l], back'[l], send'[l], Stopped(l)',
                 faults', Starved')
  BY Zenon
<1> QED BY <1>3, <1>4 DEF RetryInv

LEMMA OutcomeStops ==
  ASSUME NEW r \in RecvType, r.res = "Run", NEW out \in Outcomes, NEW u,
         u = OnOutcome(r, out), u.res # "Run"
  PROVE  \/ u.res \in {"Full", "IdleBudgetExhausted"}
         \/ out \in {"Finished", "Aborted", "Err"}
<1>1. CASE out = "Deliver"
  BY <1>1 DEF OnOutcome, RecvType
<1>2. CASE out = "Pending"
  <2>1. u.res = "IdleBudgetExhausted" \/ u.res = r.res
    BY <1>2 DEF OnOutcome, IdleTick, RecvType
  <2> QED BY <2>1
<1>3. CASE out \notin {"Deliver", "Finished", "Aborted", "Err", "Pending"}
  BY <1>3 DEF OnOutcome, RecvType
<1> QED BY <1>1, <1>2, <1>3

LEMMA RxFrames ==
  ASSUME LinksInv, NEW l \in Links, NEW out \in Outcomes, RxPoll(l, out), ~Stopped(l)
  PROVE  RxFrame(l)
<1>1. PICK e : e = IF out = "Deliver" THEN Delivered(l) + 1 ELSE Delivered(l)
  OBVIOUS
<1>2. PICK yes \in BOOLEAN : yes
  OBVIOUS
<1> QED BY <1>1, <1>2, RxPollInv

LEMMA RecvPollRetry ==
  ASSUME LinksInv, RetryInv, RecvPoll
  PROVE  RetryInv'
<1>1. PICK out \in Outcomes : RxPoll(1, out) /\ recv' = OnOutcome(recv, out)
  BY DEF RecvPoll
<1>2. /\ host = "recv_all" /\ recv.res = "Run" /\ recv \in RecvType /\ 1 \in Links
      /\ sys.done = {} /\ UNCHANGED <<tx, send, sys>>
  BY CallersAssumption DEF RecvPoll, LinksInv, LinkTyped, HostInv
<1>3. ~Stopped(1) /\ ~Starved
  BY <1>2 DEF Stopped, Starved
<1>4. Stopped(1)' \in BOOLEAN /\ Starved' \in BOOLEAN
  BY DEF Stopped, Starved
<1>5. PICK stop \in BOOLEAN, starved \in BOOLEAN : stop = Stopped(1)' /\ starved = Starved'
  BY <1>4, Zenon
<1>6. stop => starved \/ out \in {"Finished", "Aborted", "Err"}
  <2>1. Stopped(1)' => recv'.res # "Run"
    BY <1>2 DEF Stopped
  <2>2. PICK u : u = recv'
    OBVIOUS
  <2>3. u.res # "Run" => \/ u.res \in {"Full", "IdleBudgetExhausted"}
                         \/ out \in {"Finished", "Aborted", "Err"}
    BY <1>1, <1>2, <2>2, OutcomeStops
  <2>4. u.res \in {"Full", "IdleBudgetExhausted"} => Starved'
    BY <2>2 DEF Starved
  <2> QED BY <1>5, <2>1, <2>2, <2>3, <2>4
<1>7. /\ RetryState(tx[1], rx'[1], fwd'[1], back'[1], send[1], stop, faults', starved)
      /\ faults' \in Nat /\ faults <= faults'
  BY <1>1, <1>2, <1>3, <1>6, RxPollRetry
<1>8. RxFrame(1)
  BY <1>1, <1>2, <1>3, RxFrames
<1>9. \A m \in Links \ {1} : Stopped(m)' = Stopped(m)
  BY <1>2 DEF Stopped
<1>10. RetryState(tx[1], rx'[1], fwd'[1], back'[1], send[1], Stopped(1)', faults', Starved')
  BY <1>5, <1>7, Zenon
<1> QED BY <1>2, <1>3, <1>7, <1>8, <1>9, <1>10, ReceiverRetry

LEMMA HandPollRetry ==
  ASSUME LinksInv, RetryInv, HandPoll
  PROVE  RetryInv'
<1>1. PICK out \in Outcomes : RxPoll(1, out)
  BY DEF HandPoll
<1>2. /\ host = "by hand" /\ recv.res = "Run" /\ 1 \in Links
      /\ sys.done = {} /\ UNCHANGED <<tx, send, sys, recv>>
  BY CallersAssumption DEF HandPoll, LinksInv, LinkTyped, HostInv
<1>3. ~Stopped(1) /\ ~Starved
  BY <1>2 DEF Stopped, Starved
<1>4. \A m \in Links : Stopped(m)' = Stopped(m)
  BY <1>2 DEF Stopped
<1>5. Starved' = Starved
  BY <1>2 DEF Starved
<1>6. Stopped(1)' \in BOOLEAN /\ Starved' \in BOOLEAN
  BY DEF Stopped, Starved
<1>7. PICK stop \in BOOLEAN, starved \in BOOLEAN : stop = Stopped(1)' /\ starved = Starved'
  BY <1>6, Zenon
<1>8. ~stop
  BY <1>2, <1>3, <1>4, <1>7
<1>9. /\ RetryState(tx[1], rx'[1], fwd'[1], back'[1], send[1], stop, faults', starved)
      /\ faults' \in Nat /\ faults <= faults'
  BY <1>1, <1>2, <1>3, <1>8, RxPollRetry
<1>10. RxFrame(1)
  BY <1>1, <1>2, <1>3, RxFrames
<1>11. RetryState(tx[1], rx'[1], fwd'[1], back'[1], send[1], Stopped(1)', faults', Starved')
  BY <1>7, <1>9, Zenon
<1> QED BY <1>2, <1>3, <1>4, <1>9, <1>10, <1>11, ReceiverRetry

LEMMA TickRetry ==
  ASSUME LinksInv, SchedInv, RetryInv, SystemTick
  PROVE  RetryInv'
<1>1. PICK i \in {Picked}, out \in Outcomes :
        LET l == sys.slots[i] IN
        /\ RxPoll(l, out)
        /\ sys' = IF ActorTick(out) = "Done"
                    THEN [sys EXCEPT !.cursor = NextSlot(i), !.live = @ - 1,
                                     !.done = @ \cup {l}]
                    ELSE [sys EXCEPT !.cursor = NextSlot(i)]
  BY DEF SystemTick
<1>2. i \in Slots /\ Live(i)
  BY PickedIs DEF SystemTick
<1>3. PICK l : l = sys.slots[i]
  OBVIOUS
<1>4. l \in Links /\ l \notin sys.done
  BY <1>2, <1>3 DEF SchedInv, SchedTyped, Live
<1>5. recv.res = "Run" /\ UNCHANGED <<tx, send, recv>>
  BY DEF SystemTick, LinksInv, HostInv
<1>6. ActorTick(out) = "Done" <=> out \in {"Finished", "Aborted"}
  BY DEF ActorTick
<1>7. /\ RxPoll(l, out)
      /\ sys'.done = IF out \in {"Finished", "Aborted"} THEN sys.done \cup {l} ELSE sys.done
  BY <1>1, <1>3, <1>6 DEF SchedInv, SchedTyped
<1>8. ~Stopped(l) /\ ~Starved
  BY <1>4, <1>5 DEF Stopped, Starved
<1>9. Stopped(l)' \in BOOLEAN /\ Starved' \in BOOLEAN
  BY DEF Stopped, Starved
<1>10. PICK stop \in BOOLEAN, starved \in BOOLEAN : stop = Stopped(l)' /\ starved = Starved'
  BY <1>9, Zenon
<1>11. stop => out \in {"Finished", "Aborted", "Err"}
  BY <1>4, <1>5, <1>7, <1>10 DEF Stopped
<1>12. /\ RetryState(tx[l], rx'[l], fwd'[l], back'[l], send[l], stop, faults', starved)
       /\ faults' \in Nat /\ faults <= faults'
  BY <1>4, <1>7, <1>8, <1>11, RxPollRetry
<1>13. RxFrame(l)
  BY <1>4, <1>7, <1>8, RxFrames
<1>14. \A m \in Links \ {l} : Stopped(m)' = Stopped(m)
  BY <1>5, <1>7 DEF Stopped
<1>15. RetryState(tx[l], rx'[l], fwd'[l], back'[l], send[l], Stopped(l)', faults', Starved')
  BY <1>10, <1>12, Zenon
<1> QED BY <1>4, <1>5, <1>8, <1>12, <1>13, <1>14, <1>15, ReceiverRetry

LEMMA RetryStutter ==
  ASSUME RetryInv, UNCHANGED <<link, send, recv, faults>>, sys'.done = sys.done
  PROVE  RetryInv'
<1>1. Starved' = Starved /\ \A l \in Links : Stopped(l)' = Stopped(l)
  BY DEF Starved, Stopped
<1>2. ASSUME NEW l \in Links
      PROVE  RetryState(tx'[l], rx'[l], fwd'[l], back'[l], send'[l], Stopped(l)',
                        faults', Starved')
  <2>1. RetryState(tx[l], rx[l], fwd[l], back[l], send[l], Stopped(l), faults, Starved)
    BY DEF RetryInv
  <2>2. Stopped(l)' = Stopped(l)
    BY <1>1
  <2> QED BY <1>1, <2>1, <2>2, Zenon DEF link
<1> QED BY <1>2 DEF RetryInv

LEMMA RetryInit ==
  ASSUME Init
  PROVE  RetryInv
<1>1. recv.res = "Run" /\ sys.done = {}
  <2>1. /\ \E room \in SinkLens :
             recv = [res |-> "Run", n |-> 0, idle |-> 0, len |-> room]
        /\ sys = [slots |-> [i \in Slots |-> Free], cursor |-> 1, live |-> 0, done |-> {}]
    BY Zenon DEF Init
  <2> QED BY <2>1
<1>2. ASSUME NEW l \in Links
      PROVE  Budget(l)
  <2>1. tx[l] = TxInit /\ rx[l] = RxInit /\ send[l].res = "Run"
    BY DEF Init
  <2>2. ~InFlight(tx[l]) /\ rx[l].filled = 0
    BY <2>1 DEF TxInit, RxInit, NoFlight, InFlight
  <2>3. ~Stopped(l)
    BY <1>1 DEF Stopped
  <2> QED BY <2>1, <2>2, <2>3 DEF Budget, RetryState, BudgetOK, StoppedOK
<1> QED BY <1>2 DEF RetryInv, Budget

LEMMA RetryStep ==
  ASSUME SchedInv, LinksInv, RetryInv, FaultBudget <= MaxRetries, [Next]_vars
  PROVE  RetryInv'
<1>1. ASSUME NEW l \in Links, Spawn(l)
      PROVE  RetryInv'
  <2>1. sys'.done = sys.done
    BY <1>1 DEF Spawn, SchedInv, SchedTyped
  <2> QED BY <1>1, <2>1, RetryStutter DEF Spawn
<1>2. CASE UNCHANGED vars
  BY <1>2, RetryStutter DEF vars
<1>3. ASSUME NEW l \in Links, SendNext(l) \/ SendPoll(l) \/ SendError(l) \/ SendAbort(l)
      PROVE  RetryInv'
  BY <1>3, SendNextRetry, SendPollRetry, SendEndRetry
<1> QED BY <1>1, <1>2, <1>3, RecvPollRetry, HandPollRetry, TickRetry DEF Next

(* max_retries ride out as many hits of the line: send_all runs out of     *)
(* them only when nobody polls the receiver any more, and with no hit at   *)
(* all only when recv_all gave up by itself (a full sink or its            *)
(* IdleBudget).                                                            *)
THEOREM RetriesSuffice ==
  ASSUME FaultBudget <= MaxRetries
  PROVE  Spec => []GivesUpOnlyIf
<1>1. ASSUME Init
      PROVE  CallersInv /\ RetryInv
  BY <1>1, SchedInit, LinksInit, RetryInit DEF CallersInv, LinksInv
<1>2. ASSUME CallersInv, RetryInv, [Next]_vars
      PROVE  CallersInv' /\ RetryInv'
  <2>1. SchedInv /\ LinksInv
    BY <1>2 DEF CallersInv, LinksInv
  <2>2. SchedInv' /\ LinksInv' /\ RetryInv'
    BY <1>2, <2>1, SchedStep, LinksStep, RetryStep
  <2> QED BY <2>2 DEF CallersInv, LinksInv
<1>3. ASSUME RetryInv
      PROVE  GivesUpOnlyIf
  BY <1>3 DEF RetryInv, RetryState, GivesUpOnlyIf, Starved
<1> QED BY <1>1, <1>2, <1>3, PTL DEF Spec
=============================================================================
