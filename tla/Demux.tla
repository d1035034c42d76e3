-------------------------------- MODULE Demux --------------------------------
(***************************************************************************)
(* The way of the bytes from one peer to the other, under the pumps:       *)
(*   OutBuf (src/protocol/outbuf.rs) of the sender and of the receiver     *)
(*   HalfDuplex (src/transport/half.rs), a stage of one frame, if staged   *)
(*   the wire: the ring of a DuplexWire lane (src/p2p/duplex.rs) or a UART *)
(*   FrameAssembler (src/protocol/assembler.rs) that can resynchronise     *)
(*   LinkFace (src/transport/face.rs) or Lane: the rings of the two readers*)
(*   the reader's own FrameAssembler                                       *)
(*                                                                         *)
(* A byte is told apart by its frame and its place in it, and by whether   *)
(* it could be read as a frame type (values 1 to 6).  A CRC that matches   *)
(* by accident is left out.                                                *)
(***************************************************************************)
EXTENDS Frames, FiniteSets

CONSTANTS WireLen,      \* RING of the wire, in bytes: 64 in the code
          RingLen,      \* RING of the demultiplexer: 64 in the code
          Shapes,       \* Sets of places whose bytes could be a frame type
          MaxFrames,    \* Bound: frames written
          FaultBudget   \* Bound: bytes lost or changed on the line and frames
                        \* given up for an ABORT, together

ASSUME DemuxAssumption ==
  /\ WireLen \in Nat \ {0} /\ RingLen \in Nat /\ RingLen >= FrameLen
  /\ Shapes \subseteq SUBSET (2 .. FrameLen)
  /\ MaxFrames \in Nat /\ FaultBudget \in Nat

(* The halves of the writing peer, and of the reading one: the sender's    *)
(* frames are payload, the receiver's control.                             *)
Halves == {"payload", "control"}

Places == 1 .. FrameLen

VARIABLES
  staged,   \* a HalfDuplex stands before the port; never changes
  shape,    \* the places in a frame whose bytes could be a type; the same
  out,      \* out[h]: the OutBuf, its frame and pos; idle at FrameLen
  stage,    \* HalfDuplex: the bytes stored, and how many are flushed
  wire,     \* bytes that are on their way
  window,   \* the demultiplexer's assembler
  ring,     \* ring[h]: bytes for the reader
  pending,  \* the frame no ring had room for: <<>>, or its Held
  reader,   \* reader[h]: its assembler
  sent,     \* history: the frames that were loaded
  decoded,  \* history: the frames the demultiplexer recognised
  seen,     \* history: seen[h]: what the reader decoded, 0 for an error
  cuts, hits

vars == <<staged, shape, out, stage, wire, window, ring, pending, reader, sent, decoded, seen, cuts, hits>>

Idle == [frame |-> 0, pos |-> FrameLen]

Init ==
  /\ staged \in BOOLEAN /\ shape \in Shapes
  /\ out = [h \in Halves |-> Idle]
  /\ stage = [bytes |-> <<>>, flushed |-> 0]
  /\ wire = <<>> /\ window = <<>> /\ pending = <<>>
  /\ ring = [h \in Halves |-> <<>>] /\ reader = [h \in Halves |-> <<>>]
  /\ sent = <<>> /\ decoded = <<>> /\ seen = [h \in Halves |-> <<>>]
  /\ cuts = 0 /\ hits = 0

(* Byte number at of frame f. *)
Byte(f, at) == [frame |-> f, at |-> at, type |-> at = 1 \/ at \in shape]
Noise(t) == [frame |-> 0, at |-> 0, type |-> t]

(* Frame::from_bytes on four bytes: the type is looked at before the CRC. *)
Whole(bytes) == \A i \in Places : bytes[i].frame = bytes[1].frame /\ bytes[i].at = i
InvalidType(bytes) == ~bytes[1].type

-----------------------------------------------------------------------------
(* The writing peer. *)

(* OutBuf::load.  The halves take turns: NoTalkOver in Turn and in Page.   *)
Load(h) ==
  /\ Len(sent) < MaxFrames
  /\ \A k \in Halves : out[k].pos = FrameLen
  /\ sent' = Append(sent, h)
  /\ out' = [out EXCEPT ![h] = [frame |-> Len(sent) + 1, pos |-> 0]]
  /\ UNCHANGED <<staged, shape, stage, wire, window, ring, pending, reader, decoded, seen, cuts, hits>>

(* An abort puts ABORT in the place of a frame that is half written. *)
Cut ==
  /\ Len(sent) < MaxFrames /\ hits + cuts < FaultBudget
  /\ out["payload"].pos < FrameLen
  /\ sent' = Append(sent, "payload")
  /\ out' = [out EXCEPT !["payload"] = [frame |-> Len(sent) + 1, pos |-> 0]]
  /\ cuts' = cuts + 1
  /\ UNCHANGED <<staged, shape, stage, wire, window, ring, pending, reader, decoded, seen, hits>>

(* What the line makes of the bytes written in one call: a byte in them    *)
(* may be lost, or changed.                                                *)
Carried(bytes) ==
  {[bytes |-> bytes, hits |-> 0]} \cup
  {[bytes |-> SubSeq(bytes, 1, i - 1) \o SubSeq(bytes, i + 1, Len(bytes)), hits |-> 1]
     : i \in DOMAIN bytes} \cup
  {[bytes |-> [bytes EXCEPT ![i] = Noise(t)], hits |-> 1] : i \in DOMAIN bytes, t \in BOOLEAN}

Least2(a, b) == IF a < b THEN a ELSE b
Room == WireLen - Len(wire)

(* HalfDuplex::write_byte(b): the stage after it, the bytes the port took, *)
(* and whether the call succeeded.  A full stage takes no byte.            *)
StageWrite(b) ==
  LET bytes == IF Len(stage.bytes) < FrameLen THEN Append(stage.bytes, b) ELSE stage.bytes
      n == Least2(Room, FrameLen - stage.flushed)
      done == stage.flushed + n = FrameLen
  IN IF Len(bytes) < FrameLen
       THEN [stage |-> [stage EXCEPT !.bytes = bytes], port |-> <<>>, ok |-> TRUE]
       ELSE [stage |-> IF done THEN [bytes |-> <<>>, flushed |-> 0]
                               ELSE [bytes |-> bytes, flushed |-> stage.flushed + n],
             port |-> SubSeq(bytes, stage.flushed + 1, stage.flushed + n), ok |-> done]

(* DuplexPort::write_byte: DuplexFull when the wire has no room. *)
PortWrite(b) ==
  [stage |-> stage, port |-> IF Room > 0 THEN <<b>> ELSE <<>>, ok |-> Room > 0]

(* pump_out: peek, write_byte, and commit if it went well. *)
WriteByte(h) ==
  LET b == Byte(out[h].frame, out[h].pos + 1)
      w == IF staged THEN StageWrite(b) ELSE PortWrite(b)
  IN /\ out[h].pos < FrameLen
     /\ stage' = w.stage
     /\ out' = IF w.ok THEN [out EXCEPT ![h].pos = @ + 1] ELSE out
     /\ \E c \in Carried(w.port) :
          /\ hits + cuts + c.hits <= FaultBudget
          /\ hits' = hits + c.hits
          /\ wire' = wire \o c.bytes
     /\ UNCHANGED <<staged, shape, window, ring, pending, reader, sent, decoded, seen, cuts>>

-----------------------------------------------------------------------------
(* The reading peer. *)

(* Mutant of Kept: the assembler does not slide. *)
KeptNothing(bytes) == <<>>

(* FrameAssembler::push on the fourth byte: what stays in the window. *)
Kept(bytes) == IF InvalidType(bytes) THEN Tail(bytes) ELSE <<>>

(* Held: a frame and the ring it goes to.  What does not decode is payload. *)
HeldFor(bytes) ==
  IF Whole(bytes) /\ bytes[1].frame # 0 THEN sent[bytes[1].frame] ELSE "payload"

(* push_frame has room. *)
Fits(rings, h) == Len(rings[h]) + FrameLen <= RingLen

Stored(rings, bytes) == [rings EXCEPT ![HeldFor(bytes)] = @ \o bytes]

(* One byte through the assembler: its window is then bytes. *)
Pushed(d, bytes) ==
  LET rest == [d EXCEPT !.wire = Tail(@)]
      told == [rest EXCEPT
                 !.window = Kept(bytes),
                 !.decoded = IF Whole(bytes) /\ bytes[1].frame # 0
                               THEN Append(@, bytes[1].frame) ELSE @]
  IN IF Len(bytes) < FrameLen THEN [rest EXCEPT !.window = bytes]
     ELSE IF Fits(d.ring, HeldFor(bytes)) THEN [told EXCEPT !.ring = Stored(@, bytes)]
     ELSE [told EXCEPT !.pending = bytes]

(* The loop of ingest, as a set of one: until the port is empty or a frame *)
(* has no room.                                                            *)
RECURSIVE Drained(_)
Drained(d) ==
  IF d.wire = <<>> \/ d.pending # <<>> THEN {d}
  ELSE UNION {Drained(e) : e \in {Pushed(d, Append(d.window, Head(d.wire)))}}

(* Mutants of Ingest: what had no room is forgotten; it is kept for ever. *)
IngestDrops(d) == UNION {Drained(e) : e \in {[d EXCEPT !.pending = <<>>]}}

IngestKeeps(d) == IF d.pending # <<>> THEN {d} ELSE Drained(d)

(* ingest: the pending frame first, and nothing while it does not fit. *)
Ingest(d) ==
  IF d.pending = <<>> THEN Drained(d)
  ELSE IF Fits(d.ring, HeldFor(d.pending))
    THEN UNION {Drained(e) : e \in {[d EXCEPT !.ring = Stored(@, d.pending), !.pending = <<>>]}}
  ELSE {d}

(* read_byte of half h (ingest, pop), and its assembler's push. *)
ReadByte(h) ==
  \E e \in {[wire |-> wire, window |-> window, ring |-> ring,
             pending |-> pending, decoded |-> decoded]} :
  \E d \in Ingest(e) :
    LET bytes == reader[h] \o SubSeq(d.ring[h], 1, Least2(1, Len(d.ring[h])))
    IN /\ wire' = d.wire /\ window' = d.window /\ pending' = d.pending
       /\ decoded' = d.decoded
       /\ ring' = [d.ring EXCEPT ![h] = IF @ = <<>> THEN @ ELSE Tail(@)]
       /\ reader' = [reader EXCEPT ![h] = IF Len(bytes) = FrameLen THEN <<>> ELSE bytes]
       /\ seen' = IF Len(bytes) < FrameLen THEN seen
                  ELSE [seen EXCEPT ![h] = Append(@, IF Whole(bytes) THEN bytes[1].frame ELSE 0)]
       /\ UNCHANGED <<staged, shape, out, stage, sent, cuts, hits>>

Next ==
  \/ \E h \in Halves : Load(h) \/ WriteByte(h) \/ ReadByte(h)
  \/ Cut

(* A pump polls both halves for ever, and each call moves one byte. *)
Fairness == \A h \in Halves : WF_vars(WriteByte(h)) /\ WF_vars(ReadByte(h))

Spec == Init /\ [][Next]_vars /\ Fairness

-----------------------------------------------------------------------------
Spoilt == hits > 0 \/ cuts > 0

(* The frames of half h, in the order they were written. *)
SentBy(h) == SelectSeq([i \in DOMAIN sent |-> i], LAMBDA i : sent[i] = h)

(***************************************************************************)
(* "This type demuxes complete frames so the two readers do not steal each *)
(* other's bytes" (duplex.rs): on a line that loses nothing each reader    *)
(* gets its own frames, whole and in order, though the stage, the wire and *)
(* each ring may be full when a byte comes.                                *)
(***************************************************************************)
OwnFramesInOrder ==
  ~Spoilt => \A h \in Halves :
    /\ Len(seen[h]) <= Len(SentBy(h))
    /\ seen[h] = SubSeq(SentBy(h), 1, Len(seen[h]))

(***************************************************************************)
(* "A dropped UART byte no longer pins every later frame to the wrong      *)
(* boundary" (CHANGELOG.md:5): a byte lost or changed, or a frame given up *)
(* for ABORT, costs two frames at most, and the reader rejects, and NACKs, *)
(* no more than four windows for it; later frames are recognised.          *)
(* The exception: frames in which a byte other than the first could be a   *)
(* frame type, such as SEQ 1 to 6.  A window that begins there is taken    *)
(* for a CRC miss and consumed whole, and so is the next one, for as long  *)
(* as such frames come.                                                    *)
(***************************************************************************)
Settled == /\ \A h \in Halves : out[h].pos = FrameLen
           /\ stage.bytes = <<>> /\ wire = <<>> /\ pending = <<>>

Rejected(h) == {j \in DOMAIN seen[h] : seen[h][j] = 0}

LossIsLocal ==
  \/ shape # {}
  \/ /\ Settled => Len(sent) - Len(decoded) <= 2 * (hits + cuts)
     /\ Cardinality(Rejected("payload")) <= 4 * (hits + cuts)
     /\ Rejected("control") = {}

(***************************************************************************)
(* Full rings only delay: a frame the demultiplexer holds back, and the    *)
(* frames behind it, ACKs too, are read in the end, as long as both halves *)
(* are polled.                                                             *)
(***************************************************************************)
EveryFrameIsRead ==
  []<>(Spoilt \/ \A i \in DOMAIN sent :
                  \E j \in DOMAIN seen[sent[i]] : seen[sent[i]][j] = i)
=============================================================================
