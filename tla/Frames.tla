------------------------------- MODULE Frames -------------------------------
(***************************************************************************)
(* The unit of the PSICOSE-1B wire: the frame TYPE | SEQ | DATA | CRC, and *)
(* the sequence arithmetic of SEQ (protocol/frame.rs, protocol/sequence.rs).*)
(*                                                                         *)
(* A frame is a record.  The CRC is abstracted to its purpose: a frame     *)
(* that was hit by the line is the frame BadFrame, which Frame::from_bytes *)
(* rejects; every other frame decodes to itself.  (A corruption CRC-8      *)
(* cannot see is outside the model.)  TornFrame(k) is not a frame at all:  *)
(* it is the k leading bytes of one whose write was abandoned.             *)
(*                                                                         *)
(* The payload byte of a DATA frame is the pair of fields `sess' and `pos':*)
(* the pos-th byte that the application offered in its session number      *)
(* sess, so that no two payload bytes are equal and a property can tell a  *)
(* lost, repeated, reordered or foreign byte.  In the other frames, whose  *)
(* DATA field is zero in the code, the two fields are auxiliary: they      *)
(* record what the frame is about, and no handler reads them.              *)
(***************************************************************************)
EXTENDS Integers, Sequences

CONSTANT SeqMod       \* Number of sequence values: 256 in the code (u8).

(***************************************************************************)
(* Stop-and-wait tells three neighbouring positions apart: the expected    *)
(* one, the one before it and the one after it.                            *)
(***************************************************************************)
ASSUME SeqModAssumption == SeqMod \in Nat /\ SeqMod >= 3

Seqs == 0 .. SeqMod - 1

(* Sequence::advance and Sequence::previous: wrapping u8 arithmetic. *)
Advance(q) == (q + 1) % SeqMod
Previous(q) == (q + SeqMod - 1) % SeqMod

(* The sequence number of the pos-th byte of a session: the first byte     *)
(* after START has SEQ 0.                                                  *)
SeqOf(pos) == (pos - 1) % SeqMod

FrameTypes == {"Data", "Ack", "Nack", "Start", "Finish", "Abort"}

MkFrame(type, q, s, p) == [type |-> type, seq |-> q, sess |-> s, pos |-> p]

(* What Frame::from_bytes rejects, whatever the cause. *)
BadFrame == MkFrame("Bad", 0, 0, 0)

(* The first k bytes of a frame (k in 1..3) that was never completed. *)
TornFrame(k) == MkFrame("Torn", k, 0, 0)

FrameLen == 4

(* What a wire can carry. *)
Frame == [type : FrameTypes, seq : Seqs, sess : Nat, pos : Nat]
           \cup {BadFrame} \cup {TornFrame(k) : k \in 1 .. FrameLen - 1}
=============================================================================
