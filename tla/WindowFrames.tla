---------------------------- MODULE WindowFrames ----------------------------
(***************************************************************************)
(* What the two sides of selective repeat share (src/window/mod.rs): the   *)
(* length of the window and the distance between two sequence numbers.     *)
(***************************************************************************)
EXTENDS Frames

CONSTANT WindowLen      \* N, the length of the slot array and of the buffer

(***************************************************************************)
(* The code has N <= 8 and 256 values of SEQ.  A window and the one before *)
(* it must not overlap; and since a second ACK of START may free the slot  *)
(* of a first byte that was lost, the sender can be a whole window further *)
(* ahead than the receiver takes for possible.  Hence three windows.       *)
(***************************************************************************)
ASSUME WindowAssumption == WindowLen \in Nat \ {0} /\ 3 * WindowLen <= SeqMod

(* u8::wrapping_sub *)
Sub(a, b) == (a - b) % SeqMod
=============================================================================
