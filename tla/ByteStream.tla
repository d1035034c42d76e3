----------------------------- MODULE ByteStream -----------------------------
(***************************************************************************)
(* What a PSICOSE session promises its application, without frames,        *)
(* sequence numbers, wires or retries: bytes offered come out at the other *)
(* end in order and at most once, and a session that completes has         *)
(* delivered all of them.  A session may instead fail or be cancelled;     *)
(* bytes already offered may still come out after that, none may after     *)
(* completion.                                                             *)
(***************************************************************************)
EXTENDS Naturals, Sequences

VARIABLES
  sess,        \* number of the session
  sent,        \* bytes offered in it
  delivered,   \* bytes that came out in it
  status       \* "open", "done", "failed" or "cancelled"

vars == <<sess, sent, delivered, status>>

Init == sess = 0 /\ sent = 0 /\ delivered = <<>> /\ status = "open"

Open == /\ sess' = sess + 1
        /\ sent' = 0 /\ delivered' = <<>> /\ status' = "open"

Offer == /\ status = "open"
         /\ sent' = sent + 1
         /\ UNCHANGED <<sess, delivered, status>>

Deliver ==
  /\ Len(delivered) < sent
  /\ delivered' = Append(delivered, [sess |-> sess, pos |-> Len(delivered) + 1])
  /\ UNCHANGED <<sess, sent, status>>

Complete == /\ status = "open"
            /\ Len(delivered) = sent
            /\ status' = "done"
            /\ UNCHANGED <<sess, sent, delivered>>

Fail == /\ status \in {"open", "cancelled"}
        /\ status' = "failed"
        /\ UNCHANGED <<sess, sent, delivered>>

Cancel == /\ status' = "cancelled"
          /\ UNCHANGED <<sess, sent, delivered>>

Next == Open \/ Offer \/ Deliver \/ Complete \/ Fail \/ Cancel

Spec == Init /\ [][Next]_vars
=============================================================================
