----------------------------- MODULE PeerSession -----------------------------
(***************************************************************************)
(* The session of two peers (src/p2p/session.rs): what the hello carries,  *)
(* what comes of it, and the life cycle.  Nothing here touches a wire.     *)
(*                                                                         *)
(* The hello has 12 bytes, eight of identity and four of configuration.    *)
(* Each part is one byte here, so that a hello is still put together from  *)
(* bytes that arrive one at a time and parts of two hellos can mix.        *)
(***************************************************************************)
EXTENDS Integers, Sequences

CONSTANTS MaxWindow,   \* MAX_WINDOW, 8 in the code
          Configs      \* Configs[c]: the configuration byte c stands for

Features == {"WINDOW", "STREAM", "FRAGMENTATION"}

Config == [protocol_version : Nat, max_window : Nat, features : SUBSET Features]

ASSUME SessionAssumption ==
  /\ MaxWindow \in Nat \ {0}
  /\ \A c \in DOMAIN Configs : Configs[c] \in Config

HelloLen == 2

Nobody == 0
NoConfig == [protocol_version |-> 0, max_window |-> 0, features |-> {}]

(* SessionConfig::new clamps the window of an offer. *)
Clamped(cfg) ==
  [cfg EXCEPT !.max_window = IF @ = 0 THEN 1 ELSE IF @ > MaxWindow THEN MaxWindow ELSE @]

(* SessionConfig::from_bytes. *)
Parsed(c) == IF c \in DOMAIN Configs THEN Configs[c] ELSE NoConfig

Valid(c) ==
  /\ Parsed(c).protocol_version # 0
  /\ Parsed(c).max_window \in 1 .. MaxWindow

Smaller(a, b) == IF a < b THEN a ELSE b

(* Mutant of Negotiate: the window of the own offer is kept. *)
NegotiateOwnWindow(own, remote) ==
  [protocol_version |-> Smaller(own.protocol_version, remote.protocol_version),
   max_window |-> own.max_window,
   features |-> own.features \cap remote.features]

(* negotiate: what both can do. *)
Negotiate(own, remote) ==
  [protocol_version |-> Smaller(own.protocol_version, remote.protocol_version),
   max_window |-> Smaller(own.max_window, remote.max_window),
   features |-> own.features \cap remote.features]

-----------------------------------------------------------------------------
(* PeerSession.  local and config never change; config is the byte that    *)
(* stands for the offer.                                                   *)

SessionNew(id, c) ==
  [local |-> id, config |-> c, remote |-> Nobody, negotiated |-> NoConfig,
   state |-> "Disconnected"]

HelloBytes(s) == <<s.local, s.config>>

Connect(s) == [s EXCEPT !.remote = Nobody, !.negotiated = NoConfig, !.state = "Connecting"]

HelloIsValid(hello) == Len(hello) = HelloLen /\ Valid(hello[2])

(* on_hello, the hello being valid.  A reply is due unless we connected.   *)
OnHello(s, hello) ==
  [s EXCEPT !.remote = hello[1],
            !.negotiated = Negotiate(Clamped(Configs[s.config]), Parsed(hello[2])),
            !.state = "Established"]

(* closed, abort.  (close, to Closing, is called by nothing in the crate.) *)
Closed(s) == [s EXCEPT !.state = "Disconnected"]

SessionAbort(s) == [s EXCEPT !.state = "Aborted"]
=============================================================================
