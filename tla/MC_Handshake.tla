---------------------------- MODULE MC_Handshake ----------------------------
(* The configurations two nodes announce: one without WINDOW, one with the *)
(* whole window, one with a smaller one and a newer version; and bytes     *)
(* that are no valid configuration.                                        *)
EXTENDS Handshake

ConfigBytes ==
  <<[protocol_version |-> 1, max_window |-> 2, features |-> {"STREAM"}],
    [protocol_version |-> 1, max_window |-> 2, features |-> {"WINDOW", "STREAM"}],
    [protocol_version |-> 2, max_window |-> 1, features |-> {"WINDOW"}],
    [protocol_version |-> 0, max_window |-> 1, features |-> {}],
    [protocol_version |-> 1, max_window |-> 9, features |-> {}]>>
=============================================================================
