------------------------------- MODULE MC_Node -------------------------------
(* Two wires to the same neighbour and a table of two.  An identity may be *)
(* read as a configuration when hellos mix.                                *)
EXTENDS Node, TLC

NeighbourIds == [w \in Wires |-> 2]

WireSymmetry == Permutations(Wires)

ConfigBytes ==
  <<[protocol_version |-> 1, max_window |-> 2, features |-> {"WINDOW", "STREAM"}],
    [protocol_version |-> 0, max_window |-> 9, features |-> {}]>>
=============================================================================
