-------------------------- MODULE MCSingleConsumer --------------------------
(* Instances of SingleConsumer for TLC. *)
EXTENDS SingleConsumer, TLC

CONSTANTS e1, e2, Length

AllBacklogs ==
    [Partitions -> [1 .. Length ->
        {[id |-> e1, valid |-> TRUE], [id |-> e2, valid |-> TRUE],
         [id |-> e1, valid |-> FALSE], [id |-> NoEvent, valid |-> FALSE]}]]

Symmetry == Permutations(Workers)
=============================================================================
