---------------------------- MODULE AtLeastOnce ----------------------------
(***************************************************************************)
(* What a consumer group promises, without workers, batches or failures:   *)
(* messages become settled and stay so, and the committed offset of a      *)
(* partition is only ever placed behind a settled prefix.  It may move     *)
(* back (messages are then delivered again) but never past an unsettled    *)
(* message.                                                                *)
(***************************************************************************)
EXTENDS Naturals

CONSTANTS Partitions
VARIABLES settled, committed

Init ==
    /\ settled = [p \in Partitions |-> {}]
    /\ committed = [p \in Partitions |-> 0]

Settle ==
    /\ \A p \in Partitions : settled[p] \subseteq settled'[p]
    /\ UNCHANGED committed

Commit ==
    /\ committed' \in [Partitions -> Nat]
    /\ \A p \in Partitions : 1 .. committed'[p] \subseteq settled[p]
    /\ UNCHANGED settled

Next == Settle \/ Commit

Spec == Init /\ [][Next]_<<settled, committed>>
=============================================================================
