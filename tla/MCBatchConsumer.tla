-------------------------- MODULE MCBatchConsumer --------------------------
(* Instances of BatchConsumer for TLC. *)
EXTENDS BatchConsumer, TLC

CONSTANTS e1, e2, Length

Valid(e) == [id |-> e, valid |-> TRUE]
Invalid(e) == [id |-> e, valid |-> FALSE]
Malformed == [id |-> NoEvent, valid |-> FALSE]

\* An event, another event, an invalid copy of the first, a malformed message.
Messages == {Valid(e1), Valid(e2), Invalid(e1), Malformed}

\* Every partition holds every sequence of Length messages.
AllBacklogs == [Partitions -> [1 .. Length -> Messages]]

\* One partition holds every sequence of Length messages with e1 among them and
\* the other none, or each holds one message, so that a batch has messages of
\* both.  An event, whose tenant is the message key, is in one of them only.
KeyedBacklogs ==
    LET q == CHOOSE p \in Partitions : TRUE
        Backlog(s, t) == [p \in Partitions |-> IF p = q THEN s ELSE t]
        WithEvent == {s \in [1 .. Length -> Messages] :
                        \E i \in 1 .. Length : s[i] = Valid(e1)}
    IN  {Backlog(s, <<>>) : s \in WithEvent}
        \cup {Backlog(<<Valid(e1)>>, <<m>>) : m \in {Valid(e2), Malformed}}

Symmetry == Permutations(Workers)
=============================================================================
