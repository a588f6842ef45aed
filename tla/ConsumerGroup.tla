--------------------------- MODULE ConsumerGroup ---------------------------
(***************************************************************************)
(* What the two consumer loops of internal/kafka/producer.go share: one    *)
(* consumer group reading the topic events.raw, and the two places where a *)
(* message can end up, the handler's effect and the dead-letter topic.     *)
(*                                                                         *)
(* Kafka and the kafka-go reader are external.  What the loops rely on:    *)
(*  - FetchMessage returns the message at the reader's own position and    *)
(*    advances it; it never returns a message again because it was not     *)
(*    committed;                                                           *)
(*  - CommitMessages overwrites the group's offset of each partition of    *)
(*    its messages with the highest offset given plus one;                 *)
(*  - an assignment of partitions (a join, a leave, a lost heartbeat)      *)
(*    restarts every reader at the committed offsets, while the messages a *)
(*    loop already fetched stay in its memory and can still be committed.  *)
(*                                                                         *)
(* Offsets are counted from one, so that committed[p] is both Kafka's      *)
(* committed offset and the number of messages committed.                  *)
(***************************************************************************)
EXTENDS Naturals, Sequences, FiniteSets

CONSTANTS
    Partitions,   \* partitions of the topic
    Workers,      \* replicas of one worker deployment
    Events,       \* event identities: tenantId and eventId
    NoEvent,      \* the identity of a message that is not an event at all
    NoWorker,     \* owner of an unassigned partition
    Backlogs,     \* the logs the group may have to consume
    MaxFaults     \* bound: crashes, rebalances and failed calls together

\* A message: the identity it decodes to, and whether it passes Validate.
Entry == [id : Events, valid : BOOLEAN]
         \cup {[id |-> NoEvent, valid |-> FALSE]}

ASSUME BacklogsAssumption == Backlogs \subseteq [Partitions -> Seq(Entry)]
ASSUME NoWorkerAssumption == NoWorker \notin Workers
ASSUME MaxFaultsAssumption == MaxFaults \in Nat

VARIABLES
    log,         \* messages of each partition, in offset order
    committed,   \* the group's committed offset of each partition
    owner,       \* the worker each partition is assigned to
    position,    \* offset up to which the partition's current owner has read
    handled,     \* events for which the handler has returned success
    dlq,         \* messages <<partition, offset>> written to events.dlq
    faults       \* faults so far

-----------------------------------------------------------------------------
Offsets(p) == 1 .. Len(log[p])
Positions == UNION {{p} \X Offsets(p) : p \in Partitions}

\* The message at a position m = <<partition, offset>>.
MessageAt(m) == log[m[1]][m[2]]

\* A message is settled when its event was handled, or when a message of the
\* same identity (itself, if it carries no event) is in the dead-letter topic.
Settled(m) ==
    \/ m \in dlq
    \/ /\ MessageAt(m).valid
       /\ \/ MessageAt(m).id \in handled
          \/ \E d \in dlq : MessageAt(d).id = MessageAt(m).id

GroupTypeOK ==
    /\ log \in Backlogs
    /\ committed \in [Partitions -> Nat]
    /\ owner \in [Partitions -> Workers \cup {NoWorker}]
    /\ position \in [Partitions -> Nat]
    /\ handled \subseteq Events
    /\ dlq \subseteq Positions
    /\ faults \in 0 .. MaxFaults

GroupInit ==
    /\ log \in Backlogs
    /\ committed = [p \in Partitions |-> 0]
    /\ owner = [p \in Partitions |-> NoWorker]
    /\ position = [p \in Partitions |-> 0]
    /\ handled = {}
    /\ dlq = {}
    /\ faults = 0

-----------------------------------------------------------------------------
Fault == faults < MaxFaults /\ faults' = faults + 1

\* reader.FetchMessage by worker w from a partition assigned to it; the
\* message fetched is <<p, position[p] + 1>>.
FetchMessage(w, p) ==
    /\ owner[p] = w
    /\ position[p] < Len(log[p])
    /\ position' = [position EXCEPT ![p] = @ + 1]

\* reader.CommitMessages for a set of messages.
CommitMessages(ms) ==
    LET at(p) == {m[2] : m \in {x \in ms : x[1] = p}}
        To(p) == IF at(p) = {}
                 THEN {committed[p]}
                 ELSE {o \in at(p) : \A x \in at(p) : x <= o}
    IN  /\ committed' \in [Partitions -> {committed[p] : p \in Partitions}
                                         \cup {m[2] : m \in ms}]
        /\ \A p \in Partitions : committed'[p] \in To(p)

\* The coordinator assigns the partitions among the members of the group, and
\* every reader resumes from the committed offsets.
Assign(members) ==
    /\ members # {}
    /\ owner' \in [Partitions -> members]
    /\ position' = committed

\* A worker leaves the group: its partitions have no reader until the next
\* assignment.
Leave(w) ==
    owner' = [p \in Partitions |-> IF owner[p] = w THEN NoWorker ELSE owner[p]]

-----------------------------------------------------------------------------
(***************************************************************************)
(* At-least-once consumption: an offset is committed only past messages    *)
(* that were handled or dead-lettered ("Consumers are at-least-once and    *)
(* commit offsets after successful handling", README.md:25).  A committed  *)
(* message is never delivered again, so one that is not settled is lost.   *)
(***************************************************************************)
CommittedSettled ==
    \A p \in Partitions : \A o \in 1 .. committed[p] : Settled(<<p, o>>)

\* docs/runbooks/README.md:40: "explicit `DeadLetterError` failures are written
\* to `events.dlq` before the source offset is committed": the record written
\* for an event that failed is a message the handler was given, not an invalid
\* one that happens to carry the same tenantId and eventId.
FailuresDeadLettered ==
    \A p \in Partitions : \A o \in 1 .. committed[p] :
        LET m == MessageAt(<<p, o>>) IN
        m.valid => \/ m.id \in handled
                   \/ \E d \in dlq : MessageAt(d) = m
=============================================================================
