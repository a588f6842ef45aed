--------------------------- MODULE SingleConsumer ---------------------------
(***************************************************************************)
(* Consumer.runSingle, the loop used when the batch size is 1 (the default *)
(* of PULSE_CONSUMER_BATCH_SIZE): fetch a message, decode it, call the     *)
(* handler or write the dead letter, commit.  When processMessage returns  *)
(* an error the loop waits and then fetches again: the failed message is   *)
(* not handled a second time, and the next commit covers its offset.       *)
(***************************************************************************)
EXTENDS ConsumerGroup

NoMessage == <<>>

VARIABLES
    phase,    \* where each worker is in runSingle and processMessage
    msg,      \* the message being processed
    errored   \* messages whose processMessage returned an error (history)

vars == <<log, committed, owner, position, handled, dlq, faults,
          phase, msg, errored>>

Phases == {"down", "fetch", "process", "deadLetter", "commit"}

TypeOK ==
    /\ GroupTypeOK
    /\ phase \in [Workers -> Phases]
    /\ msg \in [Workers -> Positions \cup {NoMessage}]
    /\ errored \subseteq Positions

Init ==
    /\ GroupInit
    /\ phase = [w \in Workers |-> "fetch"]
    /\ msg = [w \in Workers |-> NoMessage]
    /\ errored = {}

Goto(w, ph) == phase' = [phase EXCEPT ![w] = ph]

-----------------------------------------------------------------------------
\* Mutant: ReadMessage, which commits as it fetches.
FetchAutoCommit(w, p) ==
    /\ phase[w] = "fetch"
    /\ FetchMessage(w, p)
    /\ msg' = [msg EXCEPT ![w] = <<p, position[p] + 1>>]
    /\ committed' = [committed EXCEPT ![p] = position[p] + 1]
    /\ Goto(w, "process")
    /\ UNCHANGED <<log, owner, handled, dlq, faults, errored>>

Fetch(w, p) ==
    /\ phase[w] = "fetch"
    /\ FetchMessage(w, p)
    /\ msg' = [msg EXCEPT ![w] = <<p, position[p] + 1>>]
    /\ Goto(w, "process")
    /\ UNCHANGED <<log, committed, owner, handled, dlq, faults, errored>>

\* processMessage up to the handler's return: a message that does not decode
\* or validate, or whose handler returns DeadLetterError, is dead-lettered.
Process(w) ==
    /\ phase[w] = "process"
    /\ \/ /\ MessageAt(msg[w]).valid
          /\ handled' = handled \cup {MessageAt(msg[w]).id}
          /\ Goto(w, "commit")
       \/ /\ Goto(w, "deadLetter")
          /\ UNCHANGED handled
    /\ UNCHANGED <<log, committed, owner, position, dlq, faults, msg, errored>>

WriteDeadLetter(w) ==
    /\ phase[w] = "deadLetter"
    /\ dlq' = dlq \cup {msg[w]}
    /\ Goto(w, "commit")
    /\ UNCHANGED <<log, committed, owner, position, handled, faults,
                   msg, errored>>

Commit(w) ==
    /\ phase[w] = "commit"
    /\ CommitMessages({msg[w]})
    /\ Goto(w, "fetch")
    /\ msg' = [msg EXCEPT ![w] = NoMessage]
    /\ UNCHANGED <<log, owner, position, handled, dlq, faults, errored>>

\* Mutant: the handler's error is logged, and the message committed like any
\* other.
ProcessErrorCommits(w) ==
    /\ Fault
    /\ phase[w] = "process"
    /\ MessageAt(msg[w]).valid
    /\ Goto(w, "commit")
    /\ UNCHANGED <<log, committed, owner, position, handled, dlq, msg, errored>>

\* processMessage returns an error: the handler failed, or the dead-letter
\* write or the commit failed (each possibly after taking effect).  The loop
\* waits and goes on with the next message.
ProcessError(w) ==
    /\ Fault
    /\ \/ /\ phase[w] = "process"
          /\ MessageAt(msg[w]).valid
          /\ handled' \in {handled, handled \cup {MessageAt(msg[w]).id}}
          /\ UNCHANGED <<dlq, committed>>
       \/ /\ phase[w] = "deadLetter"
          /\ dlq' \in {dlq, dlq \cup {msg[w]}}
          /\ UNCHANGED <<handled, committed>>
       \/ /\ phase[w] = "commit"
          /\ CommitMessages({msg[w]}) \/ UNCHANGED committed
          /\ UNCHANGED <<handled, dlq>>
    /\ errored' = errored \cup {msg[w]}
    /\ msg' = [msg EXCEPT ![w] = NoMessage]
    /\ Goto(w, "fetch")
    /\ UNCHANGED <<log, owner, position>>

Stop(w) ==
    /\ phase[w] # "down"
    /\ Fault
    /\ Leave(w)
    /\ Goto(w, "down")
    /\ msg' = [msg EXCEPT ![w] = NoMessage]
    /\ UNCHANGED <<log, committed, position, handled, dlq, errored>>

Start(w) ==
    /\ phase[w] = "down"
    /\ Goto(w, "fetch")
    /\ UNCHANGED <<log, committed, owner, position, handled, dlq, faults,
                   msg, errored>>

Members == {w \in Workers : phase[w] # "down"}

Join ==
    /\ \E p \in Partitions : owner[p] = NoWorker
    /\ Assign(Members)
    /\ UNCHANGED <<log, committed, handled, dlq, faults, phase, msg, errored>>

Rebalance ==
    /\ \A p \in Partitions : owner[p] # NoWorker
    /\ Fault
    /\ Assign(Members)
    /\ UNCHANGED <<log, committed, handled, dlq, phase, msg, errored>>

Next ==
    \/ \E w \in Workers :
        \/ \E p \in Partitions : Fetch(w, p)
        \/ Process(w) \/ WriteDeadLetter(w) \/ Commit(w)
        \/ ProcessError(w) \/ Stop(w) \/ Start(w)
    \/ Join
    \/ Rebalance

Spec == Init /\ [][Next]_vars

-----------------------------------------------------------------------------
(***************************************************************************)
(* What runSingle does guarantee: a committed message that was neither     *)
(* handled nor dead-lettered is one whose own processing returned an       *)
(* error.  Crashes, rebalances and the failures of other messages lose     *)
(* nothing.                                                                *)
(***************************************************************************)
OnlyErroredLost ==
    \A p \in Partitions : \A o \in 1 .. committed[p] :
        Settled(<<p, o>>) \/ <<p, o>> \in errored

\* The inductive invariant behind it: what the owner of a partition has read,
\* and what lies before a message being processed, is settled or errored, the
\* message itself excepted, and it is settled when it comes to be committed.
Passed(m) == Settled(m) \/ m \in errored

ReadSafe ==
    \A p \in Partitions : owner[p] # NoWorker =>
        \A o \in 1 .. position[p] : Passed(<<p, o>>) \/ msg[owner[p]] = <<p, o>>

MessageSafe(w) ==
    /\ phase[w] \in {"fetch", "down"} <=> msg[w] = NoMessage
    /\ phase[w] = "commit" => Settled(msg[w])
    /\ msg[w] # NoMessage => \A o \in 1 .. msg[w][2] - 1 : Passed(<<msg[w][1], o>>)

SingleInv ==
    TypeOK /\ OnlyErroredLost /\ ReadSafe /\ \A w \in Workers : MessageSafe(w)
=============================================================================
