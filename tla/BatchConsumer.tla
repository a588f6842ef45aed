--------------------------- MODULE BatchConsumer ---------------------------
(***************************************************************************)
(* Consumer.runBatch: every replica of a worker fetches a batch, decodes   *)
(* it (dead-lettering what does not decode), hands it to the batch handler *)
(* until the handler succeeds or its terminal failures are dead-lettered,  *)
(* commits it until the commit succeeds, and only then fetches again.      *)
(*                                                                         *)
(* The handler is known by its results: nil, an error after an arbitrary   *)
(* part of the batch took effect, or BatchDeadLetterError naming the       *)
(* events that failed for good.  Backoff delays are not modelled: a wait   *)
(* that is not interrupted only leads back to the call it follows.         *)
(***************************************************************************)
EXTENDS ConsumerGroup

CONSTANT BatchSize
ASSUME BatchSizeAssumption == BatchSize \in Nat \ {0}

VARIABLES
    phase,      \* where each worker is in runBatch
    messages,   \* the batch it fetched
    cursor,     \* decodeBatch: index of the message being decoded
    failed      \* events of the BatchDeadLetterError being dead-lettered

vars == <<log, committed, owner, position, handled, dlq, faults,
          phase, messages, cursor, failed>>

Phases == {"down", "fetch", "decode", "handle", "deadLetter", "commit"}

TypeOK ==
    /\ GroupTypeOK
    /\ phase \in [Workers -> Phases]
    /\ messages \in [Workers -> Seq(Positions)]
    /\ cursor \in [Workers -> Nat \ {0}]
    /\ failed \in [Workers -> SUBSET Events]

Init ==
    /\ GroupInit
    /\ phase = [w \in Workers |-> "fetch"]
    /\ messages = [w \in Workers |-> <<>>]
    /\ cursor = [w \in Workers |-> 1]
    /\ failed = [w \in Workers |-> {}]

Goto(w, ph) == phase' = [phase EXCEPT ![w] = ph]

Fetched(w) == {messages[w][i] : i \in 1 .. Len(messages[w])}

\* The events decodeBatch passes to the handler.
BatchEvents(w) == {MessageAt(m).id : m \in {x \in Fetched(w) : MessageAt(x).valid}}

-----------------------------------------------------------------------------
\* fetchBatch: the first message is waited for, more are taken while the batch
\* is not full ...
FetchBatch(w, p) ==
    /\ phase[w] = "fetch"
    /\ Len(messages[w]) < BatchSize
    /\ FetchMessage(w, p)
    /\ messages' = [messages EXCEPT ![w] = Append(@, <<p, position[p] + 1>>)]
    /\ UNCHANGED <<log, committed, owner, handled, dlq, faults,
                   phase, cursor, failed>>

\* ... and it ends when the batch is full, at the batch timeout or at a fetch
\* error.
FetchBatchEnd(w) ==
    /\ phase[w] = "fetch"
    /\ messages[w] # <<>>
    /\ Goto(w, "decode")
    /\ cursor' = [cursor EXCEPT ![w] = 1]
    /\ UNCHANGED <<log, committed, owner, position, handled, dlq, faults,
                   messages, failed>>

Decoding(w) == messages[w][cursor[w]]

\* decodeBatch, one message: a valid event is added to the batch, anything
\* else is written to the dead-letter topic.
DecodeBatch(w) ==
    /\ phase[w] = "decode"
    /\ cursor[w] <= Len(messages[w])
    /\ cursor' = [cursor EXCEPT ![w] = @ + 1]
    /\ dlq' = IF MessageAt(Decoding(w)).valid THEN dlq
              ELSE dlq \cup {Decoding(w)}
    /\ UNCHANGED <<log, committed, owner, position, handled, faults,
                   phase, messages, failed>>

\* Mutant: the failed dead-letter write is skipped.
DecodeBatchErrorSkips(w) ==
    /\ phase[w] = "decode"
    /\ cursor[w] <= Len(messages[w])
    /\ ~MessageAt(Decoding(w)).valid
    /\ Fault
    /\ cursor' = [cursor EXCEPT ![w] = @ + 1]
    /\ UNCHANGED <<log, committed, owner, position, handled, dlq,
                   phase, messages, failed>>

\* writeDeadLetter fails (the record may have been written all the same):
\* decodeBatch gives up and runBatch decodes the whole batch again.
DecodeBatchError(w) ==
    /\ phase[w] = "decode"
    /\ cursor[w] <= Len(messages[w])
    /\ ~MessageAt(Decoding(w)).valid
    /\ Fault
    /\ cursor' = [cursor EXCEPT ![w] = 1]
    /\ dlq' \in {dlq, dlq \cup {Decoding(w)}}
    /\ UNCHANGED <<log, committed, owner, position, handled,
                   phase, messages, failed>>

\* A batch without events goes straight to the commit.
DecodeBatchEnd(w) ==
    /\ phase[w] = "decode"
    /\ cursor[w] > Len(messages[w])
    /\ Goto(w, IF BatchEvents(w) = {} THEN "commit" ELSE "handle")
    /\ UNCHANGED <<log, committed, owner, position, handled, dlq, faults,
                   messages, cursor, failed>>

\* batchHandler returns nil.
Handle(w) ==
    /\ phase[w] = "handle"
    /\ handled' = handled \cup BatchEvents(w)
    /\ Goto(w, "commit")
    /\ UNCHANGED <<log, committed, owner, position, dlq, faults,
                   messages, cursor, failed>>

\* Mutant: after a failure the loop goes on with the next batch.
HandleErrorDrops(w) ==
    /\ phase[w] = "handle"
    /\ Fault
    /\ messages' = [messages EXCEPT ![w] = <<>>]
    /\ Goto(w, "fetch")
    /\ UNCHANGED <<log, committed, owner, position, handled, dlq, cursor, failed>>

\* batchHandler fails after part of the batch took effect; the loop waits and
\* calls it again with the same batch.
HandleError(w) ==
    /\ phase[w] = "handle"
    /\ Fault
    /\ \E done \in SUBSET BatchEvents(w) : handled' = handled \cup done
    /\ UNCHANGED <<log, committed, owner, position, dlq,
                   phase, messages, cursor, failed>>

\* batchHandler returns BatchDeadLetterError: every other event was handled.
HandleTerminal(w) ==
    /\ phase[w] = "handle"
    /\ \E events \in SUBSET BatchEvents(w) \ {{}} :
        /\ failed' = [failed EXCEPT ![w] = events]
        /\ handled' = handled \cup (BatchEvents(w) \ events)
    /\ Goto(w, "deadLetter")
    /\ UNCHANGED <<log, committed, owner, position, dlq, faults,
                   messages, cursor>>

\* Mutant: a message is taken for a repetition of itself.
DlqMessagesOffByOne(w) ==
    {messages[w][i] : i \in {j \in 1 .. Len(messages[w]) :
        /\ MessageAt(messages[w][j]).id \in failed[w]
        /\ \A k \in 1 .. j :
            MessageAt(messages[w][k]).id # MessageAt(messages[w][j]).id}}

\* The messages deadLetterBatch writes: for each failed identity the first
\* message of the batch that decodes to it.
DlqMessages(w) ==
    {messages[w][i] : i \in {j \in 1 .. Len(messages[w]) :
        /\ MessageAt(messages[w][j]).id \in failed[w]
        /\ \A k \in 1 .. j - 1 :
            MessageAt(messages[w][k]).id # MessageAt(messages[w][j]).id}}

DeadLetterBatch(w) ==
    /\ phase[w] = "deadLetter"
    /\ dlq' = dlq \cup DlqMessages(w)
    /\ failed' = [failed EXCEPT ![w] = {}]
    /\ Goto(w, "commit")
    /\ UNCHANGED <<log, committed, owner, position, handled, faults,
                   messages, cursor>>

\* Mutant: the batch is committed although the dead-letter write failed.
DeadLetterBatchErrorCommits(w) ==
    /\ phase[w] = "deadLetter"
    /\ Fault
    /\ failed' = [failed EXCEPT ![w] = {}]
    /\ Goto(w, "commit")
    /\ UNCHANGED <<log, committed, owner, position, handled, dlq,
                   messages, cursor>>

\* The write fails, possibly after some of its messages were stored; the
\* handler is called again.
DeadLetterBatchError(w) ==
    /\ phase[w] = "deadLetter"
    /\ Fault
    /\ \E written \in SUBSET DlqMessages(w) : dlq' = dlq \cup written
    /\ failed' = [failed EXCEPT ![w] = {}]
    /\ Goto(w, "handle")
    /\ UNCHANGED <<log, committed, owner, position, handled,
                   messages, cursor>>

\* commitMessages succeeds and the loop starts over.
Commit(w) ==
    /\ phase[w] = "commit"
    /\ CommitMessages(Fetched(w))
    /\ messages' = [messages EXCEPT ![w] = <<>>]
    /\ Goto(w, "fetch")
    /\ UNCHANGED <<log, owner, position, handled, dlq, faults, cursor, failed>>

\* The commit is stored but its answer is lost: commitMessages commits again.
\* (A commit that is not stored changes nothing and is a stuttering step.)
CommitError(w) ==
    /\ phase[w] = "commit"
    /\ Fault
    /\ CommitMessages(Fetched(w))
    /\ UNCHANGED <<log, owner, position, handled, dlq,
                   phase, messages, cursor, failed>>

\* The process dies, or its context is cancelled and runBatch returns at the
\* next wait: what it holds in memory is gone, nothing more is committed.
Stop(w) ==
    /\ phase[w] # "down"
    /\ Fault
    /\ Leave(w)
    /\ Goto(w, "down")
    /\ messages' = [messages EXCEPT ![w] = <<>>]
    /\ failed' = [failed EXCEPT ![w] = {}]
    /\ UNCHANGED <<log, committed, position, handled, dlq, cursor>>

\* The deployment starts it again.
Start(w) ==
    /\ phase[w] = "down"
    /\ Goto(w, "fetch")
    /\ UNCHANGED <<log, committed, owner, position, handled, dlq, faults,
                   messages, cursor, failed>>

Members == {w \in Workers : phase[w] # "down"}

\* The group assigns partitions that have no reader ...
Join ==
    /\ \E p \in Partitions : owner[p] = NoWorker
    /\ Assign(Members)
    /\ UNCHANGED <<log, committed, handled, dlq, faults,
                   phase, messages, cursor, failed>>

\* ... and may rebalance at any time, in the middle of any batch.
Rebalance ==
    /\ \A p \in Partitions : owner[p] # NoWorker
    /\ Fault
    /\ Assign(Members)
    /\ UNCHANGED <<log, committed, handled, dlq,
                   phase, messages, cursor, failed>>

Progress(w) ==
    \/ \E p \in Partitions : FetchBatch(w, p)
    \/ FetchBatchEnd(w) \/ DecodeBatch(w) \/ DecodeBatchEnd(w)
    \/ Handle(w) \/ HandleTerminal(w) \/ DeadLetterBatch(w)
    \/ Commit(w) \/ Start(w)

Failure(w) ==
    \/ DecodeBatchError(w) \/ HandleError(w) \/ DeadLetterBatchError(w)
    \/ CommitError(w) \/ Stop(w)

Next ==
    \/ \E w \in Workers : Progress(w) \/ Failure(w)
    \/ Join
    \/ Rebalance

Spec == Init /\ [][Next]_vars

\* Every call of a running loop returns, a stopped worker is restarted and an
\* unread partition is assigned.  Failures are finitely many (MaxFaults).
Fairness == (\A w \in Workers : WF_vars(Progress(w))) /\ WF_vars(Join)

FairSpec == Spec /\ Fairness

-----------------------------------------------------------------------------
(***************************************************************************)
(* The inductive invariant behind CommittedSettled.                        *)
(***************************************************************************)
\* No worker or reader is ahead of the log.
WithinLog ==
    \A p \in Partitions : committed[p] <= Len(log[p]) /\ position[p] <= Len(log[p])

\* What lies behind a reader is settled or still in its owner's batch.
ReadSafe ==
    \A p \in Partitions : owner[p] # NoWorker =>
        \A o \in 1 .. position[p] :
            Settled(<<p, o>>) \/ <<p, o>> \in Fetched(owner[p])

\* A batch has no gaps: what lies behind one of its messages is settled or in
\* the batch too.
BatchSafe ==
    \A w \in Workers : \A m \in Fetched(w) : \A o \in 1 .. m[2] :
        Settled(<<m[1], o>>) \/ <<m[1], o>> \in Fetched(w)

\* Each phase has dealt with what the phases before it are there for.
PhaseSafeAt(w) ==
    /\ phase[w] = "decode" =>
        \A i \in 1 .. Len(messages[w]) : i < cursor[w] =>
            MessageAt(messages[w][i]).valid \/ messages[w][i] \in dlq
    /\ phase[w] \in {"handle", "deadLetter"} =>
        \A m \in Fetched(w) : MessageAt(m).valid \/ m \in dlq
    /\ phase[w] = "deadLetter" =>
        BatchEvents(w) \subseteq handled \cup failed[w]
    /\ phase[w] = "commit" => \A m \in Fetched(w) : Settled(m)

PhaseSafe == \A w \in Workers : PhaseSafeAt(w)

BatchInv ==
    TypeOK /\ WithinLog /\ ReadSafe /\ BatchSafe /\ PhaseSafe /\ CommittedSettled

-----------------------------------------------------------------------------
ALO == INSTANCE AtLeastOnce WITH
    settled <- [p \in Partitions |-> {o \in Offsets(p) : Settled(<<p, o>>)}]

\* runBatch, with any number of replicas, crashes, rebalances and failed
\* calls, implements the abstract at-least-once consumer.
ImplementsAtLeastOnce == ALO!Spec

\* No message waits for ever: once failures stop, every message of the topic
\* is handled or dead-lettered, whatever rebalances and crashes came before.
EventuallySettled ==
    <>(\A m \in Positions : Settled(m))
=============================================================================
