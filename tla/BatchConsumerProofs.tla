------------------------ MODULE BatchConsumerProofs ------------------------
(* Proofs about BatchConsumer, for any backlog, batch size, number of      *)
(* partitions and workers, and any bound on the faults.                    *)
EXTENDS BatchConsumer, TLAPS, WellFoundedInduction

\* A non-empty set of naturals has a least element.
LEMMA LeastElement ==
  ASSUME NEW T, T \subseteq Nat, T # {}
  PROVE  \E x \in T : \A y \in T : x <= y
<1> DEFINE LT == {ss \in Nat \X Nat : ss[1] < ss[2]}
<1>1. IsWellFoundedOn(LT, Nat)
  BY NatLessThanWellFounded, Zenon DEF OpToRel
<1>2. PICK x \in T : \A y \in T : ~(<<y, x>> \in LT)
  <2> HIDE DEF LT
  <2> QED BY <1>1, WFMin, Zenon
<1>3. ASSUME NEW y \in T, ~(x <= y)
      PROVE  FALSE
  <2>1. x \in Nat /\ y \in Nat /\ y < x
    BY <1>3
  <2>2. <<y, x>> \in LT
    BY <2>1
  <2> HIDE DEF LT
  <2> QED BY <1>2, <1>3, <2>2
<1> QED BY <1>3

-----------------------------------------------------------------------------
(* Facts about single operators. *)

\* The log is a sequence of entries per partition.
LEMMA LogType ==
  ASSUME TypeOK
  PROVE  log \in [Partitions -> Seq(Entry)]
BY BacklogsAssumption DEF TypeOK, GroupTypeOK

\* A position is a partition and an offset of its log.
LEMMA PositionType ==
  ASSUME TypeOK, NEW m \in Positions
  PROVE  /\ m = <<m[1], m[2]>>
         /\ m[1] \in Partitions
         /\ m[2] \in Nat \ {0}
         /\ m[2] <= Len(log[m[1]])
         /\ MessageAt(m) \in Entry
<1>1. PICK p \in Partitions : m \in {p} \X Offsets(p)
  BY DEF Positions
<1>2. log[p] \in Seq(Entry)
  BY LogType
<1>3. m = <<m[1], m[2]>> /\ m[1] = p /\ m[2] \in 1 .. Len(log[p])
  BY <1>1 DEF Offsets
<1>4. Len(log[p]) \in Nat
  BY <1>2
<1> QED BY <1>2, <1>3, <1>4 DEF MessageAt

\* The messages a worker holds are positions of the log.
LEMMA FetchedType ==
  ASSUME TypeOK, NEW w \in Workers
  PROVE  Fetched(w) \subseteq Positions
<1>1. messages[w] \in Seq(Positions)
  BY Zenon DEF TypeOK
<1> QED BY <1>1 DEF Fetched

\* What is settled stays settled: effects and dead letters are never undone.
LEMMA SettledMonotone ==
  ASSUME NEW m, log' = log, handled \subseteq handled', dlq \subseteq dlq',
         Settled(m)
  PROVE  Settled(m)'
BY DEF Settled, MessageAt

\* Only valid events reach the handler.
LEMMA BatchEventsType ==
  ASSUME TypeOK, NEW w \in Workers
  PROVE  BatchEvents(w) \subseteq Events
<1> SUFFICES ASSUME NEW m \in Fetched(w), MessageAt(m).valid
             PROVE  MessageAt(m).id \in Events
  BY DEF BatchEvents
<1>1. MessageAt(m) \in Entry
  BY FetchedType, PositionType
<1> QED BY <1>1 DEF Entry

\* deadLetterBatch writes messages of the batch.
LEMMA DlqMessagesFetched ==
  ASSUME NEW w \in Workers
  PROVE  DlqMessages(w) \subseteq Fetched(w)
BY DEF DlqMessages, Fetched

\* ... and for every failed event of the batch one that carries its identity.
LEMMA DlqMessagesCover ==
  ASSUME TypeOK, NEW w \in Workers, NEW m \in Fetched(w),
         MessageAt(m).id \in failed[w]
  PROVE  \E d \in DlqMessages(w) : MessageAt(d).id = MessageAt(m).id
<1> DEFINE Same == {j \in 1 .. Len(messages[w]) :
                       MessageAt(messages[w][j]).id = MessageAt(m).id}
<1>1. messages[w] \in Seq(Positions) /\ Len(messages[w]) \in Nat
  BY DEF TypeOK
<1>2. Same \subseteq Nat /\ Same # {}
  BY <1>1 DEF Fetched
<1>3. PICK j \in Same : \A k \in Same : j <= k
  <2> HIDE DEF Same
  <2> QED BY <1>2, LeastElement, Zenon
<1>4. ASSUME NEW k \in 1 .. j - 1
      PROVE  MessageAt(messages[w][k]).id # MessageAt(messages[w][j]).id
  BY <1>1, <1>3, <1>4
<1>5. messages[w][j] \in DlqMessages(w)
  BY <1>1, <1>3, <1>4, Zenon DEF DlqMessages
<1> QED BY <1>3, <1>5

-----------------------------------------------------------------------------
(* Type correctness. *)

\* Consumers start with empty batches and nothing committed.
LEMMA InitInv == Init => BatchInv
<1> SUFFICES ASSUME Init PROVE BatchInv
  OBVIOUS
<1>1. TypeOK
  BY MaxFaultsAssumption DEF Init, GroupInit, TypeOK, GroupTypeOK, Phases, Positions
<1>2. log \in [Partitions -> Seq(Entry)] /\ \A p \in Partitions : Len(log[p]) \in Nat
  BY <1>1, LogType
<1>3. \A w \in Workers : Fetched(w) = {}
  BY DEF Init, Fetched
<1>4. WithinLog /\ CommittedSettled /\ ReadSafe
  BY <1>2 DEF Init, GroupInit, WithinLog, CommittedSettled, ReadSafe
<1>5. BatchSafe /\ PhaseSafe
  BY <1>3 DEF Init, BatchSafe, PhaseSafe, PhaseSafeAt
<1> QED BY <1>1, <1>4, <1>5 DEF BatchInv

\* A commit leaves offsets that were there before or belong to its messages.
LEMMA CommitMessagesOffsets ==
  ASSUME TypeOK, NEW w \in Workers, CommitMessages(Fetched(w)),
         NEW p \in Partitions
  PROVE  committed'[p] = committed[p] \/ <<p, committed'[p]>> \in Fetched(w)
<1> DEFINE at == {m[2] : m \in {x \in Fetched(w) : x[1] = p}}
<1>1. committed'[p] = committed[p] \/ committed'[p] \in at
  BY DEF CommitMessages
<1>2. ASSUME committed'[p] \in at
      PROVE  <<p, committed'[p]>> \in Fetched(w)
  <2>1. PICK m \in Fetched(w) : m[1] = p /\ m[2] = committed'[p]
    BY <1>2
  <2>2. m = <<m[1], m[2]>>
    BY <2>1, FetchedType, PositionType, Zenon
  <2> QED BY <2>1, <2>2
<1> QED BY <1>1, <1>2, Zenon

\* Committed offsets stay offsets of the log.
LEMMA CommitMessagesType ==
  ASSUME TypeOK, NEW w \in Workers, CommitMessages(Fetched(w))
  PROVE  committed' \in [Partitions -> Nat]
<1>1. \A m \in Fetched(w) : m[2] \in Nat
  BY FetchedType, PositionType
<1>2. committed \in [Partitions -> Nat]
  BY DEF TypeOK, GroupTypeOK
<1> QED BY <1>1, <1>2 DEF CommitMessages

\* Every step of runBatch and of the group keeps the types.
LEMMA TypeStep == TypeOK /\ [Next]_vars => TypeOK'
<1> SUFFICES ASSUME TypeOK, [Next]_vars PROVE TypeOK'
  OBVIOUS
<1> USE DEF TypeOK, GroupTypeOK
<1>1. ASSUME log' = log PROVE Positions' = Positions
  BY <1>1, Zenon DEF Positions, Offsets
<1>2. ASSUME NEW w \in Workers, NEW p \in Partitions, FetchBatch(w, p)
      PROVE  TypeOK'
  <2>1. log' = log /\ Positions' = Positions
    BY <1>1, <1>2 DEF FetchBatch
  <2>2. Len(log[p]) \in Nat
    BY LogType
  <2>3. <<p, position[p] + 1>> \in Positions
    BY <1>2, <2>2 DEF FetchBatch, FetchMessage, Positions, Offsets
  <2> QED BY <1>2, <2>1, <2>3 DEF FetchBatch, FetchMessage
<1>3. ASSUME NEW w \in Workers, FetchBatchEnd(w) PROVE TypeOK'
  BY <1>1, <1>3 DEF FetchBatchEnd, Goto, Phases
<1>4. ASSUME NEW w \in Workers, DecodeBatch(w) \/ DecodeBatchError(w) PROVE TypeOK'
  <2>1. Decoding(w) \in Positions
    BY <1>4 DEF DecodeBatch, DecodeBatchError, Decoding
  <2> QED BY <1>1, <1>4, <2>1, MaxFaultsAssumption DEF DecodeBatch, DecodeBatchError, Fault
<1>5. ASSUME NEW w \in Workers, DecodeBatchEnd(w) PROVE TypeOK'
  BY <1>1, <1>5, Zenon DEF DecodeBatchEnd, Goto, Phases
<1>6. ASSUME NEW w \in Workers, Handle(w) \/ HandleError(w) \/ HandleTerminal(w)
      PROVE  TypeOK'
  <2>1. BatchEvents(w) \subseteq Events
    BY BatchEventsType
  <2>2. CASE Handle(w)
    BY <1>1, <2>1, <2>2, Zenon DEF Handle, Goto, Phases
  <2>3. CASE HandleError(w)
    BY <1>1, <2>1, <2>3, MaxFaultsAssumption DEF HandleError, Fault
  <2>4. CASE HandleTerminal(w)
    BY <1>1, <2>1, <2>4, Zenon DEF HandleTerminal, Goto, Phases
  <2> QED BY <1>6, <2>2, <2>3, <2>4, Zenon
<1>7. ASSUME NEW w \in Workers, DeadLetterBatch(w) \/ DeadLetterBatchError(w)
      PROVE  TypeOK'
  <2>1. DlqMessages(w) \subseteq Positions
    BY DlqMessagesFetched, FetchedType
  <2>2. CASE DeadLetterBatch(w)
    BY <1>1, <2>1, <2>2, Zenon DEF DeadLetterBatch, Goto, Phases
  <2>3. CASE DeadLetterBatchError(w)
    BY <1>1, <2>1, <2>3, MaxFaultsAssumption DEF DeadLetterBatchError, Goto, Phases, Fault
  <2> QED BY <1>7, <2>2, <2>3, Zenon
<1>8. ASSUME NEW w \in Workers, Commit(w) PROVE TypeOK'
  <2>1. committed' \in [Partitions -> Nat]
    BY <1>8, CommitMessagesType, Zenon DEF Commit
  <2> QED BY <1>1, <1>8, <2>1 DEF Commit, Goto, Phases
<1>9. ASSUME NEW w \in Workers, CommitError(w) PROVE TypeOK'
  <2>1. committed' \in [Partitions -> Nat]
    BY <1>9, CommitMessagesType, Zenon DEF CommitError
  <2> QED BY <1>1, <1>9, <2>1, MaxFaultsAssumption DEF CommitError, Fault
<1>10. ASSUME NEW w \in Workers, Stop(w) \/ Start(w) PROVE TypeOK'
  <2>1. CASE Stop(w)
    <3>1. owner' \in [Partitions -> Workers \cup {NoWorker}]
      BY <2>1, Zenon DEF Stop, Leave
    <3>2. faults' \in 0 .. MaxFaults
      BY <2>1, MaxFaultsAssumption DEF Stop, Fault
    <3> QED BY <1>1, <2>1, <3>1, <3>2 DEF Stop, Goto, Phases
  <2>2. CASE Start(w)
    BY <1>1, <2>2, Zenon DEF Start, Goto, Phases
  <2> QED BY <1>10, <2>1, <2>2
<1>11. ASSUME Join \/ Rebalance PROVE TypeOK'
  <2>1. owner' \in [Partitions -> Workers \cup {NoWorker}] /\ position' = committed
    BY <1>11, Zenon DEF Join, Rebalance, Assign, Members
  <2> QED BY <1>1, <1>11, <2>1, MaxFaultsAssumption DEF Join, Rebalance, Fault
<1>12. CASE UNCHANGED vars
  BY <1>1, <1>12 DEF vars
<1> QED
  BY <1>2, <1>3, <1>4, <1>5, <1>6, <1>7, <1>8, <1>9, <1>10, <1>11, <1>12, Zenon
  DEF Next, Progress, Failure

-----------------------------------------------------------------------------
(* The parts of the invariant. *)

\* Steps that leave the group and the batches alone and undo no effect keep
\* the parts of the invariant that are about offsets.
LEMMA OffsetFrame ==
  ASSUME BatchInv, handled \subseteq handled', dlq \subseteq dlq',
         UNCHANGED <<log, committed, owner, position, messages>>
  PROVE  WithinLog' /\ ReadSafe' /\ BatchSafe' /\ CommittedSettled'
<1>1. \A m : Settled(m) => Settled(m)'
  BY SettledMonotone
<1>2. \A w \in Workers : Fetched(w)' = Fetched(w)
  BY DEF Fetched
<1>3. WithinLog' /\ CommittedSettled'
  BY <1>1, Zenon DEF BatchInv, WithinLog, CommittedSettled
<1>4. ReadSafe'
  BY <1>1, <1>2, Zenon DEF BatchInv, ReadSafe, TypeOK, GroupTypeOK
<1>5. BatchSafe'
  BY <1>1, <1>2 DEF BatchInv, BatchSafe
<1> QED BY <1>3, <1>4, <1>5

\* A step that undoes no effect and does not touch worker v keeps v's part.
LEMMA PhaseFrame ==
  ASSUME NEW v \in Workers, PhaseSafeAt(v), log' = log,
         handled \subseteq handled', dlq \subseteq dlq',
         phase'[v] = phase[v], messages'[v] = messages[v],
         cursor'[v] = cursor[v], failed'[v] = failed[v]
  PROVE  PhaseSafeAt(v)'
<1>1. \A m : Settled(m) => Settled(m)'
  BY SettledMonotone, Zenon
<1>2. Fetched(v)' = Fetched(v) /\ BatchEvents(v)' = BatchEvents(v)
  BY DEF Fetched, BatchEvents, MessageAt
<1> QED BY <1>1, <1>2, Zenon DEF PhaseSafeAt, MessageAt

\* Fetching extends a batch by the message behind everything read so far.
LEMMA FetchBatchStep ==
  ASSUME BatchInv, NEW w \in Workers, NEW p \in Partitions, FetchBatch(w, p)
  PROVE  WithinLog' /\ ReadSafe' /\ BatchSafe' /\ CommittedSettled' /\ PhaseSafe'
<1> DEFINE new == <<p, position[p] + 1>>
<1> USE DEF BatchInv
<1>1. /\ UNCHANGED <<log, committed, owner, handled, dlq, phase, cursor, failed>>
      /\ position' = [position EXCEPT ![p] = @ + 1]
      /\ messages' = [messages EXCEPT ![w] = Append(@, new)]
      /\ phase[w] = "fetch" /\ owner[p] = w /\ position[p] < Len(log[p])
  BY Zenon DEF FetchBatch, FetchMessage
<1>2. /\ position \in [Partitions -> Nat] /\ committed \in [Partitions -> Nat]
      /\ owner \in [Partitions -> Workers \cup {NoWorker}]
      /\ messages \in [Workers -> Seq(Positions)]
      /\ \A q \in Partitions : Len(log[q]) \in Nat
  BY LogType DEF TypeOK, GroupTypeOK
<1>3. \A m : Settled(m)' <=> Settled(m)
  BY <1>1 DEF Settled, MessageAt
<1>4. \A v \in Workers : v # w => Fetched(v)' = Fetched(v)
  BY <1>1, <1>2 DEF Fetched
<1>5. Fetched(w)' = Fetched(w) \cup {new}
  <2>1. messages[w] \in Seq(Positions) /\ messages'[w] = Append(messages[w], new)
    BY <1>1, <1>2, Zenon
  <2>2. /\ Len(messages'[w]) = Len(messages[w]) + 1 /\ Len(messages[w]) \in Nat
        /\ \A i \in 1 .. Len(messages[w]) : messages'[w][i] = messages[w][i]
        /\ messages'[w][Len(messages[w]) + 1] = new
    BY <2>1
  <2> HIDE DEF new
  <2>3. Fetched(w)' \subseteq Fetched(w) \cup {new}
    BY <2>2 DEF Fetched
  <2>4. ASSUME NEW m \in Fetched(w) PROVE m \in Fetched(w)'
    <3>1. PICK i \in 1 .. Len(messages[w]) : m = messages[w][i]
      BY <2>4 DEF Fetched
    <3>2. i \in 1 .. Len(messages'[w]) /\ m = messages'[w][i]
      BY <2>2, <3>1
    <3> QED BY <3>2 DEF Fetched
  <2>5. new \in Fetched(w)'
    <3>1. Len(messages[w]) + 1 \in 1 .. Len(messages'[w])
      BY <2>2
    <3> QED BY <2>2, <3>1, Zenon DEF Fetched
  <2> QED BY <2>3, <2>4, <2>5
<1>6. WithinLog' /\ CommittedSettled'
  BY <1>1, <1>2, <1>3, SMTT(30) DEF WithinLog, CommittedSettled
<1>7. \A o \in 1 .. position[p] : Settled(<<p, o>>) \/ <<p, o>> \in Fetched(w)
  BY <1>1, <1>2, NoWorkerAssumption, Zenon DEF ReadSafe
<1>8. ReadSafe'
  <2> SUFFICES ASSUME NEW q \in Partitions, owner[q] # NoWorker,
                      NEW o \in 1 .. position'[q]
               PROVE  Settled(<<q, o>>)' \/ <<q, o>> \in Fetched(owner[q])'
    BY <1>1 DEF ReadSafe
  <2>1. CASE q = p
    BY <1>1, <1>2, <1>3, <1>5, <1>7, <2>1
  <2>2. CASE q # p
    <3>1. position'[q] = position[q] /\ owner[q] \in Workers
      BY <1>1, <1>2, <2>2, Zenon
    <3>2. Settled(<<q, o>>) \/ <<q, o>> \in Fetched(owner[q])
      BY <3>1 DEF ReadSafe
    <3> QED BY <1>1, <1>3, <1>4, <1>5, <3>1, <3>2, Zenon
  <2> QED BY <2>1, <2>2
<1>9. BatchSafe'
  <2> SUFFICES ASSUME NEW v \in Workers, NEW m \in Fetched(v)', NEW o \in 1 .. m[2]
               PROVE  Settled(<<m[1], o>>)' \/ <<m[1], o>> \in Fetched(v)'
    BY DEF BatchSafe
  <2>1. CASE m \in Fetched(v)
    BY <1>3, <1>4, <1>5, <2>1, Zenon DEF BatchSafe
  <2>2. CASE m \notin Fetched(v)
    <3>1. v = w /\ m = new
      BY <1>4, <1>5, <2>2, Zenon
    <3>2. m[1] = p /\ o \in 1 .. position[p] + 1
      BY <3>1
    <3> QED BY <1>2, <1>3, <1>5, <1>7, <3>1, <3>2
  <2> QED BY <2>1, <2>2, Zenon
<1>10. PhaseSafe'
  <2>1. ASSUME NEW v \in Workers, v # w PROVE PhaseSafeAt(v)'
    BY <1>1, <1>2, <2>1, PhaseFrame, Zenon DEF PhaseSafe
  <2>2. PhaseSafeAt(w)'
    BY <1>1 DEF PhaseSafeAt
  <2> QED BY <2>1, <2>2, Zenon DEF PhaseSafe
<1> QED BY <1>6, <1>8, <1>9, <1>10, Zenon

\* A commit, acknowledged or not, of a batch whose messages are all settled.
LEMMA CommitStep ==
  ASSUME BatchInv, NEW w \in Workers, phase[w] = "commit",
         CommitMessages(Fetched(w)),
         UNCHANGED <<log, position, handled, dlq>>
  PROVE  /\ CommittedSettled'
         /\ WithinLog'
<1> USE DEF BatchInv
<1>1. \A m \in Fetched(w) : Settled(m)
  BY DEF PhaseSafe, PhaseSafeAt
<1>2. \A m : Settled(m) => Settled(m)'
  BY SettledMonotone, Zenon
<1>3. ASSUME NEW p \in Partitions, <<p, committed'[p]>> \in Fetched(w)
      PROVE  /\ \A o \in 1 .. committed'[p] : Settled(<<p, o>>)
             /\ committed'[p] <= Len(log[p])
  <2>1. \A o \in 1 .. committed'[p] :
            Settled(<<p, o>>) \/ <<p, o>> \in Fetched(w)
    BY <1>3, Zenon DEF BatchSafe
  <2>2. committed'[p] <= Len(log[p])
    BY <1>3, FetchedType, PositionType, Zenon
  <2> QED BY <1>1, <2>1, <2>2, Zenon
<1>4. CommittedSettled'
  <2> SUFFICES ASSUME NEW p \in Partitions, NEW o \in 1 .. committed'[p]
               PROVE  Settled(<<p, o>>)'
    BY DEF CommittedSettled
  <2>1. Settled(<<p, o>>)
    BY <1>3, CommitMessagesOffsets, Zenon DEF CommittedSettled
  <2> QED BY <1>2, <2>1, Zenon
<1>5. WithinLog'
  BY <1>3, CommitMessagesOffsets, Zenon DEF WithinLog
<1> QED BY <1>4, <1>5, Zenon

\* A worker that empties its batch keeps ReadSafe and BatchSafe when the batch
\* was settled or the worker no longer owns a partition.
LEMMA EmptyBatchStep ==
  ASSUME BatchInv, NEW w \in Workers,
         UNCHANGED <<log, position, handled, dlq>>,
         messages' = [messages EXCEPT ![w] = <<>>],
         \A p \in Partitions : owner'[p] \in {owner[p], NoWorker},
         \/ \A m \in Fetched(w) : Settled(m)
         \/ \A p \in Partitions : owner'[p] # w
  PROVE  ReadSafe' /\ BatchSafe'
<1> USE DEF BatchInv
<1>1. \A m : Settled(m) => Settled(m)'
  BY SettledMonotone, Zenon
<1>2. \A v \in Workers : v # w => Fetched(v)' = Fetched(v)
  BY Zenon DEF Fetched, TypeOK
<1>3. Fetched(w)' = {}
  BY DEF Fetched, TypeOK
<1>4. ReadSafe'
  <2> SUFFICES ASSUME NEW p \in Partitions, owner'[p] # NoWorker,
                      NEW o \in 1 .. position[p],
                      NEW v \in Workers, v = owner'[p], ~Settled(<<p, o>>)
               PROVE  <<p, o>> \in Fetched(v)'
    <3>1. \A p \in Partitions : owner'[p] # NoWorker => owner'[p] \in Workers
      BY Zenon DEF TypeOK, GroupTypeOK
    <3> QED BY <1>1, <3>1, Zenon DEF ReadSafe
  <2>1. <<p, o>> \in Fetched(v)
    BY Zenon DEF ReadSafe
  <2>2. v # w
    BY <2>1
  <2> QED BY <1>2, <2>1, <2>2, Zenon
<1>5. BatchSafe'
  <2> SUFFICES ASSUME NEW v \in Workers, NEW m \in Fetched(v)', NEW o \in 1 .. m[2]
               PROVE  Settled(<<m[1], o>>)' \/ <<m[1], o>> \in Fetched(v)'
    BY DEF BatchSafe
  <2>1. v # w
    BY <1>3, Zenon
  <2>2. Fetched(v)' = Fetched(v)
    BY <1>2, <2>1, Zenon
  <2>3. Settled(<<m[1], o>>) \/ <<m[1], o>> \in Fetched(v)
    BY <2>2, Zenon DEF BatchSafe
  <2> QED BY <1>1, <2>2, <2>3, Zenon
<1> QED BY <1>4, <1>5, Zenon

\* Effects of a step of worker w on the other workers and on the offsets, for
\* the steps of decodeBatch, the handler and deadLetterBatch.
LEMMA LocalStep ==
  ASSUME BatchInv, NEW w \in Workers,
         handled \subseteq handled', dlq \subseteq dlq',
         UNCHANGED <<log, committed, owner, position, messages>>,
         \A v \in Workers \ {w} : /\ phase'[v] = phase[v]
                                  /\ cursor'[v] = cursor[v]
                                  /\ failed'[v] = failed[v],
         TypeOK', PhaseSafeAt(w)'
  PROVE  BatchInv'
<1>1. \A v \in Workers : PhaseSafeAt(v)'
  BY PhaseFrame DEF BatchInv, PhaseSafe
<1> QED BY <1>1, OffsetFrame, Zenon DEF BatchInv, PhaseSafe

-----------------------------------------------------------------------------
\* Every step of runBatch and of the group preserves the invariant.
LEMMA InvStep == BatchInv /\ [Next]_vars => BatchInv'
<1> SUFFICES ASSUME BatchInv, [Next]_vars PROVE BatchInv'
  OBVIOUS
<1>0. TypeOK /\ TypeOK'
  BY TypeStep, Zenon DEF BatchInv
<1>t. /\ phase \in [Workers -> Phases]
      /\ messages \in [Workers -> Seq(Positions)]
      /\ cursor \in [Workers -> Nat \ {0}]
      /\ failed \in [Workers -> SUBSET Events]
      /\ \A w \in Workers : Len(messages[w]) \in Nat
  BY <1>0 DEF TypeOK
<1>1. ASSUME NEW w \in Workers, NEW p \in Partitions, FetchBatch(w, p)
      PROVE  BatchInv'
  BY <1>0, <1>1, FetchBatchStep, Zenon DEF BatchInv
<1>2. ASSUME NEW w \in Workers, FetchBatchEnd(w) PROVE BatchInv'
  <2>1. PhaseSafeAt(w)'
    BY <1>2, <1>t DEF FetchBatchEnd, Goto, PhaseSafeAt
  <2> QED BY <1>0, <1>2, <1>t, <2>1, LocalStep, Zenon DEF FetchBatchEnd, Goto
<1>3. ASSUME NEW w \in Workers, DecodeBatch(w) PROVE BatchInv'
  <2>1. PhaseSafeAt(w)'
    <3>1. phase'[w] = "decode" /\ cursor'[w] = cursor[w] + 1
          /\ messages' = messages /\ log' = log /\ dlq \subseteq dlq'
      BY <1>3, <1>t DEF DecodeBatch
    <3>2. MessageAt(messages[w][cursor[w]]).valid
          \/ messages[w][cursor[w]] \in dlq'
      BY <1>3, Zenon DEF DecodeBatch, Decoding
    <3>3. \A i \in 1 .. Len(messages[w]) : i < cursor[w] =>
             MessageAt(messages[w][i]).valid \/ messages[w][i] \in dlq
      BY <1>3, Zenon DEF BatchInv, PhaseSafe, PhaseSafeAt, DecodeBatch
    <3>4. \A i \in 1 .. Len(messages[w]) : i < cursor[w] + 1 =>
             MessageAt(messages[w][i]).valid \/ messages[w][i] \in dlq'
      <4> SUFFICES ASSUME NEW i \in 1 .. Len(messages[w]), i < cursor[w] + 1
                   PROVE  MessageAt(messages[w][i]).valid \/ messages[w][i] \in dlq'
        OBVIOUS
      <4>1. i < cursor[w] \/ i = cursor[w]
        BY <1>t
      <4> QED BY <3>1, <3>2, <3>3, <4>1, Zenon
    <3> QED BY <3>1, <3>4, Zenon DEF PhaseSafeAt, MessageAt
  <2> QED BY <1>0, <1>3, <1>t, <2>1, LocalStep, Zenon DEF DecodeBatch
<1>4. ASSUME NEW w \in Workers, DecodeBatchError(w) PROVE BatchInv'
  <2>1. PhaseSafeAt(w)'
    BY <1>4, <1>t DEF DecodeBatchError, PhaseSafeAt
  <2> QED BY <1>0, <1>4, <1>t, <2>1, LocalStep, Zenon DEF DecodeBatchError
<1>5. ASSUME NEW w \in Workers, DecodeBatchEnd(w) PROVE BatchInv'
  <2>1. \A m \in Fetched(w) : MessageAt(m).valid \/ m \in dlq
    <3>1. /\ cursor[w] > Len(messages[w])
          /\ \A i \in 1 .. Len(messages[w]) : i < cursor[w] =>
               MessageAt(messages[w][i]).valid \/ messages[w][i] \in dlq
      BY <1>5, Zenon DEF BatchInv, PhaseSafe, PhaseSafeAt, DecodeBatchEnd
    <3>2. cursor[w] \in Nat /\ Len(messages[w]) \in Nat
      BY <1>t
    <3>3. \A i \in 1 .. Len(messages[w]) : i < cursor[w]
      BY <3>1, <3>2
    <3> QED BY <3>1, <3>3, Zenon DEF Fetched
  <2>2. phase'[w] \in {"handle", "commit"}
        /\ (phase'[w] = "commit" => BatchEvents(w) = {})
    BY <1>5, <1>t DEF DecodeBatchEnd, Goto
  <2>3. BatchEvents(w) = {} => \A m \in Fetched(w) : m \in dlq
    BY <2>1 DEF BatchEvents
  <2>4. Fetched(w)' = Fetched(w) /\ log' = log /\ dlq' = dlq
    BY <1>5, Zenon DEF DecodeBatchEnd, Fetched
  <2>5. PhaseSafeAt(w)'
    BY <2>1, <2>2, <2>3, <2>4 DEF PhaseSafeAt, Settled, MessageAt
  <2> QED BY <1>0, <1>5, <1>t, <2>5, LocalStep, Zenon DEF DecodeBatchEnd, Goto
<1>6. ASSUME NEW w \in Workers, Handle(w) PROVE BatchInv'
  <2>1. \A m \in Fetched(w) : MessageAt(m).valid \/ m \in dlq
    BY <1>6, Zenon DEF BatchInv, PhaseSafe, PhaseSafeAt, Handle
  <2>2. /\ phase'[w] = "commit" /\ log' = log /\ dlq' = dlq
        /\ Fetched(w)' = Fetched(w) /\ handled' = handled \cup BatchEvents(w)
    BY <1>6, <1>t, Zenon DEF Handle, Goto, Fetched
  <2>3. \A m \in Fetched(w) : Settled(m)'
    BY <2>1, <2>2, Zenon DEF Settled, MessageAt, BatchEvents
  <2>4. PhaseSafeAt(w)'
    BY <2>2, <2>3 DEF PhaseSafeAt
  <2> QED BY <1>0, <1>6, <1>t, <2>4, LocalStep, Zenon DEF Handle, Goto
<1>7. ASSUME NEW w \in Workers, HandleError(w) PROVE BatchInv'
  <2>1. PhaseSafeAt(w)'
    BY <1>7, PhaseFrame DEF BatchInv, PhaseSafe, HandleError
  <2> QED BY <1>0, <1>7, <2>1, LocalStep, Zenon DEF HandleError
<1>8. ASSUME NEW w \in Workers, HandleTerminal(w) PROVE BatchInv'
  <2>1. \A m \in Fetched(w) : MessageAt(m).valid \/ m \in dlq
    BY <1>8 DEF BatchInv, PhaseSafe, PhaseSafeAt, HandleTerminal
  <2>2. /\ phase'[w] = "deadLetter" /\ log' = log /\ dlq' = dlq
        /\ messages' = messages
        /\ BatchEvents(w) \subseteq handled' \cup failed'[w]
        /\ handled \subseteq handled'
    BY <1>8, <1>t DEF HandleTerminal, Goto
  <2>3. Fetched(w)' = Fetched(w) /\ BatchEvents(w)' = BatchEvents(w)
    BY <2>2 DEF Fetched, BatchEvents, MessageAt
  <2>4. PhaseSafeAt(w)'
    BY <2>1, <2>2, <2>3 DEF PhaseSafeAt, MessageAt
  <2> QED BY <1>0, <1>8, <1>t, <2>2, <2>4, LocalStep, Zenon DEF HandleTerminal, Goto
<1>9. ASSUME NEW w \in Workers, DeadLetterBatch(w) PROVE BatchInv'
  <2>1. /\ \A m \in Fetched(w) : MessageAt(m).valid \/ m \in dlq
        /\ BatchEvents(w) \subseteq handled \cup failed[w]
    BY <1>9, Zenon DEF BatchInv, PhaseSafe, PhaseSafeAt, DeadLetterBatch
  <2>2. /\ phase'[w] = "commit" /\ log' = log /\ handled' = handled
        /\ dlq' = dlq \cup DlqMessages(w) /\ Fetched(w)' = Fetched(w)
    BY <1>9, <1>t DEF DeadLetterBatch, Goto, Fetched
  <2>3. ASSUME NEW m \in Fetched(w) PROVE Settled(m)'
    <3>1. CASE m \in dlq \/ ~MessageAt(m).valid
      BY <2>1, <2>2, <3>1 DEF Settled
    <3>2. CASE MessageAt(m).valid /\ MessageAt(m).id \in handled
      BY <2>2, <3>2, Zenon DEF Settled, MessageAt
    <3>3. CASE MessageAt(m).valid /\ MessageAt(m).id \in failed[w]
      <4>1. \E d \in dlq' : MessageAt(d).id = MessageAt(m).id
        BY <1>0, <2>2, <3>3, DlqMessagesCover
      <4> QED BY <2>2, <3>3, <4>1 DEF Settled, MessageAt
    <3>4. MessageAt(m).valid => MessageAt(m).id \in BatchEvents(w)
      BY DEF BatchEvents
    <3> QED BY <2>1, <3>1, <3>2, <3>3, <3>4
  <2>4. PhaseSafeAt(w)'
    BY <2>2, <2>3 DEF PhaseSafeAt
  <2> QED BY <1>0, <1>9, <1>t, <2>2, <2>4, LocalStep, Zenon DEF DeadLetterBatch, Goto
<1>10. ASSUME NEW w \in Workers, DeadLetterBatchError(w) PROVE BatchInv'
  <2>1. \A m \in Fetched(w) : MessageAt(m).valid \/ m \in dlq
    BY <1>10, Zenon DEF BatchInv, PhaseSafe, PhaseSafeAt, DeadLetterBatchError
  <2>2. /\ phase'[w] = "handle" /\ log' = log /\ dlq \subseteq dlq'
        /\ Fetched(w)' = Fetched(w)
    BY <1>10, <1>t, Zenon DEF DeadLetterBatchError, Goto, Fetched
  <2>3. PhaseSafeAt(w)'
    BY <2>1, <2>2, Zenon DEF PhaseSafeAt, MessageAt
  <2> QED BY <1>0, <1>10, <1>t, <2>2, <2>3, LocalStep, Zenon DEF DeadLetterBatchError, Goto
<1>11. ASSUME NEW w \in Workers, Commit(w) PROVE BatchInv'
  <2>1. CommittedSettled' /\ WithinLog'
    BY <1>11, CommitStep, Zenon DEF Commit
  <2>2. \A m \in Fetched(w) : Settled(m)
    BY <1>11, Zenon DEF BatchInv, PhaseSafe, PhaseSafeAt, Commit
  <2>3. ReadSafe' /\ BatchSafe'
    BY <1>11, <2>2, EmptyBatchStep, Zenon DEF Commit
  <2>4. PhaseSafeAt(w)'
    BY <1>11, <1>t, Zenon DEF Commit, Goto, PhaseSafeAt
  <2>5. ASSUME NEW v \in Workers, v # w PROVE PhaseSafeAt(v)'
    BY <1>11, <1>t, <2>5, PhaseFrame, Zenon DEF BatchInv, PhaseSafe, Commit, Goto
  <2> QED BY <1>0, <2>1, <2>3, <2>4, <2>5, Zenon DEF BatchInv, PhaseSafe
<1>12. ASSUME NEW w \in Workers, CommitError(w) PROVE BatchInv'
  <2>1. CommittedSettled' /\ WithinLog'
    BY <1>12, CommitStep, Zenon DEF CommitError
  <2>2. \A m : Settled(m)' <=> Settled(m)
    BY <1>12, Zenon DEF CommitError, Settled, MessageAt
  <2>3. \A v \in Workers : Fetched(v)' = Fetched(v)
    BY <1>12, Zenon DEF CommitError, Fetched
  <2>4. ReadSafe' /\ BatchSafe'
    BY <1>0, <1>12, <2>2, <2>3, SMTT(30)
    DEF BatchInv, ReadSafe, BatchSafe, CommitError, TypeOK, GroupTypeOK
  <2>5. PhaseSafe'
    BY <1>12, PhaseFrame DEF BatchInv, PhaseSafe, CommitError
  <2> QED BY <1>0, <2>1, <2>4, <2>5, Zenon DEF BatchInv
<1>13. ASSUME NEW w \in Workers, Stop(w) PROVE BatchInv'
  <2>1. \A m : Settled(m)' <=> Settled(m)
    BY <1>13, Zenon DEF Stop, Settled, MessageAt
  <2>2. CommittedSettled' /\ WithinLog'
    BY <1>13, <2>1 DEF BatchInv, CommittedSettled, WithinLog, Stop
  <2>3. \A p \in Partitions : owner'[p] \in {owner[p], NoWorker} /\ owner'[p] # w
    BY <1>13, NoWorkerAssumption, Zenon DEF Stop, Leave
  <2>4. ReadSafe' /\ BatchSafe'
    BY <1>13, <2>3, EmptyBatchStep, Zenon DEF Stop
  <2>5. PhaseSafeAt(w)'
    BY <1>13, <1>t, Zenon DEF Stop, Goto, PhaseSafeAt
  <2>6. ASSUME NEW v \in Workers, v # w PROVE PhaseSafeAt(v)'
    BY <1>13, <1>t, <2>6, PhaseFrame, Zenon DEF BatchInv, PhaseSafe, Stop, Goto
  <2> QED BY <1>0, <2>2, <2>4, <2>5, <2>6 DEF BatchInv, PhaseSafe
<1>14. ASSUME NEW w \in Workers, Start(w) PROVE BatchInv'
  <2>1. PhaseSafeAt(w)'
    BY <1>14, <1>t, Zenon DEF Start, Goto, PhaseSafeAt
  <2> QED BY <1>0, <1>14, <1>t, <2>1, LocalStep, Zenon DEF Start, Goto
<1>15. ASSUME Join \/ Rebalance PROVE BatchInv'
  <2>1. /\ UNCHANGED <<log, committed, handled, dlq, phase, messages, cursor, failed>>
        /\ position' = committed
    BY <1>15, Zenon DEF Join, Rebalance, Assign
  <2>2. \A m : Settled(m)' <=> Settled(m)
    BY <2>1, Zenon DEF Settled, MessageAt
  <2>3. \A v \in Workers : Fetched(v)' = Fetched(v)
    BY <2>1, Zenon DEF Fetched
  <2>4. CommittedSettled' /\ WithinLog'
    BY <2>1, <2>2, Zenon DEF BatchInv, CommittedSettled, WithinLog
  <2>5. ReadSafe'
    BY <2>1, <2>2, Zenon DEF BatchInv, ReadSafe, CommittedSettled
  <2>6. BatchSafe'
    BY <2>2, <2>3 DEF BatchInv, BatchSafe
  <2>7. PhaseSafe'
    BY <2>1, PhaseFrame, Zenon DEF BatchInv, PhaseSafe
  <2> QED BY <1>0, <2>4, <2>5, <2>6, <2>7, Zenon DEF BatchInv
<1>16. CASE UNCHANGED vars
  <2>1. PhaseSafe'
    BY <1>16, PhaseFrame DEF BatchInv, PhaseSafe, vars
  <2> QED BY <1>0, <1>16, <2>1, OffsetFrame, Zenon DEF BatchInv, vars
<1> QED
  BY <1>1, <1>2, <1>3, <1>4, <1>5, <1>6, <1>7, <1>8, <1>9, <1>10, <1>11,
     <1>12, <1>13, <1>14, <1>15, <1>16, Zenon
  DEF Next, Progress, Failure

\* Type correctness of runBatch and of the group it works for.
THEOREM TypeCorrect == Spec => []TypeOK
<1>1. Init => TypeOK
  BY InitInv DEF BatchInv
<1> QED BY <1>1, TypeStep, PTL DEF Spec

\* The inductive invariant of runBatch.
THEOREM BatchInvariant == Spec => []BatchInv
BY InitInv, InvStep, PTL DEF Spec

\* At-least-once: runBatch never commits past a message that was neither
\* handled nor dead-lettered, whatever fails, crashes or is rebalanced.
THEOREM AtLeastOnceSafety == Spec => []CommittedSettled
<1>1. BatchInv => CommittedSettled
  BY DEF BatchInv
<1> QED BY <1>1, BatchInvariant, PTL

-----------------------------------------------------------------------------
\* A step of runBatch either settles messages and leaves the offsets alone, or
\* commits and leaves what is settled alone.
LEMMA SettleOrCommit ==
  ASSUME BatchInv, [Next]_vars
  PROVE  /\ log' = log /\ handled \subseteq handled' /\ dlq \subseteq dlq'
         /\ committed' = committed \/ UNCHANGED <<handled, dlq>>
<1>1. CASE \E w \in Workers : Progress(w)
  BY <1>1, Zenon DEF Progress, FetchBatch, FetchBatchEnd, DecodeBatch, DecodeBatchEnd,
     Handle, HandleTerminal, DeadLetterBatch, Commit, Start
<1>2. CASE \E w \in Workers : Failure(w)
  BY <1>2, Zenon DEF Failure, DecodeBatchError, HandleError, DeadLetterBatchError,
     CommitError, Stop
<1>3. CASE Join \/ Rebalance \/ UNCHANGED vars
  BY <1>3 DEF Join, Rebalance, vars
<1> QED BY <1>1, <1>2, <1>3, Zenon DEF Next

\* runBatch implements the abstract at-least-once consumer.
THEOREM Refinement == Spec => ImplementsAtLeastOnce
<1> DEFINE S == [p \in Partitions |-> {o \in Offsets(p) : Settled(<<p, o>>)}]
<1>1. Init => ALO!Init
  <2> SUFFICES ASSUME Init PROVE ALO!Init
    OBVIOUS
  <2>1. log \in [Partitions -> Seq(Entry)]
    BY BacklogsAssumption, Zenon DEF Init, GroupInit
  <2>2. ASSUME NEW p \in Partitions, NEW o \in Offsets(p) PROVE ~Settled(<<p, o>>)
    BY DEF Init, GroupInit, Settled
  <2>3. \A p \in Partitions : {o \in Offsets(p) : Settled(<<p, o>>)} = {}
    BY <2>2, Zenon
  <2> QED BY <2>3, Zenon DEF ALO!Init, Init, GroupInit
<1>2. BatchInv /\ BatchInv' /\ [Next]_vars => [ALO!Next]_<<S, committed>>
  <2> SUFFICES ASSUME BatchInv, BatchInv', [Next]_vars
               PROVE  [ALO!Next]_<<S, committed>>
    OBVIOUS
  <2>1. /\ log' = log /\ handled \subseteq handled' /\ dlq \subseteq dlq'
        /\ committed' = committed \/ UNCHANGED <<handled, dlq>>
    BY SettleOrCommit, Zenon
  <2>2. \A m : Settled(m) => Settled(m)'
    BY <2>1, SettledMonotone, Zenon
  <2>3. CASE committed' = committed
    <3>1. \A p \in Partitions : S[p] \subseteq S'[p]
      BY <2>1, <2>2, Zenon DEF Offsets
    <3> QED BY <2>3, <3>1, Zenon DEF ALO!Next, ALO!Settle
  <2>4. CASE UNCHANGED <<handled, dlq>>
    <3>1. \A m : Settled(m)' <=> Settled(m)
      BY <2>1, <2>4, Zenon DEF Settled, MessageAt
    <3>2. S' = S
      BY <2>1, <3>1, Zenon DEF Offsets
    <3>3. committed' \in [Partitions -> Nat]
      BY Zenon DEF BatchInv, TypeOK, GroupTypeOK
    <3>4. ASSUME NEW p \in Partitions, NEW o \in 1 .. committed'[p]
          PROVE  o \in S[p]
      <4>1. Settled(<<p, o>>)
        BY <3>1, Zenon DEF BatchInv, CommittedSettled
      <4>2. committed'[p] <= Len(log[p]) /\ Len(log[p]) \in Nat
        BY <2>1, LogType DEF BatchInv, WithinLog
      <4> QED BY <3>3, <4>1, <4>2 DEF Offsets
    <3> QED BY <3>2, <3>3, <3>4, Zenon DEF ALO!Next, ALO!Commit
  <2> QED BY <2>1, <2>3, <2>4, Zenon
<1> QED
  BY <1>1, <1>2, BatchInvariant, PTL DEF Spec, ImplementsAtLeastOnce, ALO!Spec
=============================================================================
