------------------------ MODULE SingleConsumerProofs ------------------------
(* Proofs about SingleConsumer, for any backlog, any number of partitions  *)
(* and workers, and any bound on the faults.                               *)
EXTENDS SingleConsumer, TLAPS

\* The log is a sequence of entries per partition.
LEMMA LogType ==
  ASSUME TypeOK
  PROVE  log \in [Partitions -> Seq(Entry)]
BY BacklogsAssumption DEF TypeOK, GroupTypeOK

\* A position is a partition and an offset of its log.
LEMMA PositionType ==
  ASSUME TypeOK, NEW m \in Positions
  PROVE  /\ m = <<m[1], m[2]>> /\ m[1] \in Partitions /\ m[2] \in Nat \ {0}
         /\ MessageAt(m) \in Entry
<1>1. PICK p \in Partitions : m \in {p} \X Offsets(p)
  BY DEF Positions
<1>2. log[p] \in Seq(Entry) /\ Len(log[p]) \in Nat
  BY LogType
<1>3. m = <<m[1], m[2]>> /\ m[1] = p /\ m[2] \in 1 .. Len(log[p])
  BY <1>1 DEF Offsets
<1> QED BY <1>2, <1>3 DEF MessageAt

\* A worker between two fetches has a message of the log.
LEMMA MessageType ==
  ASSUME SingleInv, NEW w \in Workers, phase[w] \notin {"fetch", "down"}
  PROVE  msg[w] \in Positions /\ msg[w] # NoMessage
BY DEF SingleInv, TypeOK, MessageSafe

\* What is settled or errored stays so: nothing is undone.
LEMMA PassedMonotone ==
  ASSUME NEW m, log' = log, handled \subseteq handled', dlq \subseteq dlq',
         errored \subseteq errored'
  PROVE  (Settled(m) => Settled(m)') /\ (Passed(m) => Passed(m)')
BY DEF Settled, Passed, MessageAt

\* A commit moves the offset of the partition of its message, to the message.
LEMMA CommitOffsets ==
  ASSUME TypeOK, NEW m \in Positions, CommitMessages({m})
  PROVE  /\ committed' \in [Partitions -> Nat]
         /\ \A p \in Partitions : \/ committed'[p] = committed[p]
                                  \/ p = m[1] /\ committed'[p] = m[2]
<1>1. m[2] \in Nat /\ committed \in [Partitions -> Nat]
  BY PositionType DEF TypeOK, GroupTypeOK
<1>2. committed' \in [Partitions -> Nat]
  BY <1>1 DEF CommitMessages
<1>3. ASSUME NEW p \in Partitions
      PROVE  committed'[p] = committed[p] \/ (p = m[1] /\ committed'[p] = m[2])
  <2> DEFINE at == {y[2] : y \in {x \in {m} : x[1] = p}}
  <2>1. CASE p # m[1]
    <3>1. at = {}
      BY <2>1
    <3> QED BY <3>1 DEF CommitMessages
  <2>2. CASE p = m[1]
    <3>1. at = {m[2]}
      BY <2>2
    <3> QED BY <2>2, <3>1 DEF CommitMessages
  <2> QED BY <2>1, <2>2
<1> QED BY <1>2, <1>3

-----------------------------------------------------------------------------
\* Consumers start without a message and with nothing committed.
LEMMA InitInv == Init => SingleInv
<1> SUFFICES ASSUME Init PROVE SingleInv
  OBVIOUS
<1>1. TypeOK
  BY MaxFaultsAssumption DEF Init, GroupInit, TypeOK, GroupTypeOK, Phases
<1>2. OnlyErroredLost /\ ReadSafe
  BY DEF Init, GroupInit, OnlyErroredLost, ReadSafe
<1>3. \A w \in Workers : MessageSafe(w)
  BY DEF Init, MessageSafe
<1> QED BY <1>1, <1>2, <1>3 DEF SingleInv

\* What the steps of a worker that leave the group alone share: they undo
\* nothing, commit only what is passed, and a message that is let go is passed.
LEMMA WorkerStep ==
  ASSUME SingleInv, NEW w \in Workers, TypeOK',
         UNCHANGED <<log, owner, position>>,
         handled \subseteq handled', dlq \subseteq dlq', errored \subseteq errored',
         \A v \in Workers \ {w} : phase'[v] = phase[v] /\ msg'[v] = msg[v],
         MessageSafe(w)',
         NEW m, m = msg[w], msg'[w] = m \/ Passed(m)',
         \A p \in Partitions : \A o \in 1 .. committed'[p] : Passed(<<p, o>>)'
  PROVE  SingleInv'
<1>1. \A x : (Settled(x) => Settled(x)') /\ (Passed(x) => Passed(x)')
  BY PassedMonotone
<1>2. OnlyErroredLost'
  BY DEF OnlyErroredLost, Passed
<1>3. ReadSafe'
  <2> SUFFICES ASSUME NEW p \in Partitions, owner[p] # NoWorker,
                      NEW o \in 1 .. position[p]
               PROVE  Passed(<<p, o>>)' \/ msg'[owner[p]] = <<p, o>>
    BY DEF ReadSafe
  <2>1. owner[p] \in Workers
    BY DEF SingleInv, TypeOK, GroupTypeOK
  <2>2. Passed(<<p, o>>) \/ msg[owner[p]] = <<p, o>>
    BY DEF SingleInv, ReadSafe
  <2>3. CASE owner[p] = w
    BY <1>1, <2>2, <2>3
  <2>4. CASE owner[p] # w
    BY <1>1, <2>1, <2>2, <2>4
  <2> QED BY <2>3, <2>4
<1>4. ASSUME NEW v \in Workers PROVE MessageSafe(v)'
  <2>1. CASE v # w
    BY <1>1, <2>1 DEF SingleInv, MessageSafe
  <2> QED BY <2>1
<1> QED BY <1>2, <1>3, <1>4 DEF SingleInv

\* Fetching takes the message behind everything the owner has read.
LEMMA FetchStep ==
  ASSUME SingleInv, NEW w \in Workers, NEW p \in Partitions, Fetch(w, p)
  PROVE  SingleInv'
<1> DEFINE new == <<p, position[p] + 1>>
<1>1. /\ UNCHANGED <<log, committed, owner, handled, dlq, faults, errored>>
      /\ position' = [position EXCEPT ![p] = @ + 1]
      /\ msg' = [msg EXCEPT ![w] = new]
      /\ phase' = [phase EXCEPT ![w] = "process"]
      /\ phase[w] = "fetch" /\ owner[p] = w /\ position[p] < Len(log[p])
  BY DEF Fetch, FetchMessage, Goto
<1>2. /\ TypeOK /\ position \in [Partitions -> Nat]
      /\ owner \in [Partitions -> Workers \cup {NoWorker}]
      /\ msg \in [Workers -> Positions \cup {NoMessage}] /\ phase \in [Workers -> Phases]
      /\ Len(log[p]) \in Nat
  BY LogType DEF SingleInv, TypeOK, GroupTypeOK
<1>3. \A m : (Settled(m)' <=> Settled(m)) /\ (Passed(m)' <=> Passed(m))
  BY <1>1 DEF Settled, Passed, MessageAt
<1>4. TypeOK'
  <2>1. Positions' = Positions
    BY <1>1 DEF Positions, Offsets
  <2>2. new \in Positions
    BY <1>1, <1>2 DEF Positions, Offsets
  <2>3. msg' \in [Workers -> Positions \cup {NoMessage}]
    BY <1>1, <1>2, <2>2
  <2>4. phase' \in [Workers -> Phases] /\ position' \in [Partitions -> Nat]
    BY <1>1, <1>2 DEF Phases
  <2> QED BY <1>1, <1>2, <2>1, <2>3, <2>4 DEF TypeOK, GroupTypeOK
<1>5. msg[w] = NoMessage /\ \A q \in Partitions : \A o \in 1 .. position[q] :
         owner[q] = w => Passed(<<q, o>>)
  <2>1. msg[w] = NoMessage
    BY <1>1 DEF SingleInv, MessageSafe
  <2>2. \A q, o : <<q, o>> # NoMessage
    BY DEF NoMessage
  <2> QED BY <2>1, <2>2, NoWorkerAssumption DEF SingleInv, ReadSafe
<1>6. OnlyErroredLost'
  BY <1>1, <1>3 DEF SingleInv, OnlyErroredLost, Passed
<1>7. ReadSafe'
  <2> SUFFICES ASSUME NEW q \in Partitions, owner[q] # NoWorker,
                      NEW o \in 1 .. position'[q]
               PROVE  Passed(<<q, o>>) \/ msg'[owner[q]] = <<q, o>>
    BY <1>1, <1>3 DEF ReadSafe
  <2>1. CASE q = p
    BY <1>1, <1>2, <1>5, <2>1
  <2>2. CASE q # p /\ owner[q] = w
    BY <1>1, <1>2, <1>5, <2>2
  <2>3. CASE q # p /\ owner[q] # w
    <3>1. position'[q] = position[q] /\ msg'[owner[q]] = msg[owner[q]]
      BY <1>1, <1>2, <2>3
    <3> QED BY <3>1 DEF SingleInv, ReadSafe
  <2> QED BY <2>1, <2>2, <2>3
<1>8. ASSUME NEW v \in Workers PROVE MessageSafe(v)'
  <2>1. CASE v # w
    BY <1>1, <1>2, <1>3, <2>1 DEF SingleInv, MessageSafe
  <2>2. CASE v = w
    <3>1. msg'[w] = new /\ phase'[w] = "process" /\ new # NoMessage
      BY <1>1, <1>2 DEF NoMessage
    <3>2. \A o \in 1 .. (position[p] + 1) - 1 : Passed(<<p, o>>)'
      BY <1>1, <1>2, <1>3, <1>5
    <3> QED BY <2>2, <3>1, <3>2 DEF MessageSafe
  <2> QED BY <2>1, <2>2
<1> QED BY <1>4, <1>6, <1>7, <1>8 DEF SingleInv

\* The steps of processMessage, and what follows when it returns an error.
LEMMA ProcessStep ==
  ASSUME SingleInv, NEW w \in Workers,
         Process(w) \/ WriteDeadLetter(w) \/ Commit(w) \/ ProcessError(w)
  PROVE  SingleInv'
<1>m. PICK m : m = msg[w]
  OBVIOUS
<1>0. TypeOK /\ phase[w] \notin {"fetch", "down"} /\ MessageSafe(w)
  BY DEF SingleInv, Process, WriteDeadLetter, Commit, ProcessError
<1>1. m \in Positions /\ m # NoMessage
  BY <1>0, <1>m, MessageType
<1>2. m = <<m[1], m[2]>> /\ m[1] \in Partitions /\ m[2] \in Nat \ {0} /\ MessageAt(m) \in Entry
  BY <1>0, <1>1, PositionType
<1>3. MessageAt(m).valid => MessageAt(m).id \in Events
  BY <1>2 DEF Entry
<1>4. /\ phase \in [Workers -> Phases]
      /\ msg \in [Workers -> Positions \cup {NoMessage}]
      /\ committed \in [Partitions -> Nat] /\ errored \subseteq Positions
      /\ handled \subseteq Events /\ dlq \subseteq Positions /\ faults \in 0 .. MaxFaults
  BY <1>0 DEF TypeOK, GroupTypeOK
<1>5. UNCHANGED <<log, owner, position>> /\ Positions' = Positions
  BY DEF Process, WriteDeadLetter, Commit, ProcessError, Positions, Offsets
<1>6. \/ msg' = msg /\ errored' = errored
      \/ msg' = [msg EXCEPT ![w] = NoMessage] /\ errored' \in {errored, errored \cup {m}}
  BY <1>m DEF Process, WriteDeadLetter, Commit, ProcessError
<1>7. /\ handled' \in {handled} \cup {handled \cup {x} : x \in Events}
      /\ dlq' \in {dlq, dlq \cup {m}} /\ faults' \in 0 .. MaxFaults
  <2>1. Fault => faults' \in 0 .. MaxFaults
    BY <1>4, MaxFaultsAssumption DEF Fault
  <2> QED BY <1>m, <1>3, <1>4, <2>1 DEF Process, WriteDeadLetter, Commit, ProcessError
<1>8. committed' = committed \/ (CommitMessages({m}) /\ phase[w] = "commit")
  BY <1>m DEF Process, WriteDeadLetter, Commit, ProcessError
<1>9. PICK ph \in Phases : phase' = [phase EXCEPT ![w] = ph]
  BY DEF Process, WriteDeadLetter, Commit, ProcessError, Goto, Phases
<1>10. /\ handled \subseteq handled' /\ dlq \subseteq dlq' /\ errored \subseteq errored'
       /\ handled' \subseteq Events /\ dlq' \subseteq Positions /\ errored' \subseteq Positions
  BY <1>1, <1>4, <1>6, <1>7
<1>11. \A x : (Settled(x) => Settled(x)') /\ (Passed(x) => Passed(x)')
  BY <1>5, <1>10, PassedMonotone
<1>12. /\ committed' \in [Partitions -> Nat]
       /\ \A p \in Partitions : \/ committed'[p] = committed[p]
             \/ (p = m[1] /\ committed'[p] = m[2] /\ phase[w] = "commit")
  BY <1>0, <1>1, <1>4, <1>8, CommitOffsets
<1>13. TypeOK'
  <2>1. msg' \in [Workers -> Positions \cup {NoMessage}] /\ phase' \in [Workers -> Phases]
    BY <1>4, <1>6, <1>9
  <2> QED BY <1>0, <1>5, <1>7, <1>10, <1>12, <2>1 DEF TypeOK, GroupTypeOK
<1>14. ASSUME NEW p \in Partitions, NEW o \in 1 .. committed'[p]
       PROVE  Passed(<<p, o>>)'
  <2>1. CASE committed'[p] = committed[p]
    BY <1>11, <2>1 DEF SingleInv, OnlyErroredLost, Passed
  <2>2. CASE p = m[1] /\ committed'[p] = m[2] /\ phase[w] = "commit"
    <3>1. Settled(m) /\ \A i \in 1 .. m[2] - 1 : Passed(<<p, i>>)
      BY <1>0, <1>1, <1>m, <2>2 DEF MessageSafe
    <3>2. o = m[2] \/ o \in 1 .. m[2] - 1
      BY <1>2, <2>2
    <3> QED BY <1>2, <1>11, <2>2, <3>1, <3>2 DEF Passed
  <2> QED BY <1>12, <2>1, <2>2
<1>15. MessageSafe(w)' /\ (msg'[w] = m \/ Passed(m)')
  <2>s. msg[w] = m /\ \A o \in 1 .. m[2] - 1 : Passed(<<m[1], o>>)
    BY <1>0, <1>1, <1>m DEF MessageSafe
  <2>t. UNCHANGED msg => msg'[w] = m
    BY <2>s
  <2>u. m # NoMessage
    BY <1>1
  <2>1. CASE Process(w)
    <3>1. msg' = msg /\ phase'[w] \in {"commit", "deadLetter"}
      BY <1>4, <2>1 DEF Process, Goto
    <3>2. phase'[w] = "commit" => Settled(m)'
      <4>1. ASSUME phase'[w] = "commit"
            PROVE  MessageAt(m).valid /\ handled' = handled \cup {MessageAt(m).id}
        BY <1>4, <1>m, <2>1, <4>1 DEF Process, Goto
      <4> QED BY <1>5, <4>1 DEF Settled, MessageAt
    <3>3. \A o \in 1 .. m[2] - 1 : Passed(<<m[1], o>>)'
      BY <1>11, <2>s
    <3> QED BY <2>s, <2>t, <2>u, <3>1, <3>2, <3>3 DEF MessageSafe
  <2>2. CASE WriteDeadLetter(w)
    <3>1. msg' = msg /\ phase'[w] = "commit" /\ m \in dlq'
      BY <1>4, <1>m, <2>2 DEF WriteDeadLetter, Goto
    <3>2. Settled(m)'
      BY <3>1 DEF Settled
    <3>3. \A o \in 1 .. m[2] - 1 : Passed(<<m[1], o>>)'
      BY <1>11, <2>s
    <3> QED BY <2>s, <2>t, <2>u, <3>1, <3>2, <3>3 DEF MessageSafe
  <2>3. CASE Commit(w)
    <3>1. msg'[w] = NoMessage /\ phase'[w] = "fetch" /\ Settled(m)
      BY <1>0, <1>4, <1>m, <2>3 DEF Commit, Goto, MessageSafe
    <3> QED BY <1>11, <2>s, <3>1 DEF MessageSafe, Passed
  <2>4. CASE ProcessError(w)
    <3>1. msg'[w] = NoMessage /\ phase'[w] = "fetch" /\ m \in errored'
      BY <1>4, <1>m, <2>4 DEF ProcessError, Goto
    <3> QED BY <2>s, <3>1 DEF MessageSafe, Passed
  <2> QED BY <2>1, <2>2, <2>3, <2>4
<1>16. \A v \in Workers \ {w} : phase'[v] = phase[v] /\ msg'[v] = msg[v]
  BY <1>4, <1>6, <1>9
<1> QED BY <1>m, <1>5, <1>10, <1>13, <1>14, <1>15, <1>16, WorkerStep

\* A worker stops, starts, or the group assigns its partitions anew.
LEMMA GroupStep ==
  ASSUME SingleInv,
         (\E w \in Workers : Stop(w) \/ Start(w)) \/ Join \/ Rebalance \/ UNCHANGED vars
  PROVE  SingleInv'
<1>t. /\ TypeOK /\ committed \in [Partitions -> Nat] /\ faults \in 0 .. MaxFaults
      /\ owner \in [Partitions -> Workers \cup {NoWorker}]
      /\ phase \in [Workers -> Phases]
      /\ msg \in [Workers -> Positions \cup {NoMessage}]
  BY DEF SingleInv, TypeOK, GroupTypeOK
<1>1. UNCHANGED <<log, committed, handled, dlq, errored>> /\ Positions' = Positions
  BY DEF Stop, Start, Join, Rebalance, vars, Positions, Offsets
<1>2. \A m : (Settled(m)' <=> Settled(m)) /\ (Passed(m)' <=> Passed(m))
  BY <1>1 DEF Settled, Passed, MessageAt
<1>3. OnlyErroredLost'
  BY <1>1, <1>2 DEF SingleInv, OnlyErroredLost, Passed
<1>4. faults' \in 0 .. MaxFaults
  BY <1>t, MaxFaultsAssumption DEF Stop, Start, Join, Rebalance, vars, Fault
<1>5. CASE \E w \in Workers : Stop(w)
  <2>1. PICK w \in Workers : Stop(w)
    BY <1>5
  <2>2. /\ phase' = [phase EXCEPT ![w] = "down"]
        /\ msg' = [msg EXCEPT ![w] = NoMessage] /\ position' = position
        /\ owner' = [p \in Partitions |-> IF owner[p] = w THEN NoWorker ELSE owner[p]]
    BY <2>1 DEF Stop, Goto, Leave
  <2>3. TypeOK'
    <3>1. owner' \in [Partitions -> Workers \cup {NoWorker}]
      BY <1>t, <2>2
    <3>2. phase' \in [Workers -> Phases] /\ msg' \in [Workers -> Positions \cup {NoMessage}]
      BY <1>t, <2>2 DEF Phases
    <3> QED BY <1>t, <1>1, <1>4, <2>2, <3>1, <3>2 DEF TypeOK, GroupTypeOK
  <2>4. ReadSafe'
    <3> SUFFICES ASSUME NEW p \in Partitions, owner'[p] # NoWorker,
                        NEW o \in 1 .. position[p]
                 PROVE  Passed(<<p, o>>) \/ msg'[owner'[p]] = <<p, o>>
      BY <1>2, <2>2 DEF ReadSafe
    <3>1. owner'[p] = owner[p] /\ owner[p] # w /\ owner[p] \in Workers
      BY <1>t, <2>2
    <3>2. msg'[owner[p]] = msg[owner[p]]
      BY <1>t, <2>2, <3>1
    <3> QED BY <3>1, <3>2 DEF SingleInv, ReadSafe
  <2>5. ASSUME NEW v \in Workers PROVE MessageSafe(v)'
    <3>1. CASE v # w
      BY <1>t, <1>2, <2>2, <3>1 DEF SingleInv, MessageSafe
    <3>2. CASE v = w
      BY <1>t, <2>2, <3>2 DEF MessageSafe
    <3> QED BY <3>1, <3>2
  <2> QED BY <1>3, <2>3, <2>4, <2>5 DEF SingleInv
<1>6. CASE \E w \in Workers : Start(w)
  <2>1. PICK w \in Workers : Start(w)
    BY <1>6
  <2>2. /\ phase' = [phase EXCEPT ![w] = "fetch"] /\ phase[w] = "down"
        /\ msg' = msg /\ position' = position /\ owner' = owner
    BY <2>1 DEF Start, Goto
  <2>3. TypeOK'
    <3>1. phase' \in [Workers -> Phases]
      BY <1>t, <2>2 DEF Phases
    <3> QED BY <1>t, <1>1, <1>4, <2>2, <3>1 DEF TypeOK, GroupTypeOK
  <2>4. ReadSafe'
    BY <1>2, <2>2 DEF SingleInv, ReadSafe
  <2>5. ASSUME NEW v \in Workers PROVE MessageSafe(v)'
    <3>1. CASE v # w
      BY <1>t, <1>2, <2>2, <3>1 DEF SingleInv, MessageSafe
    <3>2. CASE v = w
      <4>1. msg[w] = NoMessage
        BY <2>2 DEF SingleInv, MessageSafe
      <4> QED BY <1>t, <2>2, <3>2, <4>1 DEF MessageSafe
    <3> QED BY <3>1, <3>2
  <2> QED BY <1>3, <2>3, <2>4, <2>5 DEF SingleInv
<1>7. CASE Join \/ Rebalance \/ UNCHANGED vars
  <2>1. UNCHANGED <<phase, msg>>
    BY <1>7 DEF Join, Rebalance, vars
  <2>2. \/ owner' \in [Partitions -> Members] /\ position' = committed
        \/ owner' = owner /\ position' = position
    BY <1>7 DEF Join, Rebalance, Assign, vars
  <2>3. TypeOK'
    <3>1. owner' \in [Partitions -> Workers \cup {NoWorker}]
      BY <1>t, <2>2 DEF Members
    <3> QED BY <1>t, <1>1, <1>4, <2>1, <2>2, <3>1 DEF TypeOK, GroupTypeOK
  <2>4. ReadSafe'
    <3>1. CASE position' = committed
      BY <1>2, <1>3, <1>1, <3>1 DEF ReadSafe, OnlyErroredLost, Passed
    <3>2. CASE owner' = owner /\ position' = position
      BY <1>2, <2>1, <3>2 DEF SingleInv, ReadSafe
    <3> QED BY <2>2, <3>1, <3>2
  <2>5. \A v \in Workers : MessageSafe(v)'
    BY <1>2, <2>1 DEF SingleInv, MessageSafe
  <2> QED BY <1>3, <2>3, <2>4, <2>5 DEF SingleInv
<1> QED BY <1>5, <1>6, <1>7

-----------------------------------------------------------------------------
\* SingleInv is invariant: through crashes, rebalances and failed calls, the
\* consumer has passed only messages that are settled or errored.
THEOREM SingleInvariant == Spec => []SingleInv
<1>1. Init => SingleInv
  BY InitInv
<1>2. SingleInv /\ [Next]_vars => SingleInv'
  BY FetchStep, ProcessStep, GroupStep DEF Next
<1> QED BY <1>1, <1>2, PTL DEF Spec

\* runSingle loses no message but those whose own processing returned an
\* error, whatever crashes and however the partitions move.
THEOREM LosesOnlyErrored == Spec => []OnlyErroredLost
<1>1. SingleInv => OnlyErroredLost
  BY DEF SingleInv
<1> QED BY <1>1, SingleInvariant, PTL
=============================================================================
