-------------------------- MODULE DispatcherProofs --------------------------
(* Proofs about Dispatcher, for any number of callers, any threshold,      *)
(* cooldown, limit and retry schedule.                                     *)
EXTENDS Dispatcher, TLAPS, FiniteSetTheorems

\* The calls that have a slot.
Holding == {c \in Callers : pc[c] \in {"send", "wait"}}

\* A call that takes a slot or gives it back changes their number by one.
LEMMA HoldingStep ==
  ASSUME NEW c \in Callers, NEW s, pc \in [Callers -> {"idle", "acquire", "send", "wait"}],
         pc' = [pc EXCEPT ![c] = s]
  PROVE  /\ IsFiniteSet(Holding) /\ Cardinality(Holding) \in Nat
         /\ s \in {"send", "wait"} => Cardinality(Holding') =
              IF c \in Holding THEN Cardinality(Holding) ELSE Cardinality(Holding) + 1
         /\ s \notin {"send", "wait"} => Cardinality(Holding') =
              IF c \in Holding THEN Cardinality(Holding) - 1 ELSE Cardinality(Holding)
<1>1. IsFiniteSet(Holding) /\ Cardinality(Holding) \in Nat
  BY CallersAssumption, FS_Subset, FS_CardinalityType DEF Holding
<1>2. s \in {"send", "wait"} => Holding' = Holding \cup {c}
  BY DEF Holding
<1>3. s \notin {"send", "wait"} => Holding' = Holding \ {c}
  BY DEF Holding
<1>4. Cardinality(Holding \cup {c}) =
        IF c \in Holding THEN Cardinality(Holding) ELSE Cardinality(Holding) + 1
  BY <1>1, FS_AddElement
<1>5. Cardinality(Holding \ {c}) =
        IF c \in Holding THEN Cardinality(Holding) - 1 ELSE Cardinality(Holding)
  BY <1>1, FS_RemoveElement
<1> QED BY <1>1, <1>2, <1>3, <1>4, <1>5

\* The waits of the schedule are times.
LEMMA WorstWaitType ==
  ASSUME NEW n \in 0 .. MaxRetries, n < MaxRetries
  PROVE  WorstWait(n) \in Nat
<1>1. n \in Nat /\ MaxRetries \in Nat /\ Backoff \in Seq(Nat) /\ MaxRetries <= Len(Backoff)
  BY DispatcherAssumption
<1>2. n + 1 \in 1 .. Len(Backoff)
  BY <1>1
<1>3. Backoff[n + 1] \in Nat
  BY <1>1, <1>2
<1> QED BY <1>3 DEF WorstWait

-----------------------------------------------------------------------------
\* No call is under way at the start.
LEMMA InitInv == Init => DispatchInv /\ ProbeHasOwner
<1> SUFFICES ASSUME Init PROVE DispatchInv /\ ProbeHasOwner
  OBVIOUS
<1>k. {Threshold, Cooldown, Limit} \subseteq Nat \ {0} /\ MaxRetries \in Nat
  BY DispatcherAssumption
<1>b. probeInFlight \in BOOLEAN /\ cancelled \in BOOLEAN /\ healthy \in BOOLEAN
  BY DEF Init
<1>1. TypeOK
  BY <1>b, <1>k DEF Init, TypeOK
<1>2. {c \in Callers : pc[c] \in {"send", "wait"}} = {}
  BY DEF Init
<1>3. slots = Cardinality({c \in Callers : pc[c] \in {"send", "wait"}})
  BY <1>2, FS_EmptySet DEF Init
<1> QED BY <1>1, <1>3, DispatcherAssumption DEF Init, DispatchInv, ProbeHasOwner

\* The steps of one Deliver.
LEMMA DeliverStep ==
  ASSUME DispatchInv, NEW c \in Callers, Deliver(c)
  PROVE  DispatchInv'
<1>t. /\ TypeOK /\ pc \in [Callers -> {"idle", "acquire", "send", "wait"}]
      /\ attempt \in [Callers -> 0 .. MaxRetries] /\ held \in [Callers -> Nat]
      /\ slots \in Nat /\ slots = Cardinality(Holding) /\ slots <= Limit
      /\ \A d \in Callers : pc[d] = "wait" => attempt[d] < MaxRetries
      /\ failures \in 0 .. Threshold /\ cooling \in 0 .. Cooldown
      /\ probeInFlight \in BOOLEAN /\ state \in {"closed", "open", "half_open"}
  BY DEF DispatchInv, TypeOK, Holding
<1>k. {Threshold, Cooldown, Limit} \subseteq Nat \ {0} /\ MaxRetries \in Nat /\ Timeout \in Nat
  BY DispatcherAssumption
<1> DEFINE Fields == /\ state \in {"closed", "open", "half_open"}
                     /\ failures \in 0 .. Threshold /\ cooling \in 0 .. Cooldown
                     /\ state = "closed" <=> failures < Threshold
           Probe == probeInFlight \in BOOLEAN /\ (probeInFlight => state = "half_open")
           Calls == /\ pc \in [Callers -> {"idle", "acquire", "send", "wait"}]
                    /\ attempt \in [Callers -> 0 .. MaxRetries]
                    /\ held \in [Callers -> Nat]
                    /\ \A d \in Callers : pc[d] = "wait" => attempt[d] < MaxRetries
           Slots == slots \in Nat /\ slots = Cardinality(Holding) /\ slots <= Limit
<1>0. UNCHANGED <<cancelled, healthy, flips>>
  BY DEF Deliver, Allow, Acquire, AcquireCancelled, SendOK, SendError, Timer,
     WaitCancelled
<1>1. Fields' /\ Probe'
  <2>0. Fields /\ Probe
    BY DEF DispatchInv, TypeOK
  <2>1. CASE Success /\ UNCHANGED cooling
    <3>1. state' = "closed" /\ failures' = 0 /\ probeInFlight' = FALSE /\ cooling' = cooling
      BY <2>1 DEF Success
    <3>2. Probe'
      BY <3>1
    <3>3. Fields'
      BY <1>k, <2>0, <3>1
    <3> QED BY <3>2, <3>3
  <2>2. CASE Failure
    <3>1. probeInFlight' = FALSE
      BY <2>2 DEF Failure
    <3>2. Probe'
      BY <3>1
    <3>3. Fields'
      BY <1>k, <2>0, <2>2 DEF Failure
    <3> QED BY <3>2, <3>3
  <2>3. CASE Allow(c)
    <3>1. UNCHANGED <<failures, cooling>> /\ state' = AfterCooldown
      BY <2>3 DEF Allow
    <3>2. Fields'
      BY <2>0, <3>1 DEF AfterCooldown
    <3>3. \/ state' # "half_open" /\ probeInFlight' = probeInFlight
          \/ state' = "half_open" /\ probeInFlight' = TRUE
          \/ state' = "half_open" /\ probeInFlight' = probeInFlight
      BY <2>3, <3>1, Zenon DEF Allow
    <3>4. state' # "half_open" => state # "half_open"
      BY <3>1 DEF AfterCooldown
    <3>5. Probe'
      <4>1. probeInFlight' \in BOOLEAN
        BY <2>0, <3>3
      <4>2. probeInFlight' => state' = "half_open"
        BY <2>0, <3>3, <3>4
      <4> QED BY <4>1, <4>2
    <3> QED BY <3>2, <3>5
  <2>4. CASE UNCHANGED <<state, failures, probeInFlight, cooling>>
    BY <2>0, <2>4
  <2> QED BY <2>1, <2>2, <2>3, <2>4 DEF Deliver, Acquire, AcquireCancelled, SendOK,
             SendError, Timer, WaitCancelled
<1>2. ASSUME Return(c), pc[c] # "idle" PROVE Calls' /\ Slots'
  <2>1. Calls'
    BY <1>2, <1>t, <1>k DEF Return, Goto
  <2>2. pc' = [pc EXCEPT ![c] = "idle"]
    BY <1>2 DEF Return, Goto
  <2>3. /\ Cardinality(Holding) \in Nat
        /\ Cardinality(Holding') =
             IF c \in Holding THEN Cardinality(Holding) - 1 ELSE Cardinality(Holding)
    <3>1. pc \in [Callers -> {"idle", "acquire", "send", "wait"}]
          /\ "idle" \notin {"send", "wait"}
      BY <1>t
    <3> QED BY <2>2, <3>1, HoldingStep
  <2>4. IsFiniteSet(Holding') /\ Cardinality(Holding') \in Nat
    BY CallersAssumption, FS_Subset, FS_CardinalityType DEF Holding
  <2>5. c \in Holding <=> pc[c] # "acquire"
    BY <1>2, <1>t DEF Holding
  <2>6. slots' = Cardinality(Holding')
    BY <1>2, <1>t, <2>3, <2>5 DEF Return
  <2> QED BY <1>t, <1>k, <2>1, <2>3, <2>4, <2>6
<1>3. Calls' /\ Slots'
  <2>1. CASE AcquireCancelled(c) \/ SendOK(c) \/ WaitCancelled(c)
    BY <1>2, <2>1 DEF AcquireCancelled, SendOK, WaitCancelled
  <2>2. CASE Allow(c)
    <3>1. UNCHANGED <<slots, attempt, held>> /\ pc[c] = "idle"
      BY <2>2 DEF Allow
    <3>2. pc' = pc \/ pc' = [pc EXCEPT ![c] = "acquire"]
      BY <2>2 DEF Allow, Goto
    <3>3. Calls'
      BY <1>t, <3>1, <3>2
    <3>4. Holding' = Holding
      BY <1>t, <3>1, <3>2 DEF Holding
    <3> QED BY <1>t, <3>1, <3>3, <3>4
  <2>3. CASE Acquire(c)
    <3>1. /\ UNCHANGED <<attempt, held>> /\ pc' = [pc EXCEPT ![c] = "send"]
          /\ pc[c] = "acquire" /\ slots < Limit /\ slots' = slots + 1
      BY <2>3 DEF Acquire, Goto
    <3>2. Calls'
      BY <1>t, <3>1
    <3>3. c \notin Holding
      BY <3>1 DEF Holding
    <3>4. Cardinality(Holding') = Cardinality(Holding) + 1
      BY <1>t, <3>1, <3>3, HoldingStep
    <3> QED BY <1>k, <1>t, <3>1, <3>2, <3>4
  <2>4. CASE SendError(c) /\ attempt[c] = MaxRetries
    BY <1>2, <2>4 DEF SendError
  <2>5. CASE SendError(c) /\ attempt[c] # MaxRetries
    <3>1. /\ UNCHANGED <<attempt, slots>> /\ pc' = [pc EXCEPT ![c] = "wait"]
          /\ held' = [held EXCEPT ![c] = @ + Timeout] /\ pc[c] = "send"
      BY <2>5 DEF SendError, Goto
    <3>2. Calls'
      BY <1>k, <1>t, <2>5, <3>1
    <3>3. Holding' = Holding
      BY <1>t, <3>1 DEF Holding
    <3> QED BY <1>t, <3>1, <3>2, <3>3
  <2>6. CASE Timer(c)
    <3>1. /\ slots' = slots /\ pc' = [pc EXCEPT ![c] = "send"] /\ pc[c] = "wait"
          /\ attempt' = [attempt EXCEPT ![c] = @ + 1]
          /\ held' = [held EXCEPT ![c] = @ + WorstWait(attempt[c])]
      BY <2>6 DEF Timer, Goto
    <3>2. WorstWait(attempt[c]) \in Nat /\ attempt[c] + 1 \in 0 .. MaxRetries
      BY <1>k, <1>t, <3>1, WorstWaitType
    <3>3. Calls'
      BY <1>k, <1>t, <3>1, <3>2
    <3>4. Holding' = Holding
      BY <1>t, <3>1 DEF Holding
    <3> QED BY <1>t, <3>1, <3>3, <3>4
  <2> QED BY <2>1, <2>2, <2>3, <2>4, <2>5, <2>6 DEF Deliver
<1> QED BY <1>t, <1>0, <1>1, <1>3 DEF DispatchInv, TypeOK, Holding

\* The endpoint, the context and the clock.
LEMMA WorldStep ==
  ASSUME DispatchInv, Flip \/ Cancel \/ Tick \/ UNCHANGED vars
  PROVE  DispatchInv'
<1>1. UNCHANGED <<state, failures, probeInFlight, slots, pc, attempt, held>>
  BY DEF Flip, Cancel, Tick, vars
<1>2. cancelled' \in BOOLEAN /\ healthy' \in BOOLEAN
  BY Zenon DEF DispatchInv, TypeOK, Flip, Cancel, Tick, vars
<1>3. flips' \in Nat /\ cooling' \in 0 .. Cooldown
  <2>1. flips \in Nat /\ cooling \in 0 .. Cooldown /\ Cooldown \in Nat
    BY DispatcherAssumption DEF DispatchInv, TypeOK
  <2>2. \/ flips' = flips + 1 /\ cooling' = cooling
        \/ flips' = flips /\ (cooling' = cooling \/ (cooling > 0 /\ cooling' = cooling - 1))
    BY DEF Flip, Cancel, Tick, vars
  <2> QED BY <2>1, <2>2
<1>4. TypeOK'
  BY <1>1, <1>2, <1>3 DEF DispatchInv, TypeOK
<1> QED BY <1>1, <1>4 DEF DispatchInv

-----------------------------------------------------------------------------
\* Breaker and bulkhead stay consistent under any number of concurrent calls.
THEOREM DispatchInvariant == Spec => []DispatchInv
<1>1. Init => DispatchInv
  BY InitInv
<1>2. DispatchInv /\ [Next]_vars => DispatchInv'
  BY DeliverStep, WorldStep DEF Next
<1> QED BY <1>1, <1>2, PTL DEF Spec

\* A half-open breaker that refuses calls has a call that will answer, unless
\* the worker was cancelled.
THEOREM ProbeOwned == Spec => []ProbeHasOwner
<1>1. Init => ProbeHasOwner
  BY InitInv
<1>2. DispatchInv /\ ProbeHasOwner /\ [Next]_vars => ProbeHasOwner'
  <2> SUFFICES ASSUME DispatchInv, ProbeHasOwner, [Next]_vars,
                      probeInFlight', ~cancelled'
               PROVE  \E c \in Callers : pc'[c] # "idle"
    BY DEF ProbeHasOwner
  <2>t. pc \in [Callers -> {"idle", "acquire", "send", "wait"}]
    BY DEF DispatchInv, TypeOK
  <2>1. ASSUME NEW c \in Callers, Deliver(c) PROVE \E d \in Callers : pc'[d] # "idle"
    <3>1. CASE Allow(c)
      <4>1. \/ pc' = pc /\ probeInFlight' = probeInFlight /\ cancelled' = cancelled
            \/ pc'[c] = "acquire"
        BY <2>t, <3>1 DEF Allow, Goto
      <4> QED BY <4>1 DEF ProbeHasOwner
    <3>2. CASE Acquire(c) \/ Timer(c)
      <4>1. pc'[c] = "send"
        BY <2>t, <3>2 DEF Acquire, Timer, Goto
      <4> QED BY <4>1
    <3>3. CASE SendOK(c) \/ SendError(c)
      BY <3>3 DEF SendOK, SendError, Success, Failure
    <3>4. CASE AcquireCancelled(c) \/ WaitCancelled(c)
      <4>1. cancelled /\ cancelled' = cancelled
        BY <3>4 DEF AcquireCancelled, WaitCancelled
      <4> QED BY <4>1
    <3> QED BY <2>1, <3>1, <3>2, <3>3, <3>4 DEF Deliver
  <2>2. CASE Flip \/ Cancel \/ Tick \/ UNCHANGED vars
    BY <2>2 DEF Flip, Cancel, Tick, vars, ProbeHasOwner
  <2> QED BY <2>1, <2>2 DEF Next
<1> QED BY <1>1, <1>2, DispatchInvariant, PTL DEF Spec

-----------------------------------------------------------------------------
(* The retry schedule and the lease. *)

\* S[n] is the longest that the first n attempts of a Deliver, and the waits
\* after them, can last; one more request always fits in the lease.
FitsLease(S) ==
  /\ S \in [0 .. MaxRetries -> Nat] /\ S[0] = 0
  /\ \A n \in 0 .. MaxRetries :
        n < MaxRetries => S[n + 1] = S[n] + Timeout + WorstWait(n)
  /\ \A n \in 0 .. MaxRetries : S[n] + Timeout < Lease

\* What has been counted is what the schedule says of the attempt.
HeldInv(S) ==
  \A c \in Callers :
    /\ pc[c] \in {"idle", "acquire"} => attempt[c] = 0 /\ held[c] = 0
    /\ pc[c] = "send" => held[c] = S[attempt[c]]
    /\ pc[c] = "wait" => held[c] = S[attempt[c]] + Timeout

\* Each attempt and each wait adds what the schedule says.
LEMMA HeldStep ==
  ASSUME NEW S, FitsLease(S), DispatchInv, HeldInv(S), [Next]_vars
  PROVE  HeldInv(S)'
<1>t. /\ pc \in [Callers -> {"idle", "acquire", "send", "wait"}]
      /\ attempt \in [Callers -> 0 .. MaxRetries] /\ held \in [Callers -> Nat]
      /\ \A d \in Callers : pc[d] = "wait" => attempt[d] < MaxRetries
      /\ MaxRetries \in Nat /\ Timeout \in Nat
  BY DispatcherAssumption DEF DispatchInv, TypeOK
<1> DEFINE HeldBy(c) ==
    /\ pc[c] \in {"idle", "acquire"} => attempt[c] = 0 /\ held[c] = 0
    /\ pc[c] = "send" => held[c] = S[attempt[c]]
    /\ pc[c] = "wait" => held[c] = S[attempt[c]] + Timeout
<1>1. ASSUME NEW c \in Callers, Deliver(c), NEW d \in Callers, d # c PROVE HeldBy(d)'
  <2>1. pc'[d] = pc[d] /\ attempt'[d] = attempt[d] /\ held'[d] = held[d]
    BY <1>1, <1>t DEF Deliver, Allow, Acquire, AcquireCancelled, SendOK, SendError,
       Timer, WaitCancelled, Return, Goto
  <2> QED BY <2>1 DEF HeldInv
<1>2. ASSUME NEW c \in Callers, Return(c) PROVE HeldBy(c)'
  <2>1. pc'[c] = "idle" /\ attempt'[c] = 0 /\ held'[c] = 0
    BY <1>2, <1>t DEF Return, Goto
  <2> QED BY <2>1
<1>3. ASSUME NEW c \in Callers, Deliver(c) PROVE HeldBy(c)'
  <2>h. HeldBy(c)
    BY DEF HeldInv
  <2>1. CASE AcquireCancelled(c) \/ SendOK(c) \/ WaitCancelled(c)
    BY <1>2, <2>1 DEF AcquireCancelled, SendOK, WaitCancelled
  <2>2. CASE Allow(c)
    <3>1. /\ pc[c] = "idle" /\ pc'[c] \in {"idle", "acquire"}
          /\ attempt'[c] = attempt[c] /\ held'[c] = held[c]
      BY <1>t, <2>2 DEF Allow, Goto
    <3> QED BY <2>h, <3>1
  <2>3. CASE Acquire(c)
    <3>1. /\ pc[c] = "acquire" /\ pc'[c] = "send"
          /\ attempt'[c] = attempt[c] /\ held'[c] = held[c]
      BY <1>t, <2>3 DEF Acquire, Goto
    <3> QED BY <2>h, <3>1 DEF FitsLease
  <2>4. CASE SendError(c)
    <3>1. CASE attempt[c] = MaxRetries
      BY <1>2, <2>4, <3>1 DEF SendError
    <3>2. CASE attempt[c] # MaxRetries
      <4>1. /\ pc[c] = "send" /\ pc'[c] = "wait"
            /\ attempt'[c] = attempt[c] /\ held'[c] = held[c] + Timeout
        BY <1>t, <2>4, <3>2 DEF SendError, Goto
      <4> QED BY <2>h, <4>1
    <3> QED BY <3>1, <3>2
  <2>5. CASE Timer(c)
    <3>1. /\ pc[c] = "wait" /\ pc'[c] = "send" /\ attempt'[c] = attempt[c] + 1
          /\ held'[c] = held[c] + WorstWait(attempt[c])
      BY <1>t, <2>5 DEF Timer, Goto
    <3>2. attempt[c] \in 0 .. MaxRetries /\ attempt[c] < MaxRetries
      BY <1>t, <3>1
    <3>3. S[attempt[c] + 1] = S[attempt[c]] + Timeout + WorstWait(attempt[c])
      BY <3>2 DEF FitsLease
    <3> QED BY <2>h, <3>1, <3>3
  <2> QED BY <1>3, <2>1, <2>2, <2>3, <2>4, <2>5 DEF Deliver
<1>4. CASE \E c \in Callers : Deliver(c)
  BY <1>1, <1>3, <1>4 DEF HeldInv
<1>5. CASE Flip \/ Cancel \/ Tick \/ UNCHANGED vars
  BY <1>5 DEF Flip, Cancel, Tick, vars, HeldInv
<1> QED BY <1>4, <1>5 DEF Next

\* No call has been counted for anything at the start.
LEMMA HeldInit ==
  ASSUME NEW S, Init
  PROVE  HeldInv(S)
BY DEF Init, HeldInv

\* What is left of the lease is longer than the request.
LEMMA HeldIsWithin ==
  ASSUME NEW S, FitsLease(S), DispatchInv, HeldInv(S)
  PROVE  HeldWithinLease
BY DEF FitsLease, DispatchInv, TypeOK, HeldInv, HeldWithinLease

\* A lease that is longer than the schedule outlives every Deliver.
THEOREM LeaseOutlivesSchedule ==
  ASSUME NEW CONSTANT S, FitsLease(S)
  PROVE  Spec => []HeldWithinLease
<1>1. Init => HeldInv(S)
  BY HeldInit
<1>2. DispatchInv /\ HeldInv(S) /\ [Next]_vars => HeldInv(S)'
  BY HeldStep
<1>3. DispatchInv /\ HeldInv(S) => HeldWithinLease
  BY HeldIsWithin
<1> QED BY <1>1, <1>2, <1>3, DispatchInvariant, PTL DEF Spec

\* subscription.go:62 for the numbers of the code, in fifths of a second: five
\* retries after 1s, 5s, 30s, 5m and 30m with up to a fifth of jitter, a timeout
\* of 15s and a lease of one hour.
THEOREM WorkerLeaseOutlivesSchedule ==
  ASSUME MaxRetries = 5, Backoff = <<5, 25, 150, 1500, 9000>>,
         Timeout = 75, Lease = 18000
  PROVE  Spec => []HeldWithinLease
<1> DEFINE S == [n \in 0 .. 5 |-> CASE n = 0 -> 0    [] n = 1 -> 81
                                    [] n = 2 -> 186  [] n = 3 -> 441
                                    [] n = 4 -> 2316 [] n = 5 -> 13191]
<1>1. /\ WorstWait(0) = 6 /\ WorstWait(1) = 30 /\ WorstWait(2) = 180
      /\ WorstWait(3) = 1800 /\ WorstWait(4) = 10800
  BY DEF WorstWait
<1>2. 0 .. 5 = {0, 1, 2, 3, 4, 5}
  OBVIOUS
<1>3. FitsLease(S)
  BY <1>1, <1>2 DEF FitsLease
<1> HIDE DEF S
<1>4. Init => HeldInv(S)
  BY HeldInit
<1>5. DispatchInv /\ HeldInv(S) /\ [Next]_vars => HeldInv(S)'
  BY <1>3, HeldStep
<1>6. DispatchInv /\ HeldInv(S) => HeldWithinLease
  BY <1>3, HeldIsWithin
<1> QED BY <1>4, <1>5, <1>6, DispatchInvariant, PTL DEF Spec
=============================================================================
