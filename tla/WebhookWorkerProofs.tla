------------------------ MODULE WebhookWorkerProofs ------------------------
(***************************************************************************)
(* For any number of workers, events and subscriptions, and any lease      *)
(* longer than a worker can hold a claim: claims exclude each other, and   *)
(* CompleteDelivery and ReleaseDelivery, which name no holder, only ever   *)
(* touch the caller's own claim (the inductive invariant is ClaimInv); and *)
(* a worker that claimed a delivery answers for it if another passes it    *)
(* over (LossInv).                                                         *)
(***************************************************************************)
EXTENDS WebhookWorker, TLAPS

\* The claim operations return claims, and a granted one is leased.
LEMMA ClaimTypes ==
  ASSUME NEW c \in Claim, NEW t \in Nat
  PROVE  /\ ClaimDelivery(c, t) \in Claim
         /\ CompleteDelivery(c, t) \in Claim
         /\ ReleaseDelivery(c, t) \in Claim
         /\ Claimable(c, t) =>
              ClaimDelivery(c, t) = [status |-> "processing",
                                     leaseUntil |-> t + DeliveryLease]
         /\ t + DeliveryLease \in Nat /\ t + DeliveryLease # NoLease
  BY DeliveryLeaseAssumption
  DEF Claim, Statuses, NoLease, ClaimDelivery, CompleteDelivery, ReleaseDelivery

\* No claim that a worker holds can be claimed.
LEMMA HeldNotClaimable ==
  ASSUME ClaimInv, NEW w \in Workers, phase[w] \in Holding
  PROVE  /\ ~Claimable(claims[current[w]], now)
         /\ Leased(claims[current[w]], now)
         /\ current[w] \in Deliveries
  <1>1. /\ started[w] \in Nat /\ now \in Nat /\ now <= started[w] + MaxHold
        /\ current[w] \in Deliveries
        /\ claims[current[w]] = [status |-> "processing",
                                 leaseUntil |-> started[w] + DeliveryLease]
    BY DEF ClaimInv, TypeOK, HoldSafe
  <1>2. started[w] + DeliveryLease > now /\ started[w] + DeliveryLease # 0
    BY <1>1, LeaseAssumption, DeliveryLeaseAssumption
  <1> DEFINE c == claims[current[w]]
  <1>3. c.status = "processing" /\ c.leaseUntil = started[w] + DeliveryLease
    BY <1>1
  <1> HIDE DEF c
  <1>4. ~Claimable(c, now) /\ Leased(c, now)
    BY <1>1, <1>2, <1>3, DeliveryLeaseAssumption DEF Claimable, Leased, NoLease
  <1> QED
    BY <1>1, <1>4 DEF c

\* The event of a worker in deliver is an event.
LEMMA EventType ==
  ASSUME ClaimInv, NEW w \in Workers, phase[w] \in Holding \cup {"claim"}
  PROVE  Event(w) \in Events
  BY DEF ClaimInv, TypeOK, InRange, Event

\* Nothing is claimed, received or held at the start.
LEMMA InitClaimInv == Init => ClaimInv
  <1> SUFFICES ASSUME Init PROVE ClaimInv
    OBVIOUS
  <1>1. NoClaim \in Claim
    BY DEF NoClaim, Claim, Statuses, NoLease
  <1>2. TypeOK
    BY <1>1 DEF Init, TypeOK, Phases
  <1>3. \A w \in Workers : phase[w] \notin Holding \cup {"claim"}
    BY DEF Init, Holding
  <1>4. ClaimShape
    BY DEF Init, ClaimShape, NoClaim
  <1> QED
    BY <1>2, <1>3, <1>4 DEF ClaimInv, InRange, HoldSafe, ExclusiveDelivery

\* Every step keeps the types.
LEMMA TypeStep == ClaimInv /\ [Next]_vars => TypeOK'
  <1> SUFFICES ASSUME ClaimInv, [Next]_vars PROVE TypeOK'
    OBVIOUS
  <1> USE DEF Phases, Holding
  <1>0. TypeOK
    BY DEF ClaimInv
  <1>1. ASSUME NEW w \in Workers, Take(w) PROVE TypeOK'
    <2>1. PICK b \in Batches : batch' = [batch EXCEPT ![w] = b]
      BY <1>1, Zenon DEF Take
    <2>2. batch' \in [Workers -> Seq(Events)]
      BY <1>0, <2>1, BatchesAssumption DEF TypeOK
    <2> QED
      BY <1>0, <1>1, <2>2 DEF TypeOK, Take, Goto
  <1>2. ASSUME NEW w \in Workers, ListSubscriptions(w) PROVE TypeOK'
    <2>1. Event(w) \in Events
      BY <1>0, <1>2 DEF TypeOK, ListSubscriptions, Event
    <2>2. subs[Event(w)] \in SUBSET Subs
      BY <1>0, <2>1, SubsOfAssumption DEF TypeOK
    <2> QED
      BY <1>0, <1>2, <2>2 DEF TypeOK, ListSubscriptions, Goto
  <1>3. ASSUME NEW w \in Workers, Retry(w), dlq' \subseteq Events,
               claims' \in [Deliveries -> Claim],
               tried' \in [Workers -> SUBSET Deliveries]
        PROVE  TypeOK'
    <2>1. tried'[w] \subseteq Deliveries
      BY <1>3, Zenon
    <2>2. abandoned' \subseteq Deliveries
      BY <1>0, <1>3, <2>1, Zenon DEF TypeOK, Retry
    <2> QED
      BY <1>0, <1>3, <2>2 DEF TypeOK, Retry, Fault, Goto
  <1>4. ASSUME NEW w \in Workers, ListError(w) PROVE TypeOK'
    BY <1>0, <1>3, <1>4, Zenon DEF TypeOK, ListError
  <1>5. ASSUME NEW w \in Workers, NEW s \in Subs, phase[w] = "claim"
        PROVE  /\ <<Event(w), s>> \in Deliveries
               /\ [claims EXCEPT ![<<Event(w), s>>] =
                     ClaimDelivery(claims[<<Event(w), s>>], now)]
                    \in [Deliveries -> Claim]
    <2>1. <<Event(w), s>> \in Deliveries
      BY <1>5, EventType DEF Deliveries
    <2>2. claims[<<Event(w), s>>] \in Claim /\ now \in Nat
      BY <1>0, <2>1 DEF TypeOK
    <2> QED
      BY <1>0, <2>1, <2>2, ClaimTypes, Zenon DEF TypeOK
  <1>6. ASSUME NEW w \in Workers, NEW s \in Subs, Claimed(w, s) PROVE TypeOK'
    BY <1>0, <1>5, <1>6 DEF TypeOK, Claimed, Goto
  <1>7. ASSUME NEW w \in Workers, NEW s \in Subs, NotClaimed(w, s) PROVE TypeOK'
    BY <1>0, <1>7 DEF TypeOK, NotClaimed
  <1>8. ASSUME NEW w \in Workers, NEW s \in Subs, ClaimError(w, s) PROVE TypeOK'
    <2> DEFINE d == <<Event(w), s>>
    <2>0. /\ claims \in [Deliveries -> Claim]
          /\ tried \in [Workers -> SUBSET Deliveries] /\ phase[w] = "claim"
          /\ tried' = tried \/ tried' = [tried EXCEPT ![w] = tried[w] \cup {d}]
          /\ \/ claims' = claims
             \/ claims' = [claims EXCEPT ![d] = ClaimDelivery(claims[d], now)]
      BY <1>0, <1>8 DEF TypeOK, ClaimError
    <2>1. claims' \in [Deliveries -> Claim] /\ tried' \in [Workers -> SUBSET Deliveries]
      BY <1>5, <2>0
    <2>2. Retry(w) /\ dlq' \subseteq Events
      BY <1>0, <1>8 DEF TypeOK, ClaimError
    <2> QED
      BY <1>3, <2>1, <2>2
  <1>9. ASSUME NEW w \in Workers, Delivered(w) PROVE TypeOK'
    <2>1. Event(w) \in Events
      BY <1>9, EventType DEF Delivered
    <2> QED
      BY <1>0, <1>9, <2>1 DEF TypeOK, Delivered, Goto
  <1>10. ASSUME NEW w \in Workers, DispatchOK(w) \/ DispatchError(w) PROVE TypeOK'
    <2>1. current[w] \in Deliveries
      BY <1>10, HeldNotClaimable DEF DispatchOK, DispatchError
    <2> QED
      BY <1>0, <1>10, <2>1, Zenon DEF TypeOK, DispatchOK, DispatchError, Goto
  <1>11. ASSUME NEW w \in Workers, phase[w] \in Holding
         PROVE  /\ current[w] \in Deliveries
                /\ [claims EXCEPT ![current[w]] =
                      CompleteDelivery(claims[current[w]], now)]
                     \in [Deliveries -> Claim]
                /\ [claims EXCEPT ![current[w]] =
                      ReleaseDelivery(claims[current[w]], now)]
                     \in [Deliveries -> Claim]
    <2>1. current[w] \in Deliveries
      BY <1>11, HeldNotClaimable
    <2>2. claims[current[w]] \in Claim /\ now \in Nat
      BY <1>0, <2>1 DEF TypeOK
    <2> QED
      BY <1>0, <2>1, <2>2, ClaimTypes, Zenon DEF TypeOK
  <1>12. ASSUME NEW w \in Workers, NEW f \in BOOLEAN, NextSubscription(w, f),
                claims' \in [Deliveries -> Claim], faults' \in Nat
         PROVE  TypeOK'
    BY <1>0, <1>12 DEF TypeOK, NextSubscription, Goto
  <1>13. ASSUME NEW w \in Workers, Complete(w) \/ CompleteError(w) PROVE TypeOK'
    <2>0. /\ claims \in [Deliveries -> Claim] /\ phase[w] \in Holding
          /\ \/ claims' = claims
             \/ claims' = [claims EXCEPT ![current[w]] =
                             CompleteDelivery(claims[current[w]], now)]
      BY <1>0, <1>13, Zenon DEF TypeOK, Complete, CompleteError
    <2>1. claims' \in [Deliveries -> Claim]
      BY <1>11, <2>0
    <2>2. faults' \in {faults, faults + 1}
      BY <1>13, Zenon DEF Complete, CompleteError, Fault
    <2>3. faults' \in Nat
      BY <1>0, <2>2 DEF TypeOK
    <2> QED
      BY <1>12, <1>13, <2>1, <2>3, Zenon DEF Complete, CompleteError
  <1>14. ASSUME NEW w \in Workers, Release(w) \/ ReleaseError(w) PROVE TypeOK'
    <2>0. /\ claims \in [Deliveries -> Claim] /\ phase[w] \in Holding
          /\ \/ claims' = claims
             \/ claims' = [claims EXCEPT ![current[w]] =
                             ReleaseDelivery(claims[current[w]], now)]
      BY <1>0, <1>14, Zenon DEF TypeOK, Release, ReleaseError
    <2>1. claims' \in [Deliveries -> Claim]
      BY <1>11, <2>0
    <2>2. faults' \in {faults, faults + 1}
      BY <1>14, Zenon DEF Release, ReleaseError, Fault
    <2>3. faults' \in Nat
      BY <1>0, <2>2 DEF TypeOK
    <2> QED
      BY <1>12, <1>14, <2>1, <2>3, Zenon DEF Release, ReleaseError
  <1>15. ASSUME NEW w \in Workers, Report(w) PROVE TypeOK'
    BY <1>0, <1>15 DEF TypeOK, Report, Goto
  <1>16. ASSUME NEW w \in Workers, ReportError(w) PROVE TypeOK'
    BY <1>0, <1>3, <1>16, Zenon DEF TypeOK, ReportError
  <1>17. ASSUME NEW w \in Workers, Commit(w) \/ Stop(w) PROVE TypeOK'
    <2>1. InBatch(w) \subseteq Events
      BY <1>0 DEF TypeOK, InBatch
    <2>2. tried[w] \subseteq Deliveries
      BY <1>0, Zenon DEF TypeOK
    <2>3. <<>> \in Seq(Events)
      OBVIOUS
    <2>4. /\ faults' \in {faults, faults + 1}
          /\ committed' \in {committed, committed \cup InBatch(w)}
          /\ abandoned' \in {abandoned, abandoned \cup tried[w]}
          /\ UNCHANGED <<now, subs, claims, received, dlq>>
          /\ Reset(w)
      BY <1>17 DEF Commit, Stop, Fault
    <2>5. faults' \in Nat /\ committed' \subseteq Events /\ abandoned' \subseteq Deliveries
      BY <1>0, <2>1, <2>2, <2>4 DEF TypeOK
    <2> QED
      BY <1>0, <2>3, <2>4, <2>5 DEF TypeOK, Reset, Goto
  <1>18. CASE Tick
    BY <1>0, <1>18 DEF TypeOK, Tick
  <1>19. CASE UNCHANGED vars
    BY <1>0, <1>19 DEF TypeOK, vars
  <1> QED
    BY <1>1, <1>2, <1>4, <1>6, <1>7, <1>8, <1>9, <1>10, <1>13, <1>14, <1>15,
       <1>16, <1>17, <1>18, <1>19, Zenon DEF Next, Progress, Failure

\* A step that lets no worker take a claim, and leaves alone the claims of the
\* workers that still hold one, keeps every holder safe.
LEMMA HolderFrame ==
  ASSUME ClaimInv, received \subseteq received', now' = now,
         \A v \in Workers : phase'[v] \in Holding =>
            /\ phase[v] \in Holding
            /\ current'[v] = current[v] /\ started'[v] = started[v]
            /\ claims'[current[v]] = claims[current[v]]
            /\ phase'[v] = "complete" =>
                 phase[v] = "complete" \/ current[v] \in received'
  PROVE  HoldSafe' /\ ExclusiveDelivery'
  <1>1. HoldSafe /\ ExclusiveDelivery
    BY DEF ClaimInv
  <1>2. HoldSafe'
    BY <1>1 DEF HoldSafe
  <1>3. ExclusiveDelivery'
    BY <1>1 DEF ExclusiveDelivery
  <1> QED
    BY <1>2, <1>3

\* A claim completed by its holder has been received; one released or granted
\* has the lease its status calls for.
LEMMA ShapeStep ==
  ASSUME ClaimInv, NEW d \in Deliveries, received \subseteq received', NEW c,
         claims' = [claims EXCEPT ![d] = c],
         \/ c = ClaimDelivery(claims[d], now)
         \/ c = ReleaseDelivery(claims[d], now)
         \/ c = CompleteDelivery(claims[d], now) /\ d \in received
  PROVE  ClaimShape'
  <1>1. claims \in [Deliveries -> Claim] /\ now \in Nat /\ claims[d] \in Claim
    BY DEF ClaimInv, TypeOK
  <1>2. /\ claims[d].status = "processing" <=> claims[d].leaseUntil # NoLease
        /\ claims[d].status = "completed" => d \in received
    BY DEF ClaimInv, ClaimShape
  <1>3. /\ c.status = "processing" <=> c.leaseUntil # NoLease
        /\ c.status = "completed" => d \in received
    <2>1. now + DeliveryLease # NoLease
      BY <1>1, ClaimTypes
    <2>2. CASE c = ClaimDelivery(claims[d], now)
      <3>1. c = claims[d] \/ c = [status |-> "processing",
                                  leaseUntil |-> now + DeliveryLease]
        BY <2>2 DEF ClaimDelivery
      <3> QED BY <1>2, <2>1, <3>1
    <2>3. CASE c = ReleaseDelivery(claims[d], now)
      <3>1. c = claims[d] \/ c = [status |-> "pending", leaseUntil |-> NoLease]
        BY <2>3 DEF ReleaseDelivery
      <3> QED BY <1>2, <3>1
    <2>4. CASE c = CompleteDelivery(claims[d], now) /\ d \in received
      <3>1. c = claims[d] \/ c = [status |-> "completed", leaseUntil |-> NoLease]
        BY <2>4 DEF CompleteDelivery
      <3> QED BY <1>2, <2>4, <3>1
    <2> QED BY <2>2, <2>3, <2>4
  <1>4. claims'[d] = c /\ \A e \in Deliveries : e # d => claims'[e] = claims[e]
    BY <1>1
  <1> QED
    BY <1>3, <1>4 DEF ClaimInv, ClaimShape

\* Steps that leave the claims alone leave their shape alone.
LEMMA ShapeFrame ==
  ASSUME ClaimInv, claims' = claims, received \subseteq received'
  PROVE  ClaimShape'
  BY DEF ClaimInv, ClaimShape

\* The event being delivered stays inside the batch.
LEMMA RangeStep == ClaimInv /\ [Next]_vars => InRange'
  <1> SUFFICES ASSUME ClaimInv, [Next]_vars PROVE InRange'
    OBVIOUS
  <1> USE DEF Holding
  <1>0. InRange /\ phase \in [Workers -> Phases] /\ index \in [Workers -> Nat \ {0}]
        /\ batch \in [Workers -> Seq(Events)]
    BY DEF ClaimInv, TypeOK
  <1>1. ASSUME NEW w \in Workers,
               \A v \in Workers : v # w =>
                  phase'[v] = phase[v] /\ index'[v] = index[v] /\ batch'[v] = batch[v],
               phase'[w] \in Holding \cup {"claim"} =>
                  index'[w] \in 1 .. Len(batch'[w])
        PROVE  InRange'
    BY <1>0, <1>1 DEF InRange
  <1>2. ASSUME NEW w \in Workers,
               Take(w) \/ ListSubscriptions(w) \/ Delivered(w) \/ Report(w)
        PROVE  InRange'
    <2>1. CASE Take(w)
      BY <1>0, <1>1, <2>1 DEF Take, Goto
    <2>2. CASE ListSubscriptions(w)
      BY <1>0, <1>1, <2>2 DEF ListSubscriptions, Goto
    <2>3. CASE Delivered(w)
      BY <1>0, <1>1, <2>3 DEF Delivered, Goto
    <2>4. CASE Report(w)
      BY <1>0, <1>1, <2>4 DEF Report, Goto
    <2> QED
      BY <1>2, <2>1, <2>2, <2>3, <2>4
  <1>3. ASSUME NEW w \in Workers, Retry(w) PROVE InRange'
    BY <1>0, <1>1, <1>3 DEF Retry, Goto
  <1>4. ASSUME NEW w \in Workers, Reset(w) PROVE InRange'
    BY <1>0, <1>1, <1>4 DEF Reset, Goto
  <1>5. ASSUME NEW w \in Workers, phase[w] \in Holding \cup {"claim"},
               NEW ph, Goto(w, ph), UNCHANGED <<index, batch>>
        PROVE  InRange'
    <2>1. index[w] \in 1 .. Len(batch[w])
      BY <1>0, <1>5 DEF InRange
    <2> QED
      BY <1>0, <1>1, <1>5, <2>1 DEF Goto
  <1>6. ASSUME NEW w \in Workers, NEW t \in Subs, Claimed(w, t) PROVE InRange'
    BY <1>5, <1>6 DEF Claimed
  <1>7. ASSUME NEW w \in Workers, DispatchOK(w) \/ DispatchError(w) PROVE InRange'
    BY <1>5, <1>7 DEF DispatchOK, DispatchError
  <1>8. ASSUME NEW w \in Workers,
               Complete(w) \/ CompleteError(w) \/ Release(w) \/ ReleaseError(w)
        PROVE  InRange'
    BY <1>5, <1>8, Zenon
    DEF Complete, CompleteError, Release, ReleaseError, NextSubscription
  <1>9. ASSUME NEW w \in Workers, NEW t \in Subs, NotClaimed(w, t) PROVE InRange'
    BY <1>0, <1>9 DEF NotClaimed, InRange
  <1>10. CASE Tick \/ UNCHANGED vars
    BY <1>0, <1>10 DEF Tick, vars, InRange
  <1>11. ASSUME NEW w \in Workers, ListError(w) \/ ReportError(w) PROVE InRange'
    BY <1>3, <1>11, Zenon DEF ListError, ReportError
  <1>12. ASSUME NEW w \in Workers, NEW t \in Subs, ClaimError(w, t) PROVE InRange'
    BY <1>3, <1>12 DEF ClaimError
  <1>13. ASSUME NEW w \in Workers, Commit(w) \/ Stop(w) PROVE InRange'
    BY <1>4, <1>13, Zenon DEF Commit, Stop
  <1> QED
    BY <1>2, <1>6, <1>7, <1>8, <1>9, <1>10, <1>11, <1>12, <1>13
    DEF Next, Progress, Failure

\* Every step keeps the holders apart and their claims alive.
LEMMA HolderStep ==
  ClaimInv /\ [Next]_vars => ClaimShape' /\ HoldSafe' /\ ExclusiveDelivery'
  <1> DEFINE Goal == ClaimShape' /\ HoldSafe' /\ ExclusiveDelivery'
  <1> SUFFICES ASSUME ClaimInv, [Next]_vars PROVE Goal
    OBVIOUS
  <1> USE DEF Holding
  <1>0. /\ TypeOK /\ phase \in [Workers -> Phases]
        /\ current \in [Workers -> Deliveries \cup {NoDelivery}]
        /\ started \in [Workers -> Nat] /\ now \in Nat
        /\ claims \in [Deliveries -> Claim]
    BY Zenon DEF ClaimInv, TypeOK
  \* A worker that leaves the phases in which it holds a claim, or never was
  \* in one; d is the claim it writes, if any.
  <1>1. ASSUME NEW w \in Workers, NEW ph, ph \notin Holding, Goto(w, ph),
               now' = now, received' = received, ClaimShape',
               \A v \in Workers \ {w} :
                  current'[v] = current[v] /\ started'[v] = started[v],
               \A v \in Workers \ {w} : phase[v] \in Holding =>
                  claims'[current[v]] = claims[current[v]]
        PROVE  Goal
    <2>1. \A v \in Workers : phase'[v] \in Holding => v # w /\ phase'[v] = phase[v]
      BY <1>0, <1>1 DEF Goto
    <2> QED
      BY <1>1, <2>1, HolderFrame, Zenon
  <1>2. ASSUME NEW w \in Workers, NEW ph, ph \notin Holding, Goto(w, ph),
               UNCHANGED <<now, received, claims, current, started>>
        PROVE  Goal
    BY <1>1, <1>2, ShapeFrame, Zenon
  <1>3. ASSUME NEW w \in Workers,
               Take(w) \/ ListSubscriptions(w) \/ Delivered(w) \/ Report(w)
                 \/ ListError(w) \/ ReportError(w)
        PROVE  Goal
    BY <1>2, <1>3, Zenon
    DEF Take, ListSubscriptions, Delivered, Report, ListError, ReportError, Retry
  <1>4. ASSUME NEW w \in Workers, Commit(w) \/ Stop(w) PROVE Goal
    <2>1. /\ Goto(w, "idle") /\ now' = now /\ received' = received /\ claims' = claims
          /\ \A v \in Workers \ {w} :
               current'[v] = current[v] /\ started'[v] = started[v]
      BY <1>0, <1>4, Zenon DEF Commit, Stop, Reset
    <2>2. ClaimShape'
      BY <2>1, ShapeFrame, Zenon
    <2> QED
      BY <1>1, <2>1, <2>2
  <1>5. ASSUME NEW w \in Workers, NEW t \in Subs, NotClaimed(w, t) PROVE Goal
    BY <1>5, HolderFrame, ShapeFrame, Zenon DEF NotClaimed
  <1>6. ASSUME NEW w \in Workers, NEW t \in Subs, phase[w] = "claim",
               Claimable(claims[<<Event(w), t>>], now)
        PROVE  /\ <<Event(w), t>> \in Deliveries
               /\ \A v \in Workers :
                    phase[v] \in Holding => current[v] # <<Event(w), t>>
    BY <1>6, EventType, HeldNotClaimable, Zenon DEF Deliveries
  <1>7. ASSUME NEW w \in Workers, NEW t \in Subs, ClaimError(w, t) PROVE Goal
    <2> DEFINE d == <<Event(w), t>>
    <2>0. phase[w] = "claim" /\ Retry(w)
      BY <1>7 DEF ClaimError
    <2>1. CASE claims' = claims
      BY <1>2, <2>0, <2>1, Zenon DEF Retry
    <2>2. CASE /\ Claimable(claims[d], now)
               /\ claims' = [claims EXCEPT ![d] = ClaimDelivery(claims[d], now)]
      <3>1. d \in Deliveries /\ \A v \in Workers : phase[v] \in Holding => current[v] # d
        BY <1>6, <2>0, <2>2
      <3>2. ClaimShape'
        BY <2>0, <2>2, <3>1, ShapeStep, Zenon DEF Retry
      <3>3. \A v \in Workers : phase[v] \in Holding =>
              claims'[current[v]] = claims[current[v]]
        BY <1>0, <2>2, <3>1, HeldNotClaimable
      <3> QED
        BY <1>1, <2>0, <3>2, <3>3, Zenon DEF Retry
    <2> QED
      BY <1>7, <2>1, <2>2, Zenon DEF ClaimError
  <1>8. ASSUME NEW w \in Workers, NEW t \in Subs, Claimed(w, t) PROVE Goal
    <2> DEFINE d == <<Event(w), t>>
    <2>0. /\ phase[w] = "claim" /\ Claimable(claims[d], now)
          /\ claims' = [claims EXCEPT ![d] = ClaimDelivery(claims[d], now)]
          /\ current' = [current EXCEPT ![w] = d]
          /\ started' = [started EXCEPT ![w] = now]
          /\ phase' = [phase EXCEPT ![w] = "dispatch"]
          /\ now' = now /\ received' = received
      BY <1>8 DEF Claimed, Goto
    <2>1. d \in Deliveries /\ \A v \in Workers : phase[v] \in Holding => current[v] # d
      BY <1>6, <2>0
    <2> HIDE DEF d
    <2>2. ClaimShape'
      BY <2>0, <2>1, ShapeStep, Zenon
    <2>3. claims'[d] = [status |-> "processing", leaseUntil |-> now + DeliveryLease]
      BY <1>0, <2>0, <2>1, ClaimTypes
    <2>4. /\ phase'[w] = "dispatch" /\ current'[w] = d /\ started'[w] = now
          /\ \A v \in Workers \ {w} :
               /\ phase'[v] = phase[v] /\ current'[v] = current[v]
               /\ started'[v] = started[v]
      BY <1>0, <2>0, Zenon
    <2>5. \A v \in Workers \ {w} : phase[v] \in Holding =>
            current[v] # d /\ claims'[current[v]] = claims[current[v]]
      BY <1>0, <2>0, <2>1, HeldNotClaimable
    <2>6. now <= now + MaxHold
      BY <1>0, LeaseAssumption
    <2>7. ExclusiveDelivery'
      BY <2>4, <2>5 DEF ExclusiveDelivery, ClaimInv
    <2>8. ASSUME NEW v \in Workers, phase'[v] \in Holding
          PROVE  /\ current'[v] \in Deliveries
                 /\ started'[v] <= now /\ now <= started'[v] + MaxHold
                 /\ claims'[current'[v]] = [status |-> "processing",
                      leaseUntil |-> started'[v] + DeliveryLease]
                 /\ phase'[v] = "complete" => current'[v] \in received
      <3>1. CASE v = w
        BY <1>0, <2>1, <2>3, <2>4, <2>6, <3>1, SMTT(30)
      <3>2. CASE v # w
        BY <2>4, <2>5, <2>8, <3>2 DEF ClaimInv, HoldSafe
      <3> QED BY <3>1, <3>2, Zenon
    <2>9. HoldSafe'
      BY <2>0, <2>8, Zenon DEF HoldSafe
    <2> QED
      BY <2>2, <2>7, <2>9, Zenon
  <1>9. ASSUME NEW w \in Workers, DispatchOK(w) \/ DispatchError(w) PROVE Goal
    <2>1. /\ phase[w] \in Holding /\ claims' = claims /\ received \subseteq received'
          /\ now' = now /\ current' = current /\ started' = started
      BY <1>9 DEF DispatchOK, DispatchError
    <2>2. \/ phase' = [phase EXCEPT ![w] = "complete"] /\ current[w] \in received'
          \/ phase' = [phase EXCEPT ![w] = "release"]
      BY <1>9 DEF DispatchOK, DispatchError, Goto
    <2>3. \A v \in Workers : phase'[v] \in Holding =>
            /\ phase[v] \in Holding
            /\ phase'[v] = "complete" => phase[v] = "complete" \/ current[v] \in received'
      BY <1>0, <2>1, <2>2, Zenon
    <2> QED
      BY <2>1, <2>3, HolderFrame, ShapeFrame, Zenon
  <1>10. ASSUME NEW w \in Workers,
                Complete(w) \/ CompleteError(w) \/ Release(w) \/ ReleaseError(w)
         PROVE  Goal
    <2> DEFINE d == current[w]
    <2>0. /\ phase[w] \in Holding /\ Goto(w, "claim") /\ now' = now /\ received' = received
          /\ current' = [current EXCEPT ![w] = NoDelivery]
          /\ started' = [started EXCEPT ![w] = 0]
      BY <1>10 DEF Complete, CompleteError, Release, ReleaseError, NextSubscription
    <2>1. /\ d \in Deliveries
          /\ phase[w] = "complete" => d \in received
          /\ \A v \in Workers \ {w} : phase[v] \in Holding =>
               current[v] # d /\ current[v] \in Deliveries
      BY <2>0, Zenon DEF ClaimInv, HoldSafe, ExclusiveDelivery
    <2>2. \/ claims' = claims
          \/ claims' = [claims EXCEPT ![d] = ReleaseDelivery(claims[d], now)]
          \/ /\ claims' = [claims EXCEPT ![d] = CompleteDelivery(claims[d], now)]
             /\ phase[w] = "complete"
      BY <1>10, Zenon DEF Complete, CompleteError, Release, ReleaseError
    <2> HIDE DEF d
    <2>3. ClaimShape'
      BY <2>0, <2>1, <2>2, ShapeStep, ShapeFrame
    <2>4. \A v \in Workers \ {w} : phase[v] \in Holding =>
            claims'[current[v]] = claims[current[v]]
      BY <1>0, <2>1, <2>2
    <2>5. \A v \in Workers \ {w} :
            current'[v] = current[v] /\ started'[v] = started[v]
      BY <1>0, <2>0
    <2> QED
      BY <1>1, <2>0, <2>3, <2>4, <2>5, Zenon
  <1>11. CASE Tick
    <2>1. /\ now' = now + 1 /\ UNCHANGED <<claims, received, phase, current, started>>
          /\ \A v \in Workers : phase[v] \in Holding => now - started[v] < MaxHold
      BY <1>11 DEF Tick
    <2>2. ASSUME NEW v \in Workers, phase[v] \in Holding
          PROVE  started[v] <= now + 1 /\ now + 1 <= started[v] + MaxHold
      <3>1. started[v] \in Nat /\ started[v] <= now /\ now - started[v] < MaxHold
        BY <1>0, <2>1, <2>2, Zenon DEF ClaimInv, HoldSafe
      <3> QED BY <1>0, <3>1, LeaseAssumption
    <2>3. HoldSafe'
      BY <2>1, <2>2, Zenon DEF ClaimInv, HoldSafe
    <2>4. ExclusiveDelivery' /\ ClaimShape'
      BY <2>1, Zenon DEF ClaimInv, ExclusiveDelivery, ClaimShape
    <2> QED BY <2>3, <2>4, Zenon
  <1>12. CASE UNCHANGED vars
    BY <1>12, HolderFrame, ShapeFrame DEF vars
  <1> QED
    BY <1>3, <1>4, <1>5, <1>7, <1>8, <1>9, <1>10, <1>11, <1>12
    DEF Next, Progress, Failure

\* Holders, claims and deliveries agree in every reachable state.
THEOREM ClaimInvariant == Spec => []ClaimInv
  <1>1. ClaimInv /\ [Next]_vars => ClaimInv'
    BY TypeStep, RangeStep, HolderStep DEF ClaimInv
  <1> QED
    BY <1>1, InitClaimInv, PTL DEF Spec

\* No delivery is dispatched by two workers at once, whatever rebalances,
\* crashes, retries and failed calls there are.
THEOREM DeliveryExclusion == Spec => []ExclusiveDelivery
  <1>1. ClaimInv => ExclusiveDelivery
    BY Zenon DEF ClaimInv
  <1> QED
    BY <1>1, ClaimInvariant, PTL

\* A worker that is about to complete or release a claim still holds it: the
\* updates need no fencing as long as the lease outlives the retry schedule.
THEOREM OwnClaimHeld == Spec => []HoldsOwnClaim
  <1>1. ClaimInv => HoldsOwnClaim
    <2> SUFFICES ASSUME ClaimInv, NEW w \in Workers, phase[w] \in Holding
                 PROVE  /\ claims[current[w]].status = "processing"
                        /\ claims[current[w]].leaseUntil = started[w] + DeliveryLease
                        /\ now < claims[current[w]].leaseUntil
      BY Zenon DEF HoldsOwnClaim
    <2>1. /\ claims[current[w]] = [status |-> "processing",
                                   leaseUntil |-> started[w] + DeliveryLease]
          /\ now <= started[w] + MaxHold /\ now \in Nat /\ started[w] \in Nat
      BY DEF ClaimInv, HoldSafe, TypeOK
    <2> QED
      BY <2>1, LeaseAssumption, DeliveryLeaseAssumption
  <1> QED
    BY <1>1, ClaimInvariant, PTL

\* A completed claim belongs to a delivery that was received, and nobody
\* delivers it again.
THEOREM CompletedOnlyReceived == Spec => []CompletedReceived
  <1>1. ClaimInv => CompletedReceived
    <2> SUFFICES ASSUME ClaimInv, NEW d \in Deliveries,
                        claims[d].status = "completed"
                 PROVE  /\ d \in received
                        /\ \A w \in Workers : phase[w] \in Holding => current[w] # d
      BY Zenon DEF CompletedReceived
    <2>1. d \in received
      BY Zenon DEF ClaimInv, ClaimShape
    <2>2. ASSUME NEW w \in Workers, phase[w] \in Holding PROVE current[w] # d
      <3>1. claims[current[w]] = [status |-> "processing",
                                  leaseUntil |-> started[w] + DeliveryLease]
        BY <2>2 DEF ClaimInv, HoldSafe
      <3>2. claims[current[w]].status = "processing"
        BY <3>1
      <3> QED
        BY <3>2, Zenon
    <2> QED
      BY <2>1, <2>2, Zenon
  <1> QED
    BY <1>1, ClaimInvariant, PTL

\* The in-memory store answers every claim, completion and release as the
\* Postgres store does.
THEOREM StoresEquivalent == Spec => []StoresAgree
  <1>1. ClaimInv => StoresAgree
    <2> SUFFICES ASSUME ClaimInv, NEW d \in Deliveries, NEW c, c = claims[d]
                 PROVE  /\ Claimable(c, now) <=> MemoryClaimable(c, now)
                        /\ CompleteDelivery(c, now) = MemoryComplete(c, now)
                        /\ ReleaseDelivery(c, now) = MemoryRelease(c, now)
      BY Zenon DEF StoresAgree
    <2>1. /\ c.status \in Statuses /\ c.leaseUntil \in Nat /\ now \in Nat
          /\ c.status = "processing" <=> c.leaseUntil # NoLease
      BY DEF ClaimInv, TypeOK, ClaimShape, Claim
    <2>2. Claimable(c, now) <=> MemoryClaimable(c, now)
      BY <2>1 DEF Claimable, MemoryClaimable, Statuses, NoLease
    <2>3. CompleteDelivery(c, now) = MemoryComplete(c, now)
      BY <2>1 DEF CompleteDelivery, MemoryComplete, Leased, Statuses, NoLease
    <2>4. ReleaseDelivery(c, now) = MemoryRelease(c, now)
      BY <2>1 DEF ReleaseDelivery, MemoryRelease, Leased
    <2> QED
      BY <2>2, <2>3, <2>4
  <1> QED
    BY <1>1, ClaimInvariant, PTL

-----------------------------------------------------------------------------
(* No delivery is forgotten by workers that are left to finish: LossInv. *)

Same(v) ==
  /\ phase'[v] = phase[v] /\ batch'[v] = batch[v] /\ index'[v] = index[v]
  /\ todo'[v] = todo[v] /\ current'[v] = current[v] /\ tried'[v] = tried[v]
  /\ failures'[v] = failures[v] /\ failedEvents'[v] = failedEvents[v]

\* A step of worker w.
StepOf(w) ==
  /\ \A v \in Workers : v # w => Same(v)
  /\ subs' = subs /\ now' = now
  /\ received \subseteq received' /\ abandoned \subseteq abandoned' /\ dlq \subseteq dlq'

\* A worker that did not move guards, answers for and is through with what it
\* was before.
LEMMA OwesFrame ==
  ASSUME NEW v \in Workers, NEW d \in Deliveries, Same(v)
  PROVE  /\ Guards(v, d)' <=> Guards(v, d)
         /\ Answers(v, d)' <=> Answers(v, d)
         /\ Through(v, d)' <=> Through(v, d)
         /\ InBatch(v)' = InBatch(v)
  <1>1. Event(v)' = Event(v) /\ InBatch(v)' = InBatch(v)
    BY Zenon DEF Same, Event, InBatch
  <1>2. Unvisited(v, d)' <=> Unvisited(v, d)
    BY DEF Same, Unvisited
  <1>3. Holds(v, d)' <=> Holds(v, d)
    BY DEF Same, Holds
  <1>4. SawFailure(v, d)' <=> SawFailure(v, d)
    BY <1>1, Zenon DEF Same, SawFailure
  <1>5. Owes(v, d)' <=> Owes(v, d)
    BY <1>1, <1>2, <1>3, <1>4, Zenon DEF Owes
  <1>6. tried'[v] = tried[v]
    BY Zenon DEF Same
  <1> QED BY <1>1, <1>3, <1>4, <1>5, <1>6, Zenon DEF Guards, Answers, Through

\* What a worker knows of its own position.
Placed(w) ==
  /\ phase[w] \in Holding => current[w][1] = Event(w) /\ current[w] \in tried[w]
  /\ phase[w] = "idle" => index[w] = 1 /\ batch[w] = <<>>
  /\ phase[w] = "commit" => index[w] > Len(batch[w]) /\ failedEvents[w] \subseteq dlq
  /\ \A d \in tried[w] : d[1] \in InBatch(w)

\* Whoever guards a delivery answers for it.
LEMMA GuardsAnswers ==
  ASSUME LossInv, NEW v \in Workers, NEW d \in Deliveries, Guards(v, d)
  PROVE  Answers(v, d)
  <1>1. d \in tried[v]
    BY Zenon DEF LossInv, Guards, Holds
  <1>2. d[1] \in InBatch(v)
    BY <1>1, Zenon DEF LossInv
  <1> QED BY <1>1, <1>2, Zenon DEF Guards, Answers, Owes

\* What a step of one worker has to show for LossInv to be kept: a live claim
\* it no longer guards is guarded by another one, it goes on answering for a
\* delivery or leaves it to another one, and it is through only with what some
\* worker answers for.
LEMMA LossFrame ==
  ASSUME LossInv, NEW w \in Workers, StepOf(w), Placed(w)',
         \A d \in Deliveries \ (received' \cup abandoned') : d[1] \notin dlq' =>
           /\ Leased(claims[d], now)' =>
                \/ Guards(w, d)'
                \/ /\ Leased(claims[d], now)
                   /\ Guards(w, d) => \E v \in Workers : v # w /\ Guards(v, d)
           /\ d[2] \in subs[d[1]] =>
                /\ Answers(w, d) =>
                     Answers(w, d)' \/ \E v \in Workers : v # w /\ Answers(v, d)
                /\ d[1] \in committed' \/ Through(w, d)' =>
                     \/ d[1] \in committed \/ Through(w, d)
                     \/ \E v \in Workers : Answers(v, d)
  PROVE  LossInv'
  <1>1. \A v \in Workers : Placed(v)'
    <2>1. ASSUME NEW v \in Workers, v # w PROVE Placed(v)'
      <3>1. Same(v) /\ dlq \subseteq dlq'
        BY <2>1, Zenon DEF StepOf
      <3>2. Placed(v)
        BY Zenon DEF LossInv, Placed
      <3>3. Event(v)' = Event(v) /\ InBatch(v)' = InBatch(v)
        BY <3>1, Zenon DEF Same, Event, InBatch
      <3> QED BY <3>1, <3>2, <3>3, Zenon DEF Same, Placed
    <2> QED BY <2>1, Zenon
  <1>2. ASSUME NEW d \in Deliveries, d \notin received', d \notin abandoned',
               d[1] \notin dlq'
        PROVE  d \notin received /\ d \notin abandoned /\ d[1] \notin dlq
    BY <1>2, Zenon DEF StepOf
  <1>3. ASSUME NEW d \in Deliveries, d \notin received', d \notin abandoned',
               d[1] \notin dlq', Leased(claims[d], now)'
        PROVE  \E v \in Workers : Guards(v, d)'
    <2>1. CASE Guards(w, d)'
      BY <2>1, Zenon
    <2>2. CASE ~Guards(w, d)'
      <3>1. /\ Leased(claims[d], now)
            /\ Guards(w, d) => \E v \in Workers : v # w /\ Guards(v, d)
        BY <1>3, <2>2, Zenon
      <3>2. \E v \in Workers : Guards(v, d)
        BY <1>2, <1>3, <3>1, Zenon DEF LossInv
      <3>3. PICK v \in Workers : v # w /\ Guards(v, d)
        BY <3>1, <3>2, Zenon
      <3> QED BY <3>3, OwesFrame, Zenon DEF StepOf
    <2> QED BY <2>1, <2>2, Zenon
  <1>4. ASSUME NEW d \in Deliveries, d \notin received', d \notin abandoned',
               d[1] \notin dlq', d[2] \in subs'[d[1]],
               d[1] \in committed' \/ \E v \in Workers : Through(v, d)'
        PROVE  \E v \in Workers : Answers(v, d)'
    <2>0. d[2] \in subs[d[1]]
      BY <1>4, Zenon DEF StepOf
    <2>1. \/ d[1] \in committed \/ \E v \in Workers : Through(v, d)
          \/ \E v \in Workers : Answers(v, d)
      <3>1. CASE d[1] \in committed' \/ Through(w, d)'
        BY <1>4, <2>0, <3>1, Zenon
      <3>2. ASSUME NEW v \in Workers, v # w, Through(v, d)' PROVE Through(v, d)
        BY <3>2, OwesFrame, Zenon DEF StepOf
      <3> QED BY <1>4, <3>1, <3>2, Zenon
    <2>2. \E v \in Workers : Answers(v, d)
      BY <1>2, <1>4, <2>0, <2>1, Zenon DEF LossInv
    <2>3. Answers(w, d)' \/ \E v \in Workers : v # w /\ Answers(v, d)
      BY <1>4, <2>0, <2>2, Zenon
    <2>4. ASSUME NEW v \in Workers, v # w, Answers(v, d) PROVE Answers(v, d)'
      BY <2>4, OwesFrame, Zenon DEF StepOf
    <2> QED BY <2>3, <2>4, Zenon
  <1> QED BY <1>1, <1>3, <1>4, Zenon DEF LossInv, Placed

\* The common case: the worker goes on guarding and owing what it did, and
\* guards each claim that it makes.
LEMMA GoesOn ==
  ASSUME LossInv, NEW w \in Workers, StepOf(w), Placed(w)',
         InBatch(w)' = InBatch(w), committed' = committed, tried[w] \subseteq tried'[w],
         \A d \in Deliveries \ (received' \cup abandoned') :
           /\ Guards(w, d) => Guards(w, d)'
           /\ Leased(claims[d], now)' => Leased(claims[d], now) \/ Guards(w, d)'
           /\ d[2] \in subs[d[1]] /\ Owes(w, d) => Owes(w, d)'
  PROVE  LossInv'
  <1>1. ASSUME NEW d \in Deliveries \ (received' \cup abandoned'), d[2] \in subs[d[1]]
        PROVE  /\ Answers(w, d) => Answers(w, d)'
               /\ Through(w, d)' => Through(w, d)
    BY <1>1, Zenon DEF Answers, Through
  <1> QED BY <1>1, LossFrame, Zenon

\* A worker at the start of its batch owes every delivery of it.
OwesWhole ==
  \A w \in Workers, d \in Deliveries :
     /\ phase[w] = "list" /\ index[w] = 1 /\ batch[w] \in Seq(Events)
     /\ d[1] \in InBatch(w)
     => Owes(w, d)

\* A reset worker has no index into its batch.
LEMMA EmptyBatch == 1 .. Len(<<>>) = {}
  OBVIOUS

\* The occurrence of the event in the batch is at the index or after it.
LEMMA OwesAll == OwesWhole
  <1> SUFFICES ASSUME NEW w \in Workers, NEW d \in Deliveries,
                      phase[w] = "list", index[w] = 1, batch[w] \in Seq(Events),
                      d[1] \in InBatch(w)
               PROVE  Owes(w, d)
    BY Zenon DEF OwesWhole
  <1>1. PICK i \in 1 .. Len(batch[w]) : batch[w][i] = d[1]
    BY DEF InBatch
  <1>2. i > 1 \/ i = 1
    OBVIOUS
  <1>3. Unvisited(w, d)
    BY <1>1, <1>2, Zenon DEF Unvisited
  <1> QED BY <1>3, Zenon DEF Owes

\* An idle worker has claimed nothing, and takes on all of its new batch.
LEMMA TakeLoss ==
  ASSUME ClaimInv, TypeOK', LossInv, NEW w \in Workers, Take(w)
  PROVE  LossInv'
  <1>0. /\ phase \in [Workers -> Phases] /\ batch \in [Workers -> Seq(Events)]
        /\ batch' \in [Workers -> Seq(Events)]
    BY Zenon DEF ClaimInv, TypeOK
  <1>1. PICK b \in Batches : batch' = [batch EXCEPT ![w] = b]
    BY Zenon DEF Take
  <1>2. /\ phase[w] = "idle" /\ phase' = [phase EXCEPT ![w] = "list"]
        /\ UNCHANGED <<now, subs, claims, received, dlq, committed, tried, abandoned,
                       index, todo, current, failures, failedEvents>>
    BY Zenon DEF Take, Goto
  <1>3. index[w] = 1 /\ batch[w] = <<>> /\ \A d \in tried[w] : d[1] \in InBatch(w)
    BY <1>2 DEF LossInv
  <1>4. StepOf(w)
    BY <1>0, <1>1, <1>2, Zenon DEF StepOf, Same
  <1>5. /\ phase'[w] = "list" /\ index'[w] = 1 /\ batch'[w] \in Seq(Events)
    BY <1>0, <1>2, <1>3
  <1>6. tried[w] = {} /\ tried'[w] = {}
    <2>1. InBatch(w) = {}
      BY <1>3, EmptyBatch, Zenon DEF InBatch
    <2> QED BY <1>2, <1>3, <2>1, Zenon
  <1>7. Placed(w)'
    BY <1>5, <1>6, Zenon DEF Placed, Holding
  <1>8. ASSUME NEW d \in Deliveries PROVE ~Answers(w, d) /\ ~Guards(w, d)
    BY <1>2, <1>6, Zenon DEF Answers, Guards, Holds, Holding
  <1>9. ASSUME NEW d \in Deliveries PROVE ~Through(w, d)'
    <2>1. OwesWhole'
      BY OwesAll, PTL
    <2> QED BY <1>5, <2>1, Zenon DEF OwesWhole, Through
  <1>10. claims' = claims /\ now' = now /\ committed' = committed
    BY <1>2, Zenon
  <1> QED BY <1>4, <1>7, <1>8, <1>9, <1>10, LossFrame, Zenon

\* A handler that is called again owes all of its batch; the live claims it
\* made are abandoned, but for those that another worker holds by now.
LEMMA RetryLoss ==
  ASSUME ClaimInv, TypeOK', LossInv, NEW w \in Workers, Retry(w),
         phase[w] \in {"list", "claim"}, dlq \subseteq dlq',
         \A v \in Workers : v # w => tried'[v] = tried[v],
         tried[w] \subseteq tried'[w], \A d \in tried'[w] : d[1] \in InBatch(w),
         \A d \in Deliveries : claims'[d] = claims[d] \/ d \in tried'[w]
  PROVE  LossInv'
  <1>0. /\ phase \in [Workers -> Phases] /\ batch \in [Workers -> Seq(Events)]
        /\ index \in [Workers -> Nat \ {0}] /\ todo \in [Workers -> SUBSET Subs]
        /\ failures \in [Workers -> BOOLEAN]
        /\ failedEvents \in [Workers -> SUBSET Events]
    BY Zenon DEF ClaimInv, TypeOK
  <1>1. /\ phase' = [phase EXCEPT ![w] = "list"]
        /\ index' = [index EXCEPT ![w] = 1]
        /\ todo' = [todo EXCEPT ![w] = {}]
        /\ failures' = [failures EXCEPT ![w] = FALSE]
        /\ failedEvents' = [failedEvents EXCEPT ![w] = {}]
        /\ UNCHANGED <<now, subs, received, committed, batch, current>>
        /\ abandoned \subseteq abandoned'
    BY Zenon DEF Retry, Goto
  <1>2. StepOf(w)
    BY <1>0, <1>1, Zenon DEF StepOf, Same
  <1>3. phase'[w] = "list" /\ index'[w] = 1 /\ batch'[w] \in Seq(Events)
        /\ batch'[w] = batch[w]
    BY <1>0, <1>1, Zenon
  <1>4. InBatch(w)' = InBatch(w) /\ committed' = committed /\ now' = now
    BY <1>1, <1>3, Zenon DEF InBatch
  <1>5. Placed(w)'
    BY <1>3, <1>4, Zenon DEF Placed, Holding
  <1>6. ASSUME NEW d \in Deliveries, d[1] \in InBatch(w) PROVE Owes(w, d)'
    <2>1. OwesWhole'
      BY OwesAll, PTL
    <2> QED BY <1>3, <1>4, <1>6, <2>1, Zenon DEF OwesWhole
  <1>7. ASSUME NEW d \in Deliveries
        PROVE  (Answers(w, d) => Answers(w, d)') /\ ~Through(w, d)'
    BY <1>4, <1>6, Zenon DEF Answers, Through, Owes
  <1>8. ASSUME NEW d \in Deliveries, d \notin abandoned', Leased(claims[d], now)'
        PROVE  /\ Leased(claims[d], now)
               /\ Guards(w, d) => \E v \in Workers : v # w /\ Guards(v, d)
    <2>0. \A v \in Workers : Holds(v, d) => v # w /\ Leased(claims[d], now)
      BY HeldNotClaimable, Zenon DEF Holds, Holding
    <2>1. CASE d \in tried'[w]
      <3>1. PICK v \in Workers : Holds(v, d)
        BY <1>4, <1>8, <2>1, Zenon DEF Retry
      <3> QED BY <2>0, <3>1, Zenon DEF Guards
    <2>2. CASE d \notin tried'[w]
      <3>1. claims'[d] = claims[d] /\ d \notin tried[w]
        BY <2>2, Zenon
      <3> QED BY <1>4, <1>8, <2>0, <3>1, Zenon DEF Guards
    <2> QED BY <2>1, <2>2, Zenon
  <1> QED BY <1>2, <1>4, <1>5, <1>7, <1>8, LossFrame, Zenon

\* The subscriptions of the next event are to be visited.
LEMMA ListLoss ==
  ASSUME ClaimInv, LossInv, NEW w \in Workers, ListSubscriptions(w)
  PROVE  LossInv'
  <1>0. /\ phase \in [Workers -> Phases] /\ todo \in [Workers -> SUBSET Subs]
    BY DEF ClaimInv, TypeOK
  <1>1. /\ phase[w] = "list" /\ phase' = [phase EXCEPT ![w] = "claim"]
        /\ todo' = [todo EXCEPT ![w] = subs[Event(w)]]
        /\ UNCHANGED <<now, subs, claims, received, dlq, committed, tried, abandoned,
                       batch, index, current, failures, failedEvents>>
    BY Zenon DEF ListSubscriptions, Goto
  <1>2. StepOf(w)
    BY <1>0, <1>1, Zenon DEF StepOf, Same
  <1>3. phase'[w] = "claim" /\ todo'[w] = subs[Event(w)]
    BY <1>0, <1>1
  <1>4. InBatch(w)' = InBatch(w) /\ claims' = claims /\ now' = now
        /\ committed' = committed /\ tried'[w] = tried[w]
    BY <1>1, Zenon DEF InBatch
  <1>5. Placed(w)'
    BY <1>3, <1>4, Zenon DEF Placed, Holding, LossInv
  <1>6. ASSUME NEW d \in Deliveries, SawFailure(w, d) PROVE SawFailure(w, d)'
    BY <1>1, <1>6, Zenon DEF SawFailure, Holding
  <1>7. ASSUME NEW d \in Deliveries, d[2] \in subs[d[1]], Owes(w, d) PROVE Owes(w, d)'
    <2>1. CASE Unvisited(w, d)
      <3>1. Unvisited(w, d)'
        BY <1>1, <1>3, <1>7, <2>1, Zenon DEF Unvisited, Event
      <3> QED BY <1>4, <1>7, <3>1, Zenon DEF Owes
    <2> QED BY <1>1, <1>4, <1>6, <1>7, <2>1, Zenon DEF Owes, Holds, Holding
  <1>8. ASSUME NEW d \in Deliveries, Guards(w, d) PROVE Guards(w, d)'
    BY <1>1, <1>4, <1>6, <1>8, Zenon DEF Guards, Holds, Holding
  <1> QED BY <1>2, <1>4, <1>5, <1>7, <1>8, GoesOn, Zenon

\* The delivery at hand belongs to an event of the batch.
LEMMA EventInBatch ==
  ASSUME ClaimInv, NEW w \in Workers, phase[w] \in Holding \cup {"claim"}
  PROVE  Event(w) \in InBatch(w)
  BY Zenon DEF ClaimInv, InRange, Event, InBatch

\* A granted claim is held by the worker that asked for it.
LEMMA ClaimedLoss ==
  ASSUME ClaimInv, LossInv, NEW w \in Workers, NEW s \in Subs, Claimed(w, s)
  PROVE  LossInv'
  <1>0. /\ phase \in [Workers -> Phases] /\ todo \in [Workers -> SUBSET Subs]
        /\ current \in [Workers -> Deliveries \cup {NoDelivery}]
        /\ claims \in [Deliveries -> Claim] /\ tried \in [Workers -> SUBSET Deliveries]
    BY DEF ClaimInv, TypeOK
  <1>1. PICK e : e = <<Event(w), s>>
    BY Zenon
  <1>2. /\ phase[w] = "claim" /\ phase' = [phase EXCEPT ![w] = "dispatch"]
        /\ claims' = [claims EXCEPT ![e] = ClaimDelivery(claims[e], now)]
        /\ todo' = [todo EXCEPT ![w] = todo[w] \ {s}]
        /\ current' = [current EXCEPT ![w] = e]
        /\ tried' = [tried EXCEPT ![w] = tried[w] \cup {e}]
        /\ UNCHANGED <<now, subs, received, dlq, committed, abandoned, batch,
                       index, failures, failedEvents>>
    BY <1>1, Zenon DEF Claimed, Goto
  <1>3. StepOf(w)
    BY <1>0, <1>2, Zenon DEF StepOf, Same
  <1>4. /\ phase'[w] = "dispatch" /\ todo'[w] = todo[w] \ {s} /\ current'[w] = e
        /\ tried'[w] = tried[w] \cup {e}
    BY <1>0, <1>2
  <1>5. InBatch(w)' = InBatch(w) /\ Event(w)' = Event(w) /\ now' = now
        /\ committed' = committed
    BY <1>2, Zenon DEF InBatch, Event
  <1>6. Placed(w)'
    <2>1. e[1] = Event(w)
      BY <1>1
    <2>2. Event(w) \in InBatch(w)
      BY <1>2, EventInBatch, Zenon
    <2>3. \A d \in tried'[w] : d[1] \in InBatch(w)
      BY <1>4, <2>1, <2>2, Zenon DEF LossInv
    <2> QED BY <1>4, <1>5, <2>1, <2>3, Zenon DEF Placed, Holding
  <1>7. ASSUME NEW d \in Deliveries, SawFailure(w, d) PROVE SawFailure(w, d)'
    BY <1>2, <1>4, <1>5, <1>7, Zenon DEF SawFailure, Holding
  <1>8. ASSUME NEW d \in Deliveries, Owes(w, d) PROVE Owes(w, d)'
    <2>1. CASE d = e
      BY <1>4, <1>5, <1>8, <2>1, Zenon DEF Owes, Holds, Holding
    <2>2. CASE d # e /\ Unvisited(w, d)
      <3>1. PICK i \in 1 .. Len(batch[w]) : batch[w][i] = d[1]
               /\ (i > index[w] \/ (i = index[w] /\ d[2] \in todo[w]))
        BY <1>2, <2>2, Zenon DEF Unvisited
      <3>2. i = index[w] => d[2] # s
        BY <1>1, <2>2, <3>1 DEF Event, Deliveries
      <3>3. Unvisited(w, d)'
        BY <1>2, <1>4, <3>1, <3>2, Zenon DEF Unvisited, Holding
      <3> QED BY <1>5, <1>8, <3>3, Zenon DEF Owes
    <2> QED BY <1>2, <1>5, <1>7, <1>8, <2>1, <2>2, Zenon DEF Owes, Holds, Holding
  <1>9. ASSUME NEW d \in Deliveries, Guards(w, d) PROVE Guards(w, d)'
    BY <1>2, <1>4, <1>7, <1>9, Zenon DEF Guards, Holds, Holding
  <1>10. ASSUME NEW d \in Deliveries, Leased(claims[d], now)'
         PROVE  Leased(claims[d], now) \/ Guards(w, d)'
    <2>1. CASE d = e
      BY <1>4, <2>1, Zenon DEF Guards, Holds, Holding
    <2>2. CASE d # e
      <3>1. claims'[d] = claims[d]
        BY <1>0, <1>2, <2>2, Zenon
      <3> QED BY <1>5, <1>10, <3>1, Zenon
    <2> QED BY <2>1, <2>2, Zenon
  <1>11. tried[w] \subseteq tried'[w]
    BY <1>4, Zenon
  <1> QED BY <1>3, <1>5, <1>6, <1>8, <1>9, <1>10, <1>11, GoesOn, Zenon

\* A claim is refused because the delivery was received, or because the claim
\* is alive; then some worker guards it, and answers for the delivery.
LEMMA NotClaimedLoss ==
  ASSUME ClaimInv, LossInv, NEW w \in Workers, NEW s \in Subs, NotClaimed(w, s)
  PROVE  LossInv'
  <1>0. /\ todo \in [Workers -> SUBSET Subs] /\ claims \in [Deliveries -> Claim]
        /\ batch \in [Workers -> Seq(Events)]
    BY Zenon DEF ClaimInv, TypeOK
  <1>1. PICK e : e = <<Event(w), s>>
    BY Zenon
  <1>2. /\ phase[w] = "claim" /\ ~Claimable(claims[e], now)
        /\ todo' = [todo EXCEPT ![w] = todo[w] \ {s}]
        /\ UNCHANGED <<now, subs, claims, received, dlq, committed, tried, abandoned,
                       phase, batch, index, current, failures, failedEvents>>
    BY <1>1, Zenon DEF NotClaimed
  <1>3. StepOf(w)
    BY <1>0, <1>2, Zenon DEF StepOf, Same
  <1>4. todo'[w] = todo[w] \ {s}
    BY <1>0, <1>2, Zenon
  <1>5. /\ InBatch(w)' = InBatch(w) /\ Event(w)' = Event(w) /\ claims' = claims
        /\ now' = now /\ committed' = committed /\ tried'[w] = tried[w]
        /\ received' = received /\ abandoned' = abandoned /\ dlq' = dlq
    BY <1>2 DEF InBatch, Event
  <1>6. Placed(w)'
    BY <1>2, <1>5, Zenon DEF Placed, Holding, LossInv
  <1>7. e \in Deliveries
    BY <1>1, <1>2, EventType, Zenon DEF Deliveries
  <1>8. e \in received \/ Leased(claims[e], now)
    <2>1. PICK c : c = claims[e]
      BY Zenon
    <2>2. c.status = "completed" => e \in received
      BY <1>7, <2>1, Zenon DEF ClaimInv, ClaimShape
    <2>3. /\ c.status = "processing" <=> c.leaseUntil # NoLease
          /\ c.leaseUntil \in Nat /\ now \in Nat
      BY <1>7, <2>1, Zenon DEF ClaimInv, ClaimShape, TypeOK, Claim
    <2>4. ~Claimable(c, now)
      BY <1>2, <2>1, Zenon
    <2>5. c.status = "completed" \/ Leased(c, now)
      BY <2>3, <2>4 DEF Claimable, Leased
    <2> QED BY <2>1, <2>2, <2>5, Zenon
  <1>9. ASSUME NEW d \in Deliveries, SawFailure(w, d) PROVE SawFailure(w, d)'
    BY <1>2, <1>5, <1>9, Zenon DEF SawFailure
  <1>10. \A d \in Deliveries : ~Holds(w, d)
    BY <1>2, Zenon DEF Holds, Holding
  <1>11. ASSUME NEW d \in Deliveries, d # e, Owes(w, d) PROVE Owes(w, d)'
    <2>1. CASE Unvisited(w, d)
      <3>1. PICK i \in 1 .. Len(batch[w]) : batch[w][i] = d[1]
               /\ (i > index[w] \/ (i = index[w] /\ d[2] \in todo[w]))
        BY <1>2, <2>1, Zenon DEF Unvisited
      <3>2. i = index[w] => d[2] # s
        BY <1>1, <1>11, <3>1 DEF Event, Deliveries
      <3>3. Unvisited(w, d)'
        BY <1>2, <1>4, <3>1, <3>2, Zenon DEF Unvisited
      <3> QED BY <1>5, <1>11, <3>3, Zenon DEF Owes
    <2> QED BY <1>5, <1>9, <1>10, <1>11, <2>1, Zenon DEF Owes
  <1>12. ASSUME NEW d \in Deliveries, Guards(w, d) PROVE Guards(w, d)'
    BY <1>5, <1>9, <1>10, <1>12, Zenon DEF Guards
  <1>13. ASSUME NEW d \in Deliveries, d \notin received, d \notin abandoned,
                d[1] \notin dlq
         PROVE  /\ Answers(w, d) =>
                     Answers(w, d)' \/ \E v \in Workers : v # w /\ Answers(v, d)
                /\ Through(w, d)' =>
                     Through(w, d) \/ \E v \in Workers : Answers(v, d)
    <2>1. CASE d = e
      <3>1. PICK v \in Workers : Guards(v, d)
        BY <1>8, <1>13, <2>1, Zenon DEF LossInv
      <3>2. Answers(v, d)
        BY <3>1, GuardsAnswers, Zenon
      <3>3. CASE v = w
        <4>1. SawFailure(w, d)'
          BY <1>9, <1>10, <3>1, <3>3, Zenon DEF Guards
        <4> QED BY <1>5, <3>2, <3>3, <4>1, Zenon DEF Answers, Owes
      <3> QED BY <3>2, <3>3, Zenon
    <2>2. CASE d # e
      BY <1>5, <1>11, <2>2, Zenon DEF Answers, Through
    <2> QED BY <2>1, <2>2, Zenon
  <1> QED BY <1>3, <1>5, <1>6, <1>12, <1>13, LossFrame, Zenon

\* The event whose deliveries failed is noted before the next one begins.
LEMMA DeliveredLoss ==
  ASSUME ClaimInv, LossInv, NEW w \in Workers, Delivered(w)
  PROVE  LossInv'
  <1>0. /\ phase \in [Workers -> Phases] /\ batch \in [Workers -> Seq(Events)]
        /\ index \in [Workers -> Nat \ {0}] /\ failures \in [Workers -> BOOLEAN]
        /\ failedEvents \in [Workers -> SUBSET Events]
    BY Zenon DEF ClaimInv, TypeOK
  <1>1. /\ phase[w] = "claim" /\ todo[w] = {}
        /\ phase' = [phase EXCEPT ![w] = "list"]
        /\ index' = [index EXCEPT ![w] = index[w] + 1]
        /\ failures' = [failures EXCEPT ![w] = FALSE]
        /\ failedEvents' = [failedEvents EXCEPT ![w] =
              IF failures[w] THEN failedEvents[w] \cup {Event(w)} ELSE failedEvents[w]]
        /\ UNCHANGED <<now, subs, claims, received, dlq, committed, tried, abandoned,
                       batch, todo, current>>
    BY Zenon DEF Delivered, Goto
  <1>2. StepOf(w)
    BY <1>0, <1>1, Zenon DEF StepOf, Same
  <1>3. /\ phase'[w] = "list" /\ index'[w] = index[w] + 1 /\ index[w] \in Nat
        /\ failedEvents[w] \subseteq failedEvents'[w]
        /\ failures[w] => Event(w) \in failedEvents'[w]
    BY <1>0, <1>1, Zenon
  <1>4. InBatch(w)' = InBatch(w) /\ claims' = claims /\ now' = now
        /\ committed' = committed /\ batch'[w] = batch[w] /\ tried'[w] = tried[w]
    BY <1>1, Zenon DEF InBatch
  <1>5. Placed(w)'
    BY <1>3, <1>4, Zenon DEF Placed, Holding, LossInv
  <1>6. ASSUME NEW d \in Deliveries, SawFailure(w, d) PROVE SawFailure(w, d)'
    BY <1>3, <1>6, Zenon DEF SawFailure
  <1>7. ASSUME NEW d \in Deliveries, Owes(w, d) PROVE Owes(w, d)'
    <2>1. CASE Unvisited(w, d)
      <3>1. PICK i \in 1 .. Len(batch[w]) : batch[w][i] = d[1] /\ i > index[w]
        BY <1>1, <2>1, Zenon DEF Unvisited
      <3>2. i > index'[w] \/ i = index'[w]
        BY <1>3, <3>1
      <3>3. Unvisited(w, d)'
        BY <1>3, <1>4, <3>1, <3>2, Zenon DEF Unvisited
      <3> QED BY <1>4, <1>7, <3>3, Zenon DEF Owes
    <2> QED BY <1>1, <1>4, <1>6, <1>7, <2>1, Zenon DEF Owes, Holds, Holding
  <1>8. ASSUME NEW d \in Deliveries, Guards(w, d) PROVE Guards(w, d)'
    BY <1>1, <1>4, <1>6, <1>8, Zenon DEF Guards, Holds, Holding
  <1> QED BY <1>2, <1>4, <1>5, <1>7, <1>8, GoesOn, Zenon

\* While the request is sent the worker goes on holding the claim.
LEMMA DispatchLoss ==
  ASSUME ClaimInv, LossInv, NEW w \in Workers, DispatchOK(w) \/ DispatchError(w)
  PROVE  LossInv'
  <1>0. phase \in [Workers -> Phases]
    BY Zenon DEF ClaimInv, TypeOK
  <1>1. /\ phase[w] = "dispatch" /\ received \subseteq received'
        /\ \/ phase' = [phase EXCEPT ![w] = "complete"]
           \/ phase' = [phase EXCEPT ![w] = "release"]
        /\ UNCHANGED <<now, subs, claims, dlq, committed, tried, abandoned, batch,
                       index, todo, current, failures, failedEvents>>
    BY Zenon DEF DispatchOK, DispatchError, Goto
  <1>2. StepOf(w)
    BY <1>0, <1>1, Zenon DEF StepOf, Same
  <1>3. phase[w] \in Holding /\ phase'[w] \in Holding
        /\ phase'[w] \in {"complete", "release"}
    BY <1>0, <1>1 DEF Holding
  <1>4. InBatch(w)' = InBatch(w) /\ Event(w)' = Event(w) /\ claims' = claims
        /\ now' = now /\ committed' = committed /\ tried'[w] = tried[w]
    BY <1>1, Zenon DEF InBatch, Event
  <1>5. Placed(w)'
    BY <1>1, <1>3, <1>4, Zenon DEF Placed, LossInv
  <1>6. ASSUME NEW d \in Deliveries
        PROVE  (Owes(w, d) => Owes(w, d)') /\ (Guards(w, d) => Guards(w, d)')
    <2>1. Holds(w, d) => Holds(w, d)'
      BY <1>1, <1>3, Zenon DEF Holds
    <2>2. Unvisited(w, d) => Unvisited(w, d)'
      BY <1>1, <1>3, Zenon DEF Unvisited, Holding
    <2>3. SawFailure(w, d) => SawFailure(w, d)'
      BY <1>1, <1>3, <1>4, Zenon DEF SawFailure
    <2> QED BY <1>4, <2>1, <2>2, <2>3, Zenon DEF Owes, Guards
  <1> QED BY <1>2, <1>4, <1>5, <1>6, GoesOn, Zenon

\* A worker lets go of a claim once it was received, or with a failure that
\* it will report, whether or not the claim could be released.
LEMMA NextLoss ==
  ASSUME ClaimInv, LossInv, NEW w \in Workers,
         Complete(w) \/ CompleteError(w) \/ Release(w) \/ ReleaseError(w)
  PROVE  LossInv'
  <1>0. /\ phase \in [Workers -> Phases] /\ failures \in [Workers -> BOOLEAN]
        /\ current \in [Workers -> Deliveries \cup {NoDelivery}]
        /\ claims \in [Deliveries -> Claim]
    BY DEF ClaimInv, TypeOK
  <1>1. PICK e : e = current[w]
    BY Zenon
  <1>2. /\ phase[w] \in Holding
        /\ phase' = [phase EXCEPT ![w] = "claim"]
        /\ current' = [current EXCEPT ![w] = NoDelivery]
        /\ UNCHANGED <<now, subs, received, dlq, committed, tried, abandoned, batch,
                       index, todo, failedEvents>>
    BY Zenon DEF Complete, CompleteError, Release, ReleaseError, NextSubscription, Goto, Holding
  <1>3. \/ failures' = [failures EXCEPT ![w] = TRUE]
        \/ phase[w] = "complete" /\ failures' = [failures EXCEPT ![w] = failures[w]]
    BY <1>0, Zenon DEF Complete, CompleteError, Release, ReleaseError, NextSubscription
  <1>4. StepOf(w)
    BY <1>0, <1>2, <1>3, Zenon DEF StepOf, Same
  <1>5. /\ phase'[w] = "claim" /\ (failures[w] => failures'[w])
        /\ phase[w] = "complete" \/ failures'[w]
    BY <1>0, <1>2, <1>3, Zenon
  <1>6. InBatch(w)' = InBatch(w) /\ Event(w)' = Event(w) /\ now' = now
        /\ committed' = committed /\ tried'[w] = tried[w] /\ received' = received
    BY <1>2, Zenon DEF InBatch, Event
  <1>7. Placed(w)'
    BY <1>5, <1>6, Zenon DEF Placed, Holding, LossInv
  <1>8. /\ e \in Deliveries /\ e[1] = Event(w) /\ e \in tried[w]
        /\ phase[w] = "complete" => e \in received
    BY <1>1, <1>2, Zenon DEF ClaimInv, HoldSafe, LossInv
  <1>9. e \notin received => SawFailure(w, e)'
    BY <1>5, <1>6, <1>8, Zenon DEF SawFailure
  <1>10. ASSUME NEW d \in Deliveries, SawFailure(w, d) PROVE SawFailure(w, d)'
    BY <1>2, <1>5, <1>6, <1>10, Zenon DEF SawFailure
  <1>11. ASSUME NEW d \in Deliveries, d \notin received
         PROVE  (Owes(w, d) => Owes(w, d)') /\ (Guards(w, d) => Guards(w, d)')
    <2>1. Holds(w, d) => d = e
      BY <1>1, Zenon DEF Holds
    <2>2. Unvisited(w, d) => Unvisited(w, d)'
      BY <1>2, <1>5, Zenon DEF Unvisited, Holding
    <2> QED BY <1>6, <1>8, <1>9, <1>10, <1>11, <2>1, <2>2, Zenon DEF Owes, Guards
  <1>12. ASSUME NEW d \in Deliveries, d \notin received, Leased(claims[d], now)'
         PROVE  Leased(claims[d], now) \/ Guards(w, d)'
    <2>1. \/ claims' = claims
          \/ claims' = [claims EXCEPT ![e] = CompleteDelivery(claims[e], now)]
          \/ claims' = [claims EXCEPT ![e] = ReleaseDelivery(claims[e], now)]
      BY <1>1, Zenon DEF Complete, CompleteError, Release, ReleaseError
    <2>2. d # e => claims'[d] = claims[d]
      BY <1>0, <2>1, Zenon
    <2> QED BY <1>6, <1>8, <1>9, <1>12, <2>2, Zenon DEF Guards
  <1> QED BY <1>4, <1>6, <1>7, <1>11, <1>12, GoesOn, Zenon

\* A worker past the end of its batch owes only what failed.
LEMMA PastEnd ==
  ASSUME ClaimInv, NEW w \in Workers, phase[w] \in {"list", "commit"},
         index[w] > Len(batch[w]), NEW d \in Deliveries, d[1] \notin failedEvents[w]
  PROVE  ~Owes(w, d) /\ ~Guards(w, d)
  <1>1. index[w] \in Nat /\ Len(batch[w]) \in Nat
    BY DEF ClaimInv, TypeOK
  <1>2. \A i \in 1 .. Len(batch[w]) : ~(i > index[w]) /\ i # index[w]
    BY <1>1
  <1>3. ~Unvisited(w, d)
    BY <1>2, Zenon DEF Unvisited
  <1>4. ~Holds(w, d) /\ ~SawFailure(w, d)
    BY Zenon DEF Holds, SawFailure, Holding
  <1> QED BY <1>3, <1>4, Zenon DEF Owes, Guards

\* After Report nothing is owed: the failed events are in the topic.
LEMMA ReportLoss ==
  ASSUME ClaimInv, LossInv, NEW w \in Workers, Report(w)
  PROVE  LossInv'
  <1>0. phase \in [Workers -> Phases]
    BY Zenon DEF ClaimInv, TypeOK
  <1>1. /\ phase[w] = "list" /\ index[w] > Len(batch[w])
        /\ dlq' = dlq \cup failedEvents[w]
        /\ phase' = [phase EXCEPT ![w] = "commit"]
        /\ UNCHANGED <<now, subs, claims, received, committed, tried, abandoned, batch,
                       index, todo, current, failures, failedEvents>>
    BY Zenon DEF Report, Goto
  <1>2. StepOf(w)
    BY <1>0, <1>1, Zenon DEF StepOf, Same
  <1>3. phase'[w] = "commit"
    BY <1>0, <1>1, Zenon
  <1>4. InBatch(w)' = InBatch(w) /\ claims' = claims /\ now' = now
        /\ committed' = committed /\ tried'[w] = tried[w]
    BY <1>1, Zenon DEF InBatch
  <1>5. Placed(w)'
    BY <1>1, <1>3, <1>4, Zenon DEF Placed, Holding, LossInv
  <1>6. ASSUME NEW d \in Deliveries, d[1] \notin dlq' PROVE ~Owes(w, d) /\ ~Guards(w, d)
    BY <1>1, <1>6, PastEnd, Zenon
  <1> QED BY <1>2, <1>4, <1>5, <1>6, LossFrame, Zenon DEF Answers, Through

\* What a worker lets go of as its batch ends.
LEMMA ResetWorker ==
  ASSUME ClaimInv, NEW w \in Workers, Reset(w)
  PROVE  /\ \A v \in Workers : v # w => Same(v)
         /\ phase'[w] = "idle" /\ index'[w] = 1 /\ batch'[w] = <<>> /\ tried'[w] = {}
         /\ InBatch(w)' = {}
  <1>1. /\ \A v \in Workers : v # w => Same(v)
        /\ phase'[w] = "idle" /\ index'[w] = 1 /\ batch'[w] = <<>> /\ tried'[w] = {}
    BY Zenon DEF Reset, Goto, Same, ClaimInv, TypeOK
  <1>2. InBatch(w)' = {}
    BY <1>1, EmptyBatch, Zenon DEF InBatch
  <1> QED BY <1>1, <1>2, Zenon

\* A worker that commits is through with its batch: another one answers for
\* what is not done.
LEMMA CommitLoss ==
  ASSUME ClaimInv, LossInv, NEW w \in Workers, Commit(w)
  PROVE  LossInv'
  <1>1. /\ phase[w] = "commit" /\ committed' = committed \cup InBatch(w) /\ Reset(w)
        /\ UNCHANGED <<now, subs, claims, received, dlq, abandoned>>
    BY Zenon DEF Commit
  <1>2. StepOf(w)
    BY <1>1, ResetWorker, Zenon DEF StepOf
  <1>3. Placed(w)' /\ InBatch(w)' = {}
    BY <1>1, ResetWorker, Zenon DEF Placed, Holding
  <1>4. claims' = claims /\ now' = now /\ dlq' = dlq
    BY <1>1, Zenon
  <1>5. index[w] > Len(batch[w]) /\ failedEvents[w] \subseteq dlq
    BY <1>1, Zenon DEF LossInv
  <1>6. ASSUME NEW d \in Deliveries, d[1] \notin dlq PROVE ~Owes(w, d) /\ ~Guards(w, d)
    BY <1>1, <1>5, <1>6, PastEnd, Zenon
  <1> QED BY <1>1, <1>2, <1>3, <1>4, <1>6, LossFrame, Zenon DEF Answers, Through

\* What a stopped worker had claimed is abandoned; it answers for nothing else.
LEMMA StopLoss ==
  ASSUME ClaimInv, LossInv, NEW w \in Workers, Stop(w)
  PROVE  LossInv'
  <1>1. /\ abandoned' = abandoned \cup tried[w] /\ Reset(w)
        /\ UNCHANGED <<now, subs, claims, received, dlq, committed>>
    BY Zenon DEF Stop
  <1>2. StepOf(w)
    BY <1>1, ResetWorker, Zenon DEF StepOf
  <1>3. Placed(w)' /\ InBatch(w)' = {}
    BY <1>1, ResetWorker, Zenon DEF Placed, Holding
  <1>4. claims' = claims /\ now' = now /\ committed' = committed
    BY <1>1, Zenon
  <1>5. ASSUME NEW d \in Deliveries, d \notin abandoned'
        PROVE  ~Answers(w, d) /\ ~Guards(w, d)
    <2>1. d \notin tried[w]
      BY <1>1, <1>5, Zenon
    <2>2. ~Holds(w, d)
      BY <2>1, Zenon DEF LossInv, Holds
    <2> QED BY <2>1, <2>2, Zenon DEF Answers, Guards
  <1> QED BY <1>2, <1>3, <1>4, <1>5, LossFrame, Zenon DEF Through

\* The clock only ends leases.
LEMMA TickLoss ==
  ASSUME ClaimInv, LossInv, Tick \/ UNCHANGED vars
  PROVE  LossInv'
  <1>1. /\ now \in Nat /\ now' \in {now, now + 1}
        /\ claims \in [Deliveries -> Claim]
        /\ UNCHANGED <<subs, claims, received, dlq, committed, tried, abandoned, phase,
                       batch, index, todo, current, failures, failedEvents>>
    BY Zenon DEF ClaimInv, TypeOK, Tick, vars
  <1>2. ASSUME NEW d \in Deliveries, Leased(claims[d], now)' PROVE Leased(claims[d], now)
    <2>1. claims[d].leaseUntil \in Nat
      BY <1>1, Zenon DEF Claim
    <2> QED BY <1>1, <1>2, <2>1 DEF Leased
  <1>3. \A v \in Workers : Same(v)
    BY <1>1 DEF Same
  <1>4. ASSUME NEW v \in Workers, NEW d \in Deliveries
        PROVE  /\ Guards(v, d)' <=> Guards(v, d)
               /\ Answers(v, d)' <=> Answers(v, d)
               /\ Through(v, d)' <=> Through(v, d)
    BY <1>3, OwesFrame, Zenon
  <1>5. \A v \in Workers : InBatch(v)' = InBatch(v) /\ Event(v)' = Event(v)
    BY <1>1, Zenon DEF InBatch, Event
  <1>6. ASSUME NEW v \in Workers PROVE Placed(v)'
    BY <1>1, <1>5, Zenon DEF LossInv, Placed
  <1>7. ASSUME NEW d \in Deliveries \ (received \cup abandoned), d[1] \notin dlq,
               Leased(claims[d], now)'
        PROVE  \E v \in Workers : Guards(v, d)'
    BY <1>2, <1>4, <1>7, Zenon DEF LossInv
  <1>8. ASSUME NEW d \in Deliveries \ (received \cup abandoned), d[1] \notin dlq,
               d[2] \in subs[d[1]],
               d[1] \in committed \/ \E v \in Workers : Through(v, d)'
        PROVE  \E v \in Workers : Answers(v, d)'
    BY <1>4, <1>8, Zenon DEF LossInv
  <1> QED BY <1>1, <1>6, <1>7, <1>8, Zenon DEF LossInv, Placed

\* Every step leaves each delivery to a worker that answers for it.
LEMMA LossStep == ClaimInv /\ LossInv /\ [Next]_vars => LossInv'
  <1> SUFFICES ASSUME ClaimInv, LossInv, [Next]_vars PROVE LossInv'
    BY Zenon
  <1>0. /\ TypeOK' /\ claims \in [Deliveries -> Claim]
        /\ tried \in [Workers -> SUBSET Deliveries]
        /\ \A w \in Workers : \A d \in tried[w] : d[1] \in InBatch(w)
    BY TypeStep, Zenon DEF ClaimInv, TypeOK, LossInv
  <1>1. ASSUME NEW w \in Workers, ListError(w) \/ ReportError(w) PROVE LossInv'
    <2>1. /\ Retry(w) /\ phase[w] = "list" /\ claims' = claims
          /\ tried' = tried /\ dlq \subseteq dlq'
      BY <1>1, Zenon DEF ListError, ReportError
    <2> QED BY <1>0, <2>1, RetryLoss, Zenon
  <1>2. ASSUME NEW w \in Workers, NEW s \in Subs, ClaimError(w, s) PROVE LossInv'
    <2>1. PICK e : e = <<Event(w), s>>
      BY Zenon
    <2>2. /\ Retry(w) /\ phase[w] = "claim" /\ dlq' = dlq
          /\ \/ claims' = claims /\ tried' = tried
             \/ /\ claims' = [claims EXCEPT ![e] = ClaimDelivery(claims[e], now)]
                /\ tried' = [tried EXCEPT ![w] = tried[w] \cup {e}]
      BY <1>2, <2>1, Zenon DEF ClaimError
    <2>3. CASE claims' = claims /\ tried' = tried
      BY <1>0, <2>2, <2>3, RetryLoss, Zenon
    <2>4. CASE /\ claims' = [claims EXCEPT ![e] = ClaimDelivery(claims[e], now)]
               /\ tried' = [tried EXCEPT ![w] = tried[w] \cup {e}]
      <3>1. /\ tried'[w] = tried[w] \cup {e}
            /\ \A v \in Workers : v # w => tried'[v] = tried[v]
        BY <1>0, <2>4, Zenon
      <3>2. e[1] = Event(w)
        BY <2>1
      <3>3. e[1] \in InBatch(w)
        BY <2>2, <3>2, EventInBatch, Zenon
      <3>4. \A d \in tried'[w] : d[1] \in InBatch(w)
        BY <1>0, <3>1, <3>3, Zenon
      <3>5. \A d \in Deliveries : claims'[d] = claims[d] \/ d \in tried'[w]
        BY <1>0, <2>4, <3>1, Zenon
      <3> QED BY <1>0, <2>2, <3>1, <3>4, <3>5, RetryLoss, Zenon
    <2> QED BY <2>2, <2>3, <2>4, Zenon
  <1>3. CASE Tick \/ UNCHANGED vars
    BY <1>3, TickLoss, Zenon
  <1>4. ASSUME NEW w \in Workers, Progress(w) PROVE LossInv'
    BY <1>0, <1>4, TakeLoss, ListLoss, ClaimedLoss, NotClaimedLoss, DeliveredLoss,
       DispatchLoss, NextLoss, ReportLoss, CommitLoss, Zenon DEF Progress
  <1>5. ASSUME NEW w \in Workers, Failure(w) PROVE LossInv'
    BY <1>1, <1>2, <1>5, NextLoss, StopLoss DEF Failure
  <1> QED BY <1>3, <1>4, <1>5 DEF Next

\* A claim that is alive has a worker that will not pass over its failure, and
\* whoever is through with a delivery leaves it to one that claimed it, until
\* the delivery is received or abandoned or its event dead-lettered.
THEOREM LossInvariant == Spec => []LossInv
  <1>1. Init => LossInv
    <2> SUFFICES ASSUME Init PROVE LossInv
      OBVIOUS
    <2>1. \A w \in Workers : /\ phase[w] = "idle" /\ index[w] = 1 /\ batch[w] = <<>>
                             /\ tried[w] = {}
      BY Zenon DEF Init
    <2>2. \A w \in Workers : InBatch(w) = {}
      BY <2>1, EmptyBatch, Zenon DEF InBatch
    <2>3. committed = {} /\ \A d \in Deliveries : \A v \in Workers : ~Through(v, d)
      BY <2>2, Zenon DEF Init, Through
    <2>4. \A d \in Deliveries : ~Leased(claims[d], now)
      BY Zenon DEF Init, Leased, NoClaim
    <2> QED BY <2>1, <2>3, <2>4, Zenon DEF LossInv, Holding
  <1> QED BY <1>1, LossStep, ClaimInvariant, PTL DEF Spec

\* A refused claim, passed over without an error, loses a delivery only if a
\* worker that had claimed that delivery was stopped, or was called again while
\* its claim was alive.
THEOREM LosesOnlyAbandoned == Spec => []LostOnlyIfAbandoned
  <1>1. LossInv => LostOnlyIfAbandoned
    <2> SUFFICES ASSUME LossInv, NEW d \in Deliveries, Lost(d), d \notin abandoned
                 PROVE  FALSE
      BY Zenon DEF LostOnlyIfAbandoned
    <2>1. PICK v \in Workers : Answers(v, d)
      BY Zenon DEF LossInv, Lost
    <2> QED BY <2>1, Zenon DEF Answers, Owes, Lost
  <1> QED BY <1>1, LossInvariant, PTL
=============================================================================
