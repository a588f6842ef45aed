--------------------------- MODULE WebhookWorker ---------------------------
(***************************************************************************)
(* The webhook worker: the batch loop of the consumer around               *)
(* WebhookHandler.HandleBatch and deliver, with the claims of all replicas *)
(* in one table.  For every event of the batch the handler lists the       *)
(* subscriptions, claims each delivery, dispatches it and completes or     *)
(* releases the claim.  The consumer's contract (module AtLeastOnce) is    *)
(* used here as it is: an event is handed to some worker, possibly to      *)
(* several at once after a rebalance, until it is committed.               *)
(*                                                                         *)
(* Dispatcher.Deliver is one phase of bounded duration with two results.   *)
(***************************************************************************)
EXTENDS DeliveryClaims, Sequences, FiniteSets

CONSTANTS
    Workers, Events, Subs,
    SubsOf,      \* the possible tables: subscriptions that match each event
    NoDelivery,
    MaxHold,     \* longest time from a claim to its Complete or Release call
    Batches,     \* batches the consumer may hand to the handler
    MaxTime,     \* bound on the clock
    MaxFaults    \* bound on failed calls and crashes

ASSUME SubsOfAssumption ==
    /\ SubsOf \subseteq [Events -> SUBSET Subs]
    /\ NoDelivery \notin Events \X Subs
ASSUME BatchesAssumption == Batches \subseteq Seq(Events) \ {<<>>}
ASSUME BoundsAssumption == {MaxTime, MaxFaults} \subseteq Nat
\* "The lease must outlive the complete retry schedule" (subscription.go:62).
ASSUME LeaseAssumption == MaxHold \in Nat /\ MaxHold < DeliveryLease

VARIABLES
    now,        \* the database clock
    subs,       \* table webhook_subscriptions
    claims,     \* table webhook_delivery_claims
    received,   \* deliveries the subscriber's endpoint has got
    dlq,        \* events written to events.dlq
    committed,  \* events whose offset is committed
    faults,
    tried,      \* deliveries each worker claimed since it took its batch (history)
    abandoned,  \* deliveries a worker claimed and then lost track of (history)
    phase, batch, index,
    todo,       \* deliver: subscriptions still to visit
    current,    \* deliver: the delivery whose claim it holds
    started,    \* when its claim was made
    failures,   \* deliver: some subscription of this event failed
    failedEvents

vars == <<now, subs, claims, received, dlq, committed, faults, tried, abandoned,
          phase, batch, index, todo, current, started, failures, failedEvents>>

Holding == {"dispatch", "complete", "release"}
Phases == Holding \cup {"idle", "list", "claim", "report", "commit"}
Deliveries == Events \X Subs

TypeOK ==
    /\ now \in Nat
    /\ subs \in SubsOf
    /\ claims \in [Deliveries -> Claim]
    /\ received \subseteq Deliveries
    /\ dlq \subseteq Events
    /\ committed \subseteq Events
    /\ faults \in Nat
    /\ tried \in [Workers -> SUBSET Deliveries]
    /\ abandoned \subseteq Deliveries
    /\ phase \in [Workers -> Phases]
    /\ batch \in [Workers -> Seq(Events)]
    /\ index \in [Workers -> Nat \ {0}]
    /\ todo \in [Workers -> SUBSET Subs]
    /\ current \in [Workers -> Deliveries \cup {NoDelivery}]
    /\ started \in [Workers -> Nat]
    /\ failures \in [Workers -> BOOLEAN]
    /\ failedEvents \in [Workers -> SUBSET Events]

Init ==
    /\ now = 0
    /\ subs \in SubsOf
    /\ claims = [d \in Deliveries |-> NoClaim]
    /\ received = {} /\ dlq = {} /\ committed = {} /\ abandoned = {}
    /\ faults = 0
    /\ tried = [w \in Workers |-> {}]
    /\ phase = [w \in Workers |-> "idle"]
    /\ batch = [w \in Workers |-> <<>>]
    /\ index = [w \in Workers |-> 1]
    /\ todo = [w \in Workers |-> {}]
    /\ current = [w \in Workers |-> NoDelivery]
    /\ started = [w \in Workers |-> 0]
    /\ failures = [w \in Workers |-> FALSE]
    /\ failedEvents = [w \in Workers |-> {}]

Goto(w, ph) == phase' = [phase EXCEPT ![w] = ph]
Fault == faults < MaxFaults /\ faults' = faults + 1
InBatch(w) == {batch[w][i] : i \in 1 .. Len(batch[w])}
Event(w) == batch[w][index[w]]
Holds(v, d) == phase[v] \in Holding /\ current[v] = d

-----------------------------------------------------------------------------
\* The consumer hands the worker a batch of events not committed yet.
Take(w) ==
    /\ phase[w] = "idle"
    /\ \E b \in Batches :
        /\ \A i \in 1 .. Len(b) : b[i] \notin committed
        /\ batch' = [batch EXCEPT ![w] = b]
    /\ Goto(w, "list")
    /\ UNCHANGED <<now, subs, claims, received, dlq, committed, faults,
                   tried, abandoned, index, todo, current, started, failures,
                   failedEvents>>

\* HandleBatch, the next event: ListSubscriptions.
ListSubscriptions(w) ==
    /\ phase[w] = "list"
    /\ index[w] <= Len(batch[w])
    /\ todo' = [todo EXCEPT ![w] = subs[Event(w)]]
    /\ Goto(w, "claim")
    /\ UNCHANGED <<now, subs, claims, received, dlq, committed, faults,
                   tried, abandoned, batch, index, current, started, failures,
                   failedEvents>>

\* HandleBatch returns an error that is not terminal: what it collected is
\* dropped and the consumer calls it again with the same batch.  The new call
\* will be refused the claims that the old one made and did not give back.
Retry(w) ==
    /\ Fault
    /\ abandoned' = abandoned \cup
         {d \in tried'[w] : /\ Leased(claims'[d], now)
                            /\ \A v \in Workers : ~Holds(v, d)}
    /\ Goto(w, "list")
    /\ index' = [index EXCEPT ![w] = 1]
    /\ todo' = [todo EXCEPT ![w] = {}]
    /\ failures' = [failures EXCEPT ![w] = FALSE]
    /\ failedEvents' = [failedEvents EXCEPT ![w] = {}]
    /\ UNCHANGED <<now, subs, received, committed, batch, current, started>>

ListError(w) ==
    /\ phase[w] = "list"
    /\ index[w] <= Len(batch[w])
    /\ UNCHANGED <<claims, dlq, tried>>
    /\ Retry(w)

\* deliver: ClaimDelivery answers true ...
Claimed(w, s) ==
    LET d == <<Event(w), s>> IN
    /\ phase[w] = "claim"
    /\ s \in todo[w]
    /\ Claimable(claims[d], now)
    /\ claims' = [claims EXCEPT ![d] = ClaimDelivery(@, now)]
    /\ todo' = [todo EXCEPT ![w] = @ \ {s}]
    /\ current' = [current EXCEPT ![w] = d]
    /\ started' = [started EXCEPT ![w] = now]
    /\ tried' = [tried EXCEPT ![w] = @ \cup {d}]
    /\ Goto(w, "dispatch")
    /\ UNCHANGED <<now, subs, received, dlq, committed, faults, abandoned,
                   batch, index, failures, failedEvents>>

\* Mutant: a refused claim is waited for.
NotClaimedWaits(w, s) ==
    /\ phase[w] = "claim"
    /\ s \in todo[w]
    /\ ~Claimable(claims[<<Event(w), s>>], now)
    /\ UNCHANGED vars

\* ... or false, and the subscription is passed over without a failure ...
NotClaimed(w, s) ==
    /\ phase[w] = "claim"
    /\ s \in todo[w]
    /\ ~Claimable(claims[<<Event(w), s>>], now)
    /\ todo' = [todo EXCEPT ![w] = @ \ {s}]
    /\ UNCHANGED <<now, subs, claims, received, dlq, committed, faults,
                   tried, abandoned, phase, batch, index, current, started, failures,
                   failedEvents>>

\* ... or an error, whether or not the row was written.
ClaimError(w, s) ==
    LET d == <<Event(w), s>> IN
    /\ phase[w] = "claim"
    /\ s \in todo[w]
    /\ \/ UNCHANGED <<claims, tried>>
       \/ /\ Claimable(claims[d], now)
          /\ claims' = [claims EXCEPT ![d] = ClaimDelivery(@, now)]
          /\ tried' = [tried EXCEPT ![w] = @ \cup {d}]
    /\ Retry(w)
    /\ UNCHANGED dlq

\* Mutant: only the last failed event of the batch is kept.
DeliveredForgets(w) ==
    /\ phase[w] = "claim"
    /\ todo[w] = {}
    /\ failedEvents' = [failedEvents EXCEPT ![w] =
                          IF failures[w] THEN {Event(w)} ELSE @]
    /\ failures' = [failures EXCEPT ![w] = FALSE]
    /\ index' = [index EXCEPT ![w] = @ + 1]
    /\ Goto(w, "list")
    /\ UNCHANGED <<now, subs, claims, received, dlq, committed, faults,
                   tried, abandoned, batch, todo, current, started>>

\* deliver returns: a DeadLetterError if some subscription failed.
Delivered(w) ==
    /\ phase[w] = "claim"
    /\ todo[w] = {}
    /\ failedEvents' = [failedEvents EXCEPT ![w] =
                          IF failures[w] THEN @ \cup {Event(w)} ELSE @]
    /\ failures' = [failures EXCEPT ![w] = FALSE]
    /\ index' = [index EXCEPT ![w] = @ + 1]
    /\ Goto(w, "list")
    /\ UNCHANGED <<now, subs, claims, received, dlq, committed, faults,
                   tried, abandoned, batch, todo, current, started>>

\* Dispatcher.Deliver returns nil: the endpoint answered 2xx.
DispatchOK(w) ==
    /\ phase[w] = "dispatch"
    /\ received' = received \cup {current[w]}
    /\ Goto(w, "complete")
    /\ UNCHANGED <<now, subs, claims, dlq, committed, faults, tried, abandoned,
                   batch, index, todo, current, started, failures,
                   failedEvents>>

\* Mutant: the dispatcher's error is not looked at.
DispatchErrorIgnored(w) ==
    /\ phase[w] = "dispatch"
    /\ Goto(w, "complete")
    /\ UNCHANGED <<now, subs, claims, received, dlq, committed, faults,
                   tried, abandoned, batch, index, todo, current, started, failures,
                   failedEvents>>

\* Dispatcher.Deliver gives up; the endpoint may have got a request whose
\* answer was lost or not 2xx.
DispatchError(w) ==
    /\ phase[w] = "dispatch"
    /\ received' \in {received, received \cup {current[w]}}
    /\ Goto(w, "release")
    /\ UNCHANGED <<now, subs, claims, dlq, committed, faults, tried, abandoned,
                   batch, index, todo, current, started, failures,
                   failedEvents>>

\* Back to the loop over the subscriptions, with or without a failure.
NextSubscription(w, failure) ==
    /\ current' = [current EXCEPT ![w] = NoDelivery]
    /\ started' = [started EXCEPT ![w] = 0]
    /\ failures' = [failures EXCEPT ![w] = @ \/ failure]
    /\ Goto(w, "claim")
    /\ UNCHANGED <<now, subs, received, dlq, committed, tried, abandoned,
                   batch, index, todo, failedEvents>>

Complete(w) ==
    /\ phase[w] = "complete"
    /\ claims' = [claims EXCEPT ![current[w]] = CompleteDelivery(@, now)]
    /\ NextSubscription(w, FALSE)
    /\ UNCHANGED faults

CompleteError(w) ==
    /\ phase[w] = "complete"
    /\ Fault
    /\ \/ UNCHANGED claims
       \/ claims' = [claims EXCEPT ![current[w]] = CompleteDelivery(@, now)]
    /\ NextSubscription(w, TRUE)

Release(w) ==
    /\ phase[w] = "release"
    /\ claims' = [claims EXCEPT ![current[w]] = ReleaseDelivery(@, now)]
    /\ NextSubscription(w, TRUE)
    /\ UNCHANGED faults

\* Mutant: an endpoint that failed is passed over when its claim cannot be
\* released either.
ReleaseErrorSilent(w) ==
    /\ phase[w] = "release"
    /\ Fault
    /\ \/ UNCHANGED claims
       \/ claims' = [claims EXCEPT ![current[w]] = ReleaseDelivery(@, now)]
    /\ NextSubscription(w, FALSE)

ReleaseError(w) ==
    /\ phase[w] = "release"
    /\ Fault
    /\ \/ UNCHANGED claims
       \/ claims' = [claims EXCEPT ![current[w]] = ReleaseDelivery(@, now)]
    /\ NextSubscription(w, TRUE)

\* HandleBatch returns; the failed events are dead-lettered before the commit.
Report(w) ==
    /\ phase[w] = "list"
    /\ index[w] > Len(batch[w])
    /\ dlq' = dlq \cup failedEvents[w]
    /\ Goto(w, "commit")
    /\ UNCHANGED <<now, subs, claims, received, committed, faults, tried, abandoned,
                   batch, index, todo, current, started, failures,
                   failedEvents>>

\* The dead-letter write fails and the handler is called again.
ReportError(w) ==
    /\ phase[w] = "list"
    /\ index[w] > Len(batch[w])
    /\ failedEvents[w] # {}
    /\ \E written \in SUBSET failedEvents[w] : dlq' = dlq \cup written
    /\ UNCHANGED <<claims, tried>>
    /\ Retry(w)

\* A worker without a batch.
Reset(w) ==
    /\ Goto(w, "idle")
    /\ batch' = [batch EXCEPT ![w] = <<>>]
    /\ index' = [index EXCEPT ![w] = 1]
    /\ todo' = [todo EXCEPT ![w] = {}]
    /\ current' = [current EXCEPT ![w] = NoDelivery]
    /\ started' = [started EXCEPT ![w] = 0]
    /\ failures' = [failures EXCEPT ![w] = FALSE]
    /\ failedEvents' = [failedEvents EXCEPT ![w] = {}]
    /\ tried' = [tried EXCEPT ![w] = {}]

Commit(w) ==
    /\ phase[w] = "commit"
    /\ committed' = committed \cup InBatch(w)
    /\ Reset(w)
    /\ UNCHANGED <<now, subs, claims, received, dlq, faults, abandoned>>

\* The worker is killed, or told to stop: with its context cancelled neither
\* ReleaseDelivery nor the dead-letter write nor the commit goes through.
Stop(w) ==
    /\ phase[w] # "idle"
    /\ Fault
    /\ abandoned' = abandoned \cup tried[w]
    /\ Reset(w)
    /\ UNCHANGED <<now, subs, claims, received, dlq, committed>>

\* Time passes, but no delivery takes longer than its retry schedule.
Tick ==
    /\ now < MaxTime
    /\ \A w \in Workers : phase[w] \in Holding => now - started[w] < MaxHold
    /\ now' = now + 1
    /\ UNCHANGED <<subs, claims, received, dlq, committed, faults, tried, abandoned,
                   phase, batch, index, todo, current, started, failures,
                   failedEvents>>

Progress(w) ==
    \/ Take(w) \/ ListSubscriptions(w)
    \/ \E s \in Subs : Claimed(w, s) \/ NotClaimed(w, s)
    \/ Delivered(w) \/ DispatchOK(w) \/ DispatchError(w)
    \/ Complete(w) \/ Release(w) \/ Report(w) \/ Commit(w)

Failure(w) ==
    \/ ListError(w)
    \/ \E s \in Subs : ClaimError(w, s)
    \/ CompleteError(w) \/ ReleaseError(w) \/ ReportError(w) \/ Stop(w)

Next == (\E w \in Workers : Progress(w) \/ Failure(w)) \/ Tick

Spec == Init /\ [][Next]_vars

\* A running worker takes its next step; nothing is assumed about the clock.
FairSpec == Spec /\ \A w \in Workers : WF_vars(Progress(w))

-----------------------------------------------------------------------------
\* Claims keep replicas apart: no delivery is being dispatched by two workers
\* at once, even when a rebalance gives both of them its event.
ExclusiveDelivery ==
    \A v, w \in Workers :
        /\ phase[v] \in Holding
        /\ phase[w] \in Holding
        /\ current[v] = current[w]
        => v = w

\* CompleteDelivery and ReleaseDelivery name no holder; still they only ever
\* act on the caller's own claim, which is alive until they are called.
HoldsOwnClaim ==
    \A w \in Workers : phase[w] \in Holding =>
        /\ claims[current[w]].status = "processing"
        /\ claims[current[w]].leaseUntil = started[w] + DeliveryLease
        /\ now < claims[current[w]].leaseUntil

\* A claim is completed only for a delivery the endpoint has received, and a
\* completed claim is never taken again.
CompletedReceived ==
    \A d \in Deliveries : claims[d].status = "completed" =>
        /\ d \in received
        /\ \A w \in Workers : phase[w] \in Holding => current[w] # d

\* The inductive invariant behind the three properties above: a worker that
\* holds a claim made it not longer than MaxHold ago, nobody else holds it,
\* and it completes only what was received.
HoldSafe ==
    \A w \in Workers : phase[w] \in Holding =>
        /\ current[w] \in Deliveries
        /\ started[w] <= now /\ now <= started[w] + MaxHold
        /\ claims[current[w]] = [status |-> "processing",
                                 leaseUntil |-> started[w] + DeliveryLease]
        /\ phase[w] = "complete" => current[w] \in received

InRange ==
    \A w \in Workers : phase[w] \in Holding \cup {"claim"} =>
        index[w] \in 1 .. Len(batch[w])

ClaimShape ==
    \A d \in Deliveries :
        /\ claims[d].status = "processing" <=> claims[d].leaseUntil # NoLease
        /\ claims[d].status = "completed" => d \in received

ClaimInv == TypeOK /\ InRange /\ ClaimShape /\ HoldSafe /\ ExclusiveDelivery

\* Postgres and the in-memory store decide alike on every claim that occurs.
StoresAgree ==
    \A d \in Deliveries : LET c == claims[d] IN
        /\ Claimable(c, now) <=> MemoryClaimable(c, now)
        /\ CompleteDelivery(c, now) = MemoryComplete(c, now)
        /\ ReleaseDelivery(c, now) = MemoryRelease(c, now)

Lost(d) ==
    /\ d[1] \in committed \ dlq
    /\ d[2] \in subs[d[1]]
    /\ d \notin received
    /\ \A w \in Workers : d[1] \notin InBatch(w)

\* The service level of docs/operations/sli-slo.md:15: an event whose offset is
\* committed has reached every subscriber or is in the dead-letter topic.
NoSilentLoss == \A d \in Deliveries : ~Lost(d)

\* What the code guarantees: a delivery is lost only if a worker that had
\* claimed this very delivery stopped before it had dealt with its batch, or
\* called the handler again while the claim it had made was still alive: the
\* answer of ClaimDelivery was lost, or ReleaseDelivery failed and another
\* call of the batch failed after it.
LostOnlyIfAbandoned == \A d \in Deliveries : Lost(d) => d \in abandoned

\* Worker v still has delivery d to do, or will dead-letter its event: it has
\* not come to it, holds its claim, or has seen the event fail.
Unvisited(v, d) ==
    \E i \in 1 .. Len(batch[v]) :
        /\ batch[v][i] = d[1]
        /\ \/ i > index[v]
           \/ /\ i = index[v]
              /\ \/ phase[v] = "list"
                 \/ phase[v] \in Holding \cup {"claim"} /\ d[2] \in todo[v]
SawFailure(v, d) ==
    \/ phase[v] \in Holding \cup {"claim"} /\ failures[v] /\ Event(v) = d[1]
    \/ d[1] \in failedEvents[v]
Owes(v, d) ==
    d[1] \in InBatch(v) /\ (Unvisited(v, d) \/ Holds(v, d) \/ SawFailure(v, d))

\* Worker v guards d: it holds its claim, or had it and will dead-letter its
\* event.  It answers for d: it has claimed d and is not done with it.  It is
\* through with d: it has the event, and nothing more to do about d.
Guards(v, d) == Holds(v, d) \/ (d \in tried[v] /\ SawFailure(v, d))
Answers(v, d) == d \in tried[v] /\ Owes(v, d)
Through(v, d) == d[1] \in InBatch(v) /\ ~Owes(v, d)

\* The inductive invariant behind LostOnlyIfAbandoned: a claim that is alive is
\* guarded, and while some worker is through with a delivery, or its event is
\* committed, another one that claimed it answers for it.
LossInv ==
    /\ \A w \in Workers :
        /\ phase[w] \in Holding =>
             current[w][1] = Event(w) /\ current[w] \in tried[w]
        /\ phase[w] = "idle" => index[w] = 1 /\ batch[w] = <<>>
        /\ phase[w] = "commit" =>
             index[w] > Len(batch[w]) /\ failedEvents[w] \subseteq dlq
        /\ \A d \in tried[w] : d[1] \in InBatch(w)
    /\ \A d \in Deliveries \ (received \cup abandoned) : d[1] \notin dlq =>
        /\ Leased(claims[d], now) => \E v \in Workers : Guards(v, d)
        /\ d[2] \in subs[d[1]]
             /\ (d[1] \in committed \/ \E v \in Workers : Through(v, d))
           => \E v \in Workers : Answers(v, d)

\* No claim, refused or stale, keeps an event from being committed for ever.
EventuallyCommitted == <>(committed = Events)
=============================================================================
