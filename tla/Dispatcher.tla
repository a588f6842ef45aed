----------------------------- MODULE Dispatcher -----------------------------
(***************************************************************************)
(* webhook.Dispatcher towards one endpoint: its circuit breaker, its       *)
(* bulkhead and the retry schedule of Deliver.  Breakers and bulkheads are *)
(* kept per endpoint, so that deliveries elsewhere touch none of this      *)
(* state.  A worker runs one Deliver at a time; the type is built for      *)
(* several, and several are modelled.                                      *)
(*                                                                         *)
(* An endpoint that ValidateEndpoint blocks is refused before any of this. *)
(* The return of Deliver after an error of jsonEvent is not an action: the *)
(* event was decoded from JSON and validated, and encoding such an event   *)
(* again does not fail.                                                    *)
(***************************************************************************)
EXTENDS Naturals, Sequences, FiniteSets

CONSTANTS
    Callers,
    Threshold, Cooldown,   \* NewCircuitBreaker
    Limit,                 \* NewBulkhead
    MaxRetries, Backoff,   \* the retry schedule
    Timeout,               \* of the HTTP client
    Lease,                 \* deliveryLease
    MaxFlips               \* bound: how often the endpoint breaks or recovers

ASSUME DispatcherAssumption ==
    /\ {Threshold, Cooldown, Limit} \subseteq Nat \ {0}
    /\ {MaxRetries, Timeout, Lease, MaxFlips} \subseteq Nat
    /\ Backoff \in Seq(Nat) /\ MaxRetries <= Len(Backoff)
ASSUME CallersAssumption == IsFiniteSet(Callers)

VARIABLES
    state, failures, probeInFlight,   \* CircuitBreaker; failures up to Threshold
    cooling,    \* time until openedAt + cooldown
    slots,      \* taken slots of the bulkhead
    cancelled,  \* the worker's context
    healthy, flips,
    pc, attempt,
    held        \* the longest the requests and waits of a Deliver so far can last

vars == <<state, failures, probeInFlight, cooling, slots, cancelled, healthy,
          flips, pc, attempt, held>>

TypeOK ==
    /\ state \in {"closed", "open", "half_open"}
    /\ failures \in 0 .. Threshold
    /\ probeInFlight \in BOOLEAN
    /\ cooling \in 0 .. Cooldown
    /\ slots \in Nat
    /\ cancelled \in BOOLEAN /\ healthy \in BOOLEAN /\ flips \in Nat
    /\ pc \in [Callers -> {"idle", "acquire", "send", "wait"}]
    /\ attempt \in [Callers -> 0 .. MaxRetries]
    /\ held \in [Callers -> Nat]

Init ==
    /\ state = "closed" /\ failures = 0 /\ probeInFlight = FALSE /\ cooling = 0
    /\ slots = 0 /\ cancelled = FALSE /\ healthy \in BOOLEAN /\ flips = 0
    /\ pc = [c \in Callers |-> "idle"]
    /\ attempt = [c \in Callers |-> 0]
    /\ held = [c \in Callers |-> 0]

Goto(c, s) == pc' = [pc EXCEPT ![c] = s]

\* Deliver returns; a slot it has is given back.
Return(c) ==
    /\ Goto(c, "idle")
    /\ attempt' = [attempt EXCEPT ![c] = 0]
    /\ held' = [held EXCEPT ![c] = 0]
    /\ slots' = IF pc[c] = "acquire" THEN slots ELSE slots - 1

-----------------------------------------------------------------------------
AfterCooldown == IF state = "open" /\ cooling = 0 THEN "half_open" ELSE state

\* breaker.Allow: a half-open breaker lets one probe through.  A refused
\* Deliver returns at once.
Allow(c) ==
    /\ pc[c] = "idle"
    /\ state' = AfterCooldown
    /\ \/ /\ AfterCooldown = "closed"
          /\ Goto(c, "acquire")
          /\ UNCHANGED probeInFlight
       \/ /\ AfterCooldown = "half_open" /\ ~probeInFlight
          /\ Goto(c, "acquire")
          /\ probeInFlight' = TRUE
       \/ /\ \/ AfterCooldown = "open"
             \/ AfterCooldown = "half_open" /\ probeInFlight
          /\ UNCHANGED <<pc, probeInFlight>>
    /\ UNCHANGED <<failures, cooling, slots, cancelled, healthy, flips, attempt,
                   held>>

Acquire(c) ==
    /\ pc[c] = "acquire"
    /\ slots < Limit
    /\ slots' = slots + 1
    /\ Goto(c, "send")
    /\ UNCHANGED <<state, failures, probeInFlight, cooling, cancelled, healthy,
                   flips, attempt, held>>

AcquireCancelled(c) ==
    /\ pc[c] = "acquire"
    /\ cancelled
    /\ Return(c)
    /\ UNCHANGED <<state, failures, probeInFlight, cooling, cancelled, healthy,
                   flips>>

\* Mutant: the probe is not marked as answered.
SuccessKeepsProbe == state' = "closed" /\ failures' = 0 /\ UNCHANGED probeInFlight

Success == state' = "closed" /\ failures' = 0 /\ probeInFlight' = FALSE

\* Mutant: the probe is not marked as answered.
FailureKeepsProbe ==
    /\ failures' = IF failures < Threshold THEN failures + 1 ELSE failures
    /\ IF failures + 1 >= Threshold
       THEN state' = "open" /\ cooling' = Cooldown
       ELSE UNCHANGED <<state, cooling>>
    /\ UNCHANGED probeInFlight

Failure ==
    /\ failures' = IF failures < Threshold THEN failures + 1 ELSE failures
    /\ IF failures + 1 >= Threshold
       THEN state' = "open" /\ cooling' = Cooldown
       ELSE UNCHANGED <<state, cooling>>
    /\ probeInFlight' = FALSE

\* send returns nil, also for a call that was allowed before the breaker opened.
SendOK(c) ==
    /\ pc[c] = "send"
    /\ healthy
    /\ Success
    /\ Return(c)
    /\ UNCHANGED <<cooling, cancelled, healthy, flips>>

\* send fails: the schedule goes on, whatever the breaker's state is now, or
\* its last attempt is over.
SendError(c) ==
    /\ pc[c] = "send"
    /\ ~healthy \/ cancelled
    /\ Failure
    /\ IF attempt[c] = MaxRetries
       THEN Return(c)
       ELSE /\ Goto(c, "wait")
            /\ held' = [held EXCEPT ![c] = @ + Timeout]
            /\ UNCHANGED <<slots, attempt>>
    /\ UNCHANGED <<cancelled, healthy, flips>>

\* Mutant: jitter of up to the whole wait.
WorstWaitFullJitter(n) == 2 * Backoff[n + 1]

\* The wait before the next attempt, with the most jitter there can be.
WorstWait(n) == Backoff[n + 1] + Backoff[n + 1] \div 5

Timer(c) ==
    /\ pc[c] = "wait"
    /\ Goto(c, "send")
    /\ attempt' = [attempt EXCEPT ![c] = @ + 1]
    /\ held' = [held EXCEPT ![c] = @ + WorstWait(attempt[c])]
    /\ UNCHANGED <<state, failures, probeInFlight, cooling, slots, cancelled,
                   healthy, flips>>

\* Mutant: the slot is not given back.
WaitCancelledKeepsSlot(c) ==
    /\ pc[c] = "wait"
    /\ cancelled
    /\ Goto(c, "idle")
    /\ UNCHANGED <<state, failures, probeInFlight, cooling, slots, cancelled,
                   healthy, flips, attempt, held>>

WaitCancelled(c) ==
    /\ pc[c] = "wait"
    /\ cancelled
    /\ Return(c)
    /\ UNCHANGED <<state, failures, probeInFlight, cooling, cancelled, healthy,
                   flips>>

\* The endpoint breaks or recovers.
Flip ==
    /\ flips < MaxFlips
    /\ flips' = flips + 1
    /\ healthy' = ~healthy
    /\ UNCHANGED <<state, failures, probeInFlight, cooling, slots, cancelled, pc,
                   attempt, held>>

Cancel ==
    /\ ~cancelled
    /\ cancelled' = TRUE
    /\ UNCHANGED <<state, failures, probeInFlight, cooling, slots, healthy,
                   flips, pc, attempt, held>>

Tick ==
    /\ cooling > 0
    /\ cooling' = cooling - 1
    /\ UNCHANGED <<state, failures, probeInFlight, slots, cancelled, healthy,
                   flips, pc, attempt, held>>

Deliver(c) ==
    \/ Allow(c) \/ Acquire(c) \/ AcquireCancelled(c)
    \/ SendOK(c) \/ SendError(c) \/ Timer(c) \/ WaitCancelled(c)

Next == (\E c \in Callers : Deliver(c)) \/ Flip \/ Cancel \/ Tick

Spec == Init /\ [][Next]_vars

\* There is always another event to deliver, requests and timers end, and the
\* clock runs.
FairSpec == Spec /\ (\A c \in Callers : WF_vars(Deliver(c))) /\ WF_vars(Tick)

-----------------------------------------------------------------------------
\* The breaker's fields agree: it is closed exactly while it counts fewer than
\* Threshold failures in a row, and only a half-open one has a probe.  Slots are
\* those of the calls between Acquire and their return, at most Limit, and no
\* call waits after its last attempt.
DispatchInv ==
    /\ TypeOK
    /\ state = "closed" <=> failures < Threshold
    /\ probeInFlight => state = "half_open"
    /\ slots = Cardinality({c \in Callers : pc[c] \in {"send", "wait"}})
    /\ slots <= Limit
    /\ \A c \in Callers : pc[c] = "wait" => attempt[c] < MaxRetries

\* A half-open breaker that refuses calls waits for a call that is still there
\* to answer; only a cancelled worker can leave a probe behind.
ProbeHasOwner ==
    probeInFlight /\ ~cancelled => \E c \in Callers : pc[c] # "idle"

\* "The lease must outlive the complete retry schedule in resilience.go"
\* (subscription.go:62): from its first request on, a Deliver ends before a lease
\* of that length does.  (Waiting for a slot comes on top, but a worker has
\* one call at a time and never waits for one.)
HeldWithinLease ==
    \A c \in Callers : pc[c] = "send" => held[c] + Timeout < Lease

\* An endpoint that recovers for good is delivered to again: its breaker does
\* not stay open or half-open.
EventuallyClosed ==
    <>[](healthy /\ ~cancelled) => <>[](state = "closed")
=============================================================================
