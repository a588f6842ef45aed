# Pulse: TLA+ specifications

Pulse accepts batches of events over HTTP, publishes them to Kafka and applies
them three times: to PostgreSQL, to ClickHouse and to the webhooks of the
tenant's subscriptions. This directory models the parts of it where the order of
steps decides whether an event is lost, delivered twice at once, or let through
with a key that should no longer work. TLC checks the models on small instances;
TLAPS proves the safety properties of every module for every value of the
constants.

## Inventory

| Part | State | Operations | What makes it hard | Modelled in |
| --- | --- | --- | --- | --- |
| batch loop (`internal/kafka/producer.go`) | group offsets, fetched batch, dead-letter topic | fetchBatch, decodeBatch, handler, deadLetterBatch, commitMessages | crash, rebalance, lost answers, retries of half-done work | `BatchConsumer` |
| single loop (same file) | one fetched message | processMessage, deadLetter | an error followed by a later commit | `SingleConsumer` |
| webhook handler (`internal/worker/handlers.go`) | batch, claims held | HandleBatch, deliver | two replicas on one event, interruptions between claim and commit | `WebhookWorker` |
| claims (`internal/persistence/postgres.go`, `internal/webhook/subscription.go`) | status, lease | Claim, Complete, Release | lease boundary, no holder in the row | `DeliveryClaims` |
| dispatcher (`internal/webhook/resilience.go`) | breaker, bulkhead, retry schedule | Deliver | late answers, probes, cancellation | `Dispatcher` |
| key cache (`internal/auth/cache.go`) | entries and expiry per replica | Authenticate, RotateKey | table read outside the lock, several replicas | `AuthCache` |
| rate limiter (`internal/ratelimit`) | bucket, expiry | AllowN | rounding, expiry, clock set back, lost answers | `TokenBucket` |
| event writes (`postgres.go`, `analytics/clickhouse.go`) | rows, row versions | SaveEvents, RecordBatch, Summary | overlapping batches, COPY then INSERT, rows rejected for good | `EventStore` |
| ingestion (`internal/api/http.go`, `PublishBatch`) | requests in flight, the writer's messages | ingestBatch | partial and late writes, client retries | `Ingestion` |
| lifecycle (`internal/app/app.go`) | opened dependencies | setup, RunHTTP, RunWorker | failures half way, shutdown with requests in flight | `Lifecycle` |
| event envelope, endpoint check, signature, telemetry, other endpoints | none | pure functions, one store call | boundaries | data only |

How they meet: ingestion authenticates with the key cache, takes tokens from the
rate limiter and publishes. Three consumer groups read the topic, each with the
consumer loop around its own handler. The webhook handler claims each
(event, subscription), calls the dispatcher and completes or releases the claim.
The loop commits when the handler returns. `Pipeline` composes the path of an
event from the client to PostgreSQL or ClickHouse.

## Modules

**`ConsumerGroup`** is what both loops share: the topic, the group's committed
offsets, partition owners, reader positions, and the two places where a message
can end up (`handled`, `dlq`). Kafka and kafka-go are external; the module's
header lists what the loops rely on. A message is an identity (tenantId and
eventId) and whether it validates; malformed messages have no identity. A message
is *settled* when its event was handled, when it was dead-lettered, or, for a
valid one, when a message with its identity was dead-lettered.

**`AtLeastOnce`** is the abstract consumer: messages become settled, and an offset
is only placed behind settled messages.

**`BatchConsumer`** is `runBatch`. `phase` is the place in the loop, `messages`
the fetched batch, `cursor` the index in `decodeBatch`, `failed` the events of a
`BatchDeadLetterError`. Each call that can fail has an action for its success and
one for its failure, and the failure may come after the effect (a lost answer).
`Stop` is a crash or a cancelled context, `Start` the restart; `Join` and
`Rebalance` reassign partitions in the middle of anything, and a loop that lost
its partition can still commit.

**`SingleConsumer`** is `runSingle` over the same group, the loop of the default
batch size of 1. `errored` is a history
variable: messages whose `processMessage` returned an error.

**`DeliveryClaims`** defines one row of `webhook_delivery_claims` and what the SQL
statements do to it, and next to them what `MemoryStore` does.

**`WebhookWorker`** is the consumer loop around `HandleBatch` and `deliver`, with
one claim table for all workers. The loop is reduced to the contract that
`AtLeastOnce` states: batches of uncommitted events are handed out, possibly to
several workers. `subs` is the table of subscriptions, which does not change.
Two history variables say who could have delivered: `tried` holds the deliveries a
worker claimed since it took its batch, and `abandoned` those that it claimed and
then left: all of `tried` when it stops, and when its handler is called again those
whose claim is still alive and held by nobody.
`Deliver` is one phase. `Tick` lets at most `MaxHold` pass while a claim is held,
and `MaxHold < DeliveryLease` is an assumption; `Dispatcher` checks the part of it
that is in the code (`HeldWithinLease`). A process suspended for longer than the
rest of the lease, or a database call that takes as long, is outside.

**`Dispatcher`** is `Deliver` towards one endpoint with several concurrent calls.
Today's worker makes one at a time (the theorems are about any number of calls); the
type is written for more, and its locks and channel only matter then. The return after an
error of `jsonEvent` is left out: an event that was decoded from JSON and validated
can be encoded. `healthy` is the endpoint. `held` adds up the longest
time each request and wait can take, in fifths of a second so that the jitter is
a whole number.

**`AuthCache`** has one cache per replica over one table. An `Authenticate` call
is split where the code releases a lock or waits for the database: `Lookup`,
`Evict`, `Query`, `Fill`. `RotateKey` is split between table and purge.

**`TokenBucket`** runs the Lua script and the in-memory limiter on the same calls.
Buckets are kept in units of 1/Window of a token, which makes the refill exact;
the code uses floats, and rounding is not modelled. `passed` is time as it
passes, `clock` is Redis' clock, which an operator or NTP can set back.

**`Ingestion`** is one tenant's client and `ingestBatch`. The client sends the
batches of its program in order, each again until it sees 202 or 400; it may stop
waiting at any time, and the request it left goes on next to the retry. A batch
`Decodes` if it has between one and `MaxBatchEvents` events and each is valid. `phase` is
the place in `ingestBatch`, one action per return path. `unsent` is what the
kafka-go writer (external) still holds of a request: it writes in order, may write
twice, may give a message up and go on, and goes on after `WriteMessages` returned
because the context was cancelled, and for one message even after a crash.

**`EventStore`** is the group of persistence workers or that of analytics workers,
chosen initially: they share only the topic, which they read. `SaveEvents` is split
between COPY (`Copy`, `CopyConflict`) and the INSERT (`Insert`), since other workers
run in between; each statement can fail, or take effect and lose its answer. An
event with `storable = FALSE` is valid JSON that PostgreSQL does not take as JSONB:
every statement with it fails, and the retries of such a batch change nothing. The
consumer loop is reduced to fetch, handler, commit, rebalance and crash. `table` is
ClickHouse's table as the sequence of inserted row versions; `received_at` is set on
insertion, so that the last version is the one FINAL keeps (the server's clock is
assumed not to go back). `Summary` is the set of identities that `uniqExact`
counts for a type. It is the loop with a batch size above 1; what a batch
size of 1 does to failed messages is finding 1.

**`Pipeline`** puts the two together; they share the log.

**`Lifecycle`** is a process: which of the four dependencies are configured and the
local fallback are free, `Plan` is the order in which its code opens things,
`defers` is what `d.close` and the deferred calls will close. A request calls
PostgreSQL, Redis and Kafka in turn. `RunHTTP` returns when `Shutdown` begins, so
`Close` and `Exit` run while requests are in flight: such requests get an error or
no answer. That is what the code does, and no document promises more;
`CutOnlyAtEnd` says that it happens at no other time.

`MC*` modules hold definitions for TLC; `*Proofs` modules hold the proofs.
Operators commented as mutants are plausible mistakes in the definition that
follows them; each property is known to fail under one of them.

## Runs

| Run | Checks | Shows |
| --- | --- | --- |
| `batch_consumer` | `BatchInv`, `CommittedSettled`, `ImplementsAtLeastOnce`, `EventuallySettled` | topics of two messages over an event, a second event, an invalid copy and a malformed message, in one partition or spread over two; 2 workers, batches of up to 2, a fault |
| `batch_consumer_record` | `FailuresDeadLettered` (violated) | see findings |
| `single_consumer` | `SingleInv`, `OnlyErroredLost` | topics of 3, 2 workers, 3 faults |
| `single_consumer_loss` | `CommittedSettled` (violated) | see findings |
| `webhook_worker` | `ClaimInv`, `ExclusiveDelivery`, `HoldsOwnClaim`, `CompletedReceived`, `StoresAgree`, `LossInv`, `LostOnlyIfAbandoned`, `EventuallyCommitted` | 2 workers, a batch of 2 events, two subscriptions to the first or one to each, a fault, one lease of time |
| `webhook_worker_loss` | `NoSilentLoss` (violated) | see findings |
| `dispatcher` | `DispatchInv`, `ProbeHasOwner`, `HeldWithinLease`, `EventuallyClosed` | 3 calls, 2 slots, the worker's threshold, retries and waits; the endpoint breaks and recovers |
| `auth_cache` | `CacheInv`, `BoundedStaleness`, `OwnTenant`, `CacheBounded` | 2 replicas, 2 calls, 2 tenants, 2 keys (so two tenants or one rotation), room for 1, more than a TTL of time |
| `auth_cache_stale` | `PreviousKeyInvalid` (violated) | see findings |
| `token_bucket` | `BucketInv`, `AdmittedBounded`, `ExpiryInvisible` | limit 2, window 3 (not a multiple of the expiry's unit), three windows of time, 2 corrections of the clock |
| `pipeline` | `PipelineInv`, `AcceptedDurable`, `RejectedInvisible`, `InOrder`, `CommittedStored`, `FirstWins`, `StoredInOrder`, `SummaryExact`, `EventuallyStored` | 2 requests, 2 workers, batches of up to 2, a fault on each side of the topic; programs with an identity sent again with another type, with an invalid event, with an empty and a too long batch, and with an event PostgreSQL rejects |
| `lifecycle` | `LifecycleInv`, `ServesComplete`, `ReleasedAtExit`, `CutOnlyAtEnd`, `ClosedInReverse`, `EventuallyExits` | the five programs, all 32 configurations, 2 requests, 2 faults |

Bounds. Two workers are the fewest with a stale one and its successor. One fault is
a crash, a rebalance, a lost answer or a failed call at any step; that every further
one does no harm to safety is what the proofs show. In `pipeline` the fault before
the topic and the one after it combine: a late duplicate meets a replaced worker.
Two messages make one batch of two or two of one, so that a commit can cover an
earlier message. A lease of time lets a claim of the first moment expire and be
taken again. Three calls and two slots make one call wait while two others disturb
the breaker. The invariants with `Inv` in their name are the inductive ones of the
proofs, which the runs check as they are used there. What is proved does not depend
on the bounds.

Deadlock checking is off: the modelled topic, fault budget, keys or clock run out,
and the system is then at rest.

Fairness. `BatchConsumer` and `WebhookWorker` assume that a running loop takes its
next step, because every call has a context or returns, and that a stopped worker
is restarted, which the deployment does; `MaxFaults` makes failures finite, except
for the rejected events of `EventStore`. `Dispatcher` assumes that requests and timers end (client
timeout, `time.Timer`), that there is another event to deliver, and that time
passes. `Pipeline` assumes that the client sends again and that some request and
some worker that can take a step does; a worker whose batch holds an event that
PostgreSQL rejects cannot, and `EventuallyStored` makes that exception.
`Lifecycle` assumes only that the main goroutine goes on. Nothing is assumed about
endpoints or about the order of replicas.

## Findings

1. **A failed message is skipped by the single loop** (`single_consumer_loss`).
   `runSingle` continues with the next message after an error; the next commit
   covers the failed one. `OnlyErroredLost` is what does hold. It affects workers
   with a batch size of 1.
2. **The wrong message is dead-lettered** (`batch_consumer_record`).
   `deadLetterBatch` looks messages up by identity and may record an invalid
   message in place of the one that failed.
3. **A delivery can be lost behind its own claim** (`webhook_worker_loss`). A
   refused claim counts as success, also when nobody holds it. In the run, with one
   worker, `ClaimDelivery` writes the claim and its answer is lost; the retry is
   refused that claim, skips the delivery and commits. A claim left by a worker that
   stopped does the same to the one that takes over, and a claim whose release failed
   does it when the batch is run again. `LostOnlyIfAbandoned` is what does hold: these
   are the only ways, each for the deliveries that worker had claimed itself.
4. **A rotated key can return to the cache** (`auth_cache_stale`). A call between
   its query and its fill undoes the purge. `BoundedStaleness` is what does hold:
   less than one TTL.

ADR-007 says "One bad endpoint must not block every endpoint" and "Slow or failing
endpoints are isolated and retried". The breakers and bulkheads are kept per
endpoint, but the worker's loop makes one delivery after the other, and `Deliver`
sleeps for up to half an hour between attempts: meanwhile the deliveries to all other
endpoints in the partition wait. They are not blocked for ever (`EventuallyCommitted`).

ADR-006 calls the Redis script a fixed window counter; it is a token bucket, and
`AdmittedBounded` is what holds of it. `docs/architecture/overview.md` has the
limit reserved before validation; the code validates first. A publish that fails
half way leaves some events of a batch in the topic; the retry then puts them
there again and possibly in another order within the batch. Order between batches
is kept (`InOrder`); an event that a client sends in several batches counts for the
first of them, since its later copies may follow anything.

## Proofs

All theorems hold for any constants that satisfy the named assumptions of the
modules: any number of workers, partitions, requests, keys and faults, and any
topic or program. Each property is derived from an inductive invariant, which says
what it leaves out about the steps in between.

- `BatchConsumerProofs`: `TypeCorrect`, `BatchInvariant`, `AtLeastOnceSafety`,
  `Refinement`. `CommittedSettled` is not inductive: a commit is safe because of
  what the batch contains. `BatchInv` adds that what lies behind a reader is
  settled or in its owner's batch (`ReadSafe`), that a batch has no gaps
  (`BatchSafe`, which covers loops that lost their partition), and what each phase
  has dealt with (`PhaseSafe`). The refinement maps `settled` to the settled
  offsets; every step settles or commits.
- `SingleConsumerProofs`: `SingleInvariant`, `LosesOnlyErrored`. `SingleInv` says
  that a message behind a reader is settled, has errored or is in its owner's hands,
  and that a message about to be committed has been dealt with. A stale worker can
  commit it long after its partition went to another one; the offsets before it
  were passed by somebody too.
- `WebhookWorkerProofs`: `ClaimInvariant`, `DeliveryExclusion`, `OwnClaimHeld`,
  `CompletedOnlyReceived`, `StoresEquivalent`, `LossInvariant`,
  `LosesOnlyAbandoned`. `ClaimInv` says that a holder's claim is the one it made, at
  most `MaxHold` ago; with `MaxHold < DeliveryLease` it cannot be claimed by anyone
  else. `LossInv` is about deliveries that are neither received nor abandoned, of
  events that are not dead-lettered. A worker *owes* a delivery that it has not come
  to, holds, or whose event it saw fail. A live lease has a worker that *guards* it:
  it holds the claim, or claimed it and saw the event fail. Once a worker is through
  with a delivery, or its event is committed, some worker that claimed it still owes
  it. A worker that is refused a claim leaves the delivery to the one that guards it.
  `LossFrame` reduces each step to the worker that takes it.
- `DispatcherProofs`: `DispatchInvariant`, `ProbeOwned`, `LeaseOutlivesSchedule`,
  `WorkerLeaseOutlivesSchedule`. `DispatchInv` counts the slots by the calls that
  have one. For the lease, a schedule `S` gives the longest time up to each attempt,
  and what a call has been held is `S` of its attempt (`HeldInv`); the first theorem
  takes any schedule that fits into the lease, the second the numbers of the code.
- `AuthCacheProofs`: `CacheInvariant`, `StalenessBound`, `OwnTenantAlways`,
  `CacheStaysBounded`. `CacheInv` relates entries and calls in flight to the time
  their key was rotated away. The bound needs that a map is finite, which
  `ItemsBounded` adds; keys themselves may be infinitely many.
- `TokenBucketProofs`: `BucketInvariant`, `AdmissionBound`, `ExpiryNeverSeen`.
  `BucketInv` bounds what was admitted plus what is left plus what the time since
  the last call will refill. `AgreeInv` says that both limiters hold the same
  bucket while the clock only moves forward.
- `PipelineProofs`: `PipelineInvariant`, `AcceptedIsDurable`, `RejectedIsInvisible`,
  `PartitionOrder`, `StoredBeforeCommitted`, `FirstContentWins`, `HistoryPrefix`,
  `SummaryCountsOnce`. `IngestInv` says that what the client is past is in the log
  and that a request, also an abandoned one, only has events of batches that the
  client has come to. `PipelineInv` adds that what lies before a worker's batch
  is stored, that what the owner has read is stored or in its batch, and that a
  batch is stored before it is committed. `SummaryCountsOnce` also needs that
  ClickHouse holds only events of the log (`RecordedFromLog`).
- `LifecycleProofs`: `LifecycleInvariant`, `NeverHalfConnected`, `ReleasesAtExit`,
  `CutsOnlyAtEnd`, `ClosesInReverse`. `LifecycleInv` says that the defers are the
  steps taken, the last one first, and account for all that is open except a Redis
  client that failed its ping.

Only model-checked: the liveness properties (`EventuallySettled`,
`EventuallyCommitted`, `EventuallyClosed`, `EventuallyStored`, `EventuallyExits`),
since they rest on fairness, which needs ENABLED and is out of the prover's reach.

## Not modelled

- How long a failing endpoint delays the other deliveries of a worker: elapsed time
  is only bounded (`MaxHold`). That it delays them at all is noted under the findings.
- Which of several types the summary counts for an identity that was sent with more
  than one: the last inserted, which a redelivery can turn back to an older one.
- `SaveEvent`, `Record` and the single loop around them: for the loop it is the
  handler call of `SingleConsumer`, and each is one statement.
- The admin, webhook and summary endpoints: parsing and one store call each. Key
  rotation and tenant creation are in `AuthCache` as the store calls they make;
  subscriptions do not change during a run of `WebhookWorker`.
- `Validate`, `Bearer`, address checks and the parsing of settings: pure functions
  of their input, whose outcome is a flag here.
- The in-memory stores of the local fallback, except the claim store and the
  limiter, which are compared with the real ones.
- The 65535 parameters of the fallback INSERT: out of reach of an instance.

Left out for good: telemetry, TLS, HMAC, address checks and JSON itself, which
are data to every property here; float rounding in the limiter; the broker's own
replication.
