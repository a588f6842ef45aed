---------------------------- MODULE TokenBucket ----------------------------
(***************************************************************************)
(* The token bucket of one tenant: ratelimit.Redis, a Lua script over a    *)
(* hash that expires, and ratelimit.Memory, which keeps its bucket for     *)
(* ever.  Both serve the same calls.  A bucket is kept in units of 1/Window *)
(* of a token, so that a tick refills exactly Limit units; the code has    *)
(* floats there.  Redis reads the server's clock, which can be set back;   *)
(* Memory reads Go's monotonic clock.  Calls with amount <= 0 and limits   *)
(* <= 0 return true before they reach a bucket and are left out.           *)
(***************************************************************************)
EXTENDS Integers

CONSTANTS
    Limit, Window,   \* PULSE_RATE_LIMIT, PULSE_RATE_WINDOW in ticks
    Milli,           \* ticks in the unit of PEXPIRE
    MaxAmount,       \* the largest batch
    MaxTime,         \* bound on the time that passes
    MaxBack          \* bound on how often, and how far, the clock is set back

ASSUME BucketAssumption ==
    /\ Limit \in Nat \ {0} /\ Window \in Nat \ {0} /\ Milli \in Nat \ {0}
    /\ MaxAmount \in Nat \ {0} /\ MaxTime \in Nat /\ MaxBack \in Nat

VARIABLES
    passed,       \* time that has really passed: Memory's clock
    clock,        \* Redis TIME
    back,         \* how often it was set back
    written,      \* some call has written the hash
    redis,        \* the hash: tokens, timestamp
    expireAt,     \* when PEXPIRE removes it; it is absent from then on
    memory,       \* Memory's bucket for the tenant
    admitted      \* events admitted by Redis so far (history)

vars == <<passed, clock, back, written, redis, expireAt, memory, admitted>>

Capacity == Limit * Window

Buckets == [tokens : 0 .. Capacity, timestamp : Int]

TypeOK ==
    /\ passed \in Nat /\ clock \in Int /\ back \in Nat /\ written \in BOOLEAN
    /\ redis \in Buckets /\ memory \in Buckets /\ expireAt \in Int
    /\ admitted \in Nat

\* The tenant has not called: no hash.  (Memory's missing item and a full
\* bucket answer alike.)
Init ==
    /\ passed = 0 /\ clock = 0 /\ back = 0 /\ written = FALSE
    /\ redis = [tokens |-> Capacity, timestamp |-> 0] /\ expireAt = 0
    /\ memory = [tokens |-> Capacity, timestamp |-> 0]
    /\ admitted = 0

-----------------------------------------------------------------------------
AtMost(n, bound) == IF n < bound THEN n ELSE bound

\* Mutant: the refill forgets to advance the timestamp.
RefillStale(b, now) ==
    IF now > b.timestamp
    THEN [b EXCEPT !.tokens =
            AtMost(b.tokens + (now - b.timestamp) * Limit, Capacity)]
    ELSE b

\* The refill: time that did not move forward adds nothing.
Refill(b, now) ==
    IF now > b.timestamp
    THEN [tokens |-> AtMost(b.tokens + (now - b.timestamp) * Limit, Capacity),
          timestamp |-> now]
    ELSE b

\* The script reads the hash, or starts from a full bucket.
Stored(now) ==
    IF ~written \/ now >= expireAt
    THEN [tokens |-> Capacity, timestamp |-> now]
    ELSE redis

Allowed(b, amount) == b.tokens >= amount * Window

Spend(b, amount) ==
    IF Allowed(b, amount) THEN [b EXCEPT !.tokens = @ - amount * Window] ELSE b

\* Mutant: rounded down.
TtlTruncated == (Window \div Milli) * Milli

\* The window rounded up to whole milliseconds.
Ttl == ((Window + Milli - 1) \div Milli) * Milli

\* Mutant: the expiry is set once, when the hash is created.
ScriptExpiresOnce(amount) ==
    /\ redis' = Spend(Refill(Stored(clock), clock), amount)
    /\ expireAt' = IF ~written \/ clock >= expireAt THEN clock + Ttl ELSE expireAt
    /\ written' = TRUE

\* The script runs: the hash is written and its expiry renewed, also when the
\* answer is no.
Script(amount) ==
    /\ redis' = Spend(Refill(Stored(clock), clock), amount)
    /\ expireAt' = clock + Ttl
    /\ written' = TRUE

AllowN(amount) ==
    /\ Script(amount)
    /\ memory' = Spend(Refill(memory, passed), amount)
    /\ admitted' = IF Allowed(Refill(Stored(clock), clock), amount)
                   THEN admitted + amount ELSE admitted
    /\ UNCHANGED <<passed, clock, back>>

\* The script ran and its answer was lost: ErrUnavailable, the tokens are gone.
AllowNUnavailable(amount) ==
    /\ Script(amount)
    /\ memory' = Spend(Refill(memory, passed), amount)
    /\ UNCHANGED <<passed, clock, back, admitted>>

Tick ==
    /\ passed < MaxTime
    /\ passed' = passed + 1
    /\ clock' = clock + 1
    /\ UNCHANGED <<back, written, redis, expireAt, memory, admitted>>

SetBack(d) ==
    /\ back < MaxBack
    /\ back' = back + 1
    /\ clock' = clock - d
    /\ UNCHANGED <<passed, written, redis, expireAt, memory, admitted>>

Next ==
    \/ \E amount \in 1 .. MaxAmount : AllowN(amount) \/ AllowNUnavailable(amount)
    \/ Tick
    \/ \E d \in 1 .. MaxBack : SetBack(d)

Spec == Init /\ [][Next]_vars

-----------------------------------------------------------------------------
\* From the first call on, Redis never admits more than the limit plus the
\* limit's share of the time that has passed: neither the expiry of the hash
\* nor a clock set back mints tokens.
AdmittedBounded == admitted * Window <= Capacity + passed * Limit

\* While the clock is not set back, the hash that expires behaves as the bucket
\* that is kept: the next call finds the same tokens in both.
ExpiryInvisible ==
    back = 0 => Refill(Stored(clock), clock).tokens = Refill(memory, passed).tokens

\* The inductive invariant behind AdmittedBounded.  The last call was at
\* expireAt - Ttl on Redis' clock; what was admitted, what is left and what the
\* time since that call will refill is within the bound.
SinceLastCall == LET d == clock - (expireAt - Ttl) IN IF d > 0 THEN d ELSE 0

BucketInv ==
    /\ TypeOK
    /\ ~written => admitted = 0
    /\ written =>
         /\ redis.timestamp >= expireAt - Ttl
         /\ admitted * Window + redis.tokens + SinceLastCall * Limit
              <= Capacity + passed * Limit

\* The inductive invariant behind ExpiryInvisible.
AgreeInv ==
    back = 0 =>
        /\ clock = passed
        /\ ~written => memory = [tokens |-> Capacity, timestamp |-> 0]
        /\ written => /\ redis = memory
                      /\ redis.timestamp = expireAt - Ttl
                      /\ redis.timestamp <= clock
=============================================================================
