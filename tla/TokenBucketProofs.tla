------------------------- MODULE TokenBucketProofs -------------------------
(***************************************************************************)
(* For every limit, window and batch size: Redis admits at most the limit  *)
(* plus the limit's share of the time passed.  The argument is BucketInv:  *)
(* the time since the last call pays for its refill, and when the hash has *)
(* expired, at least a whole window has passed, which pays for a full one. *)
(***************************************************************************)
EXTENDS TokenBucket, TLAPS

\* Rounding the window up to milliseconds does not shorten it.
LEMMA TtlCoversWindow == Ttl \in Nat /\ Ttl >= Window
  <1> DEFINE n == Window + Milli - 1
             d == n \div Milli
  <1>1. n \in Nat /\ Milli \in Nat /\ Milli > 0 /\ Window \in Nat
    BY BucketAssumption
  <1> HIDE DEF n
  <1>2. d \in Nat /\ n = Milli * d + (n % Milli) /\ n % Milli \in 0 .. Milli - 1
    BY <1>1
  <1> HIDE DEF d
  <1>3. d * Milli \in Nat /\ Milli * d = d * Milli
    BY <1>1, <1>2
  <1>4. d * Milli >= Window
    BY <1>1, <1>2, <1>3 DEF n
  <1> QED
    BY <1>3, <1>4 DEF Ttl, d, n

\* The products the bound is made of.
LEMMA Products ==
  /\ Limit \in Nat /\ Window \in Nat /\ Capacity \in Nat
  /\ \A a, b \in Int : (a + b) * Limit = a * Limit + b * Limit
  /\ \A a, b \in Int : (a + b) * Window = a * Window + b * Window
  /\ \A a, b \in Int : a <= b => a * Limit <= b * Limit
  /\ \A a \in Nat : a * Limit \in Nat /\ a * Window \in Nat
  /\ \A a \in Int : a * Limit \in Int /\ a * Window \in Int
  /\ Window * Limit = Capacity
  <1>1. Limit \in Nat /\ Window \in Nat
    BY BucketAssumption
  <1>2. \A a, b \in Int : a <= b => a * Limit <= b * Limit
    <2> SUFFICES ASSUME NEW a \in Int, NEW b \in Int, a <= b
                 PROVE  a * Limit <= b * Limit
      OBVIOUS
    <2>1. (b - a) * Limit \in Nat
      BY <1>1
    <2>2. (b - a) * Limit = b * Limit - a * Limit
      BY <1>1
    <2> QED
      BY <1>1, <2>1, <2>2
  <1> QED
    BY <1>1, <1>2 DEF Capacity

\* A refill returns a bucket no older than the clock.
LEMMA RefillType ==
  ASSUME NEW b \in Buckets, NEW now \in Int
  PROVE  Refill(b, now) \in Buckets /\ Refill(b, now).timestamp >= now
  <1>1. b.tokens \in Nat /\ b.tokens <= Capacity /\ b.timestamp \in Int
    BY Products DEF Buckets
  <1>2. CASE now > b.timestamp
    <2> DEFINE gain == (now - b.timestamp) * Limit
    <2>1. gain \in Nat
      BY <1>1, <1>2, Products
    <2> HIDE DEF gain
    <2>2. AtMost(b.tokens + gain, Capacity) \in 0 .. Capacity
      BY <1>1, <2>1, Products DEF AtMost
    <2> QED
      BY <1>2, <2>2 DEF Refill, Buckets, gain
  <1>3. CASE ~(now > b.timestamp)
    BY <1>1, <1>3 DEF Refill
  <1> QED
    BY <1>2, <1>3

\* What the script finds after its refill is still within the bound: a hash
\* that was kept was refilled for the time since the last call, and one that
\* expired was left alone for a window.
LEMMA FoundWithinBound ==
  ASSUME BucketInv, NEW b, b = Refill(Stored(clock), clock)
  PROVE  /\ b \in Buckets /\ b.timestamp >= clock
         /\ admitted * Window + b.tokens <= Capacity + passed * Limit
  <1> USE TtlCoversWindow
  <1>0. /\ clock \in Int /\ expireAt \in Int /\ admitted \in Nat /\ passed \in Nat
        /\ redis \in Buckets /\ redis.tokens \in Nat /\ redis.timestamp \in Int
        /\ admitted * Window \in Nat /\ passed * Limit \in Nat /\ Capacity \in Nat
    BY Products DEF BucketInv, TypeOK, Buckets
  <1>1. SinceLastCall \in Nat /\ SinceLastCall >= clock - (expireAt - Ttl)
    BY <1>0 DEF SinceLastCall
  <1>2. CASE ~written \/ clock >= expireAt
    <2>1. Stored(clock) = [tokens |-> Capacity, timestamp |-> clock]
      BY <1>2 DEF Stored
    <2>2. b = [tokens |-> Capacity, timestamp |-> clock]
      BY <1>0, <2>1 DEF Refill
    <2>3. CASE ~written
      <3>1. admitted * Window = 0
        BY <2>3, Products DEF BucketInv
      <3> QED
        BY <1>0, <2>2, <3>1 DEF Buckets
    <2>4. CASE written
      <3>1. SinceLastCall >= Window
        BY <1>0, <1>1, <1>2, <2>4, Products
      <3>2. SinceLastCall * Limit >= Capacity /\ SinceLastCall * Limit \in Nat
        BY <1>1, <3>1, Products
      <3>3. admitted * Window + redis.tokens + SinceLastCall * Limit
              <= Capacity + passed * Limit
        BY <2>4 DEF BucketInv
      <3>4. admitted * Window + Capacity <= Capacity + passed * Limit
        BY <1>0, <3>2, <3>3
      <3> QED
        BY <1>0, <2>2, <3>4 DEF Buckets
    <2> QED
      BY <2>3, <2>4 DEF BucketInv, TypeOK
  <1>3. CASE written /\ ~(clock >= expireAt)
    <2>1. b = Refill(redis, clock)
      BY <1>3 DEF Stored
    <2>2. b \in Buckets /\ b.timestamp >= clock
      BY <1>0, <2>1, RefillType
    <2>3. admitted * Window + redis.tokens + SinceLastCall * Limit
            <= Capacity + passed * Limit
      BY <1>3 DEF BucketInv
    <2>4. SinceLastCall * Limit \in Nat
      BY <1>1, Products
    <2>5. b.tokens <= redis.tokens + SinceLastCall * Limit
      <3>1. CASE clock > redis.timestamp
        <4> DEFINE gain == (clock - redis.timestamp) * Limit
        <4>1. clock - redis.timestamp <= SinceLastCall
          BY <1>0, <1>1, <1>3 DEF BucketInv
        <4>2. gain \in Int /\ gain <= SinceLastCall * Limit
          BY <1>0, <1>1, <4>1, Products
        <4>3. b.tokens = AtMost(redis.tokens + gain, Capacity)
          BY <2>1, <3>1 DEF Refill
        <4> HIDE DEF gain
        <4> QED
          BY <1>0, <2>4, <4>2, <4>3 DEF AtMost
      <3>2. CASE ~(clock > redis.timestamp)
        BY <1>0, <2>1, <2>4, <3>2 DEF Refill
      <3> QED
        BY <3>1, <3>2
    <2>6. b.tokens \in Nat
      BY <2>2, Products DEF Buckets
    <2> QED
      BY <1>0, <2>2, <2>3, <2>4, <2>5, <2>6
  <1> QED
    BY <1>2, <1>3 DEF BucketInv, TypeOK

\* Spending takes exactly the tokens of what it admits.
LEMMA SpendExact ==
  ASSUME NEW b \in Buckets, NEW amount \in 1 .. MaxAmount
  PROVE  /\ Spend(b, amount) \in Buckets
         /\ Spend(b, amount).timestamp = b.timestamp
         /\ Spend(b, amount).tokens <= b.tokens
         /\ Allowed(b, amount) =>
              Spend(b, amount).tokens + amount * Window = b.tokens
  <1>1. amount \in Nat /\ amount * Window \in Nat /\ Capacity \in Nat
    BY Products, BucketAssumption
  <1> DEFINE cost == amount * Window
  <1>2. cost \in Nat
    BY <1>1
  <1>3. Spend(b, amount) = IF b.tokens >= cost
                           THEN [b EXCEPT !.tokens = @ - cost] ELSE b
    BY DEF Spend, Allowed
  <1>4. Allowed(b, amount) <=> b.tokens >= cost
    BY DEF Allowed
  <1> HIDE DEF cost
  <1>5. /\ Spend(b, amount) \in Buckets
        /\ Spend(b, amount).timestamp = b.timestamp
        /\ Spend(b, amount).tokens <= b.tokens
        /\ Allowed(b, amount) => Spend(b, amount).tokens + cost = b.tokens
    BY <1>1, <1>2, <1>3, <1>4 DEF Buckets
  <1> QED
    BY <1>5 DEF cost

\* A call, whether its answer arrives or not, leaves the script's bucket.
LEMMA ScriptStep ==
  ASSUME BucketInv, NEW amount \in 1 .. MaxAmount, NEW b,
         b = Refill(Stored(clock), clock), Script(amount),
         admitted' \in Nat, UNCHANGED <<passed, clock, back>>,
         memory' = Spend(Refill(memory, passed), amount),
         \/ admitted' = admitted
         \/ Allowed(b, amount) /\ admitted' = admitted + amount
  PROVE  BucketInv'
  <1> USE TtlCoversWindow
  <1>1. /\ b \in Buckets /\ b.timestamp >= clock
        /\ admitted * Window + b.tokens <= Capacity + passed * Limit
    BY FoundWithinBound
  <1>2. /\ redis' = Spend(b, amount) /\ expireAt' = clock + Ttl /\ written' = TRUE
    BY DEF Script
  <1>3. /\ redis' \in Buckets /\ redis'.timestamp = b.timestamp
        /\ redis'.tokens <= b.tokens
        /\ Allowed(b, amount) => redis'.tokens + amount * Window = b.tokens
    BY <1>1, <1>2, SpendExact
  <1>4. memory' \in Buckets
    BY RefillType, SpendExact DEF BucketInv, TypeOK
  <1>5. /\ clock \in Int /\ passed \in Nat /\ admitted \in Nat /\ amount \in Int
        /\ b.tokens \in Nat /\ redis'.tokens \in Nat /\ b.timestamp \in Int
    BY <1>1, <1>3, Products, BucketAssumption DEF BucketInv, TypeOK, Buckets
  <1>6. TypeOK'
    BY <1>2, <1>3, <1>4, <1>5 DEF BucketInv, TypeOK
  <1>7. SinceLastCall' = 0
    BY <1>2, <1>5 DEF SinceLastCall, Ttl
  <1>8. /\ SinceLastCall' * Limit = 0 /\ admitted * Window \in Nat
        /\ amount * Window \in Int /\ passed * Limit \in Nat /\ Capacity \in Nat
        /\ (admitted + amount) * Window = admitted * Window + amount * Window
    BY <1>5, <1>7, Products
  <1>9. admitted' * Window + redis'.tokens <= Capacity + passed * Limit
    BY <1>1, <1>3, <1>5, <1>8
  <1>10. admitted' * Window \in Nat
    BY Products
  <1>11. (redis.timestamp >= expireAt - Ttl)'
    <2>1. clock >= clock + Ttl - Ttl
      BY <1>5
    <2> QED BY <1>1, <1>2, <1>3, <1>5, <2>1 DEF Ttl
  <1>12. (admitted * Window + redis.tokens + SinceLastCall * Limit
            <= Capacity + passed * Limit)'
    BY <1>5, <1>8, <1>9, <1>10 DEF Capacity
  <1> QED
    BY <1>2, <1>6, <1>11, <1>12 DEF BucketInv

\* Calls, time and a clock set back preserve the bound's invariant.
LEMMA BucketInvStep == BucketInv /\ [Next]_vars => BucketInv'
  <1> SUFFICES ASSUME BucketInv, [Next]_vars PROVE BucketInv'
    OBVIOUS
  <1> USE TtlCoversWindow
  <1>0. /\ passed \in Nat /\ clock \in Int /\ back \in Nat /\ expireAt \in Int
        /\ admitted \in Nat
        /\ admitted * Window \in Nat /\ redis.tokens \in Nat /\ Capacity \in Nat
    BY Products DEF BucketInv, TypeOK, Buckets
  <1>1. ASSUME NEW amount \in 1 .. MaxAmount, AllowN(amount) PROVE BucketInv'
    <2> DEFINE b == Refill(Stored(clock), clock)
    <2>0. amount \in Nat
      BY BucketAssumption
    <2>1. CASE Allowed(b, amount)
      <3>1. admitted' = admitted + amount
        BY <1>1, <2>1 DEF AllowN
      <3> QED
        BY <1>0, <1>1, <2>0, <2>1, <3>1, ScriptStep DEF AllowN
    <2>2. CASE ~Allowed(b, amount)
      BY <1>0, <1>1, <2>2, ScriptStep DEF AllowN
    <2> QED
      BY <2>1, <2>2
  <1>2. ASSUME NEW amount \in 1 .. MaxAmount, AllowNUnavailable(amount)
        PROVE  BucketInv'
    BY <1>0, <1>2, ScriptStep DEF AllowNUnavailable
  <1>3. SinceLastCall \in Nat /\ SinceLastCall * Limit \in Nat
    BY <1>0, Products DEF SinceLastCall
  <1>4. CASE Tick
    <2>1. TypeOK'
      BY <1>0, <1>4 DEF Tick, BucketInv, TypeOK
    <2>2. SinceLastCall' \in Nat /\ SinceLastCall' <= SinceLastCall + 1
      BY <1>0, <1>4 DEF Tick, SinceLastCall, Ttl
    <2> DEFINE since == SinceLastCall'
    <2> HIDE DEF since
    <2>a. since \in Nat /\ since <= SinceLastCall + 1
      BY <2>2 DEF since
    <2>b. /\ since * Limit \in Nat /\ since * Limit <= (SinceLastCall + 1) * Limit
          /\ (SinceLastCall + 1) * Limit = SinceLastCall * Limit + 1 * Limit
          /\ (passed + 1) * Limit = passed * Limit + 1 * Limit
      BY <1>0, <1>3, <2>a, Products
    <2>3. /\ SinceLastCall' * Limit \in Nat
          /\ SinceLastCall' * Limit <= SinceLastCall * Limit + 1 * Limit
          /\ (passed + 1) * Limit = passed * Limit + 1 * Limit
          /\ 1 * Limit \in Nat /\ passed * Limit \in Nat
      BY <1>0, <1>3, <2>b, Products DEF since
    <2>4. written => admitted * Window + redis.tokens + SinceLastCall' * Limit
                       <= Capacity + (passed + 1) * Limit
      BY <1>0, <1>3, <2>3 DEF BucketInv
    <2> QED
      BY <1>4, <2>1, <2>4 DEF Tick, BucketInv, Capacity, Ttl
  <1>5. ASSUME NEW d \in 1 .. MaxBack, SetBack(d) PROVE BucketInv'
    <2>0. d \in Nat
      BY BucketAssumption
    <2>1. TypeOK'
      BY <1>0, <1>5, <2>0 DEF SetBack, BucketInv, TypeOK
    <2>2. SinceLastCall' \in Nat /\ SinceLastCall' <= SinceLastCall
      BY <1>0, <1>5, <2>0 DEF SetBack, SinceLastCall, Ttl
    <2> DEFINE since == SinceLastCall'
    <2> HIDE DEF since
    <2>a. since \in Nat /\ since <= SinceLastCall
      BY <2>2 DEF since
    <2>b. since * Limit \in Nat /\ since * Limit <= SinceLastCall * Limit
      BY <1>3, <2>a, Products
    <2>3. /\ SinceLastCall' * Limit \in Nat
          /\ SinceLastCall' * Limit <= SinceLastCall * Limit
          /\ passed * Limit \in Nat
      BY <1>0, <2>b, Products DEF since
    <2>4. written => admitted * Window + redis.tokens + SinceLastCall' * Limit
                       <= Capacity + passed * Limit
      BY <1>0, <1>3, <2>3 DEF BucketInv
    <2> QED
      BY <1>5, <2>1, <2>4 DEF SetBack, BucketInv, Capacity, Ttl
  <1>6. CASE UNCHANGED vars
    BY <1>6 DEF vars, BucketInv, TypeOK, SinceLastCall, Ttl, Capacity, Buckets
  <1> QED
    BY <1>1, <1>2, <1>4, <1>5, <1>6 DEF Next

\* The invariant holds of every reachable bucket.
THEOREM BucketInvariant == Spec => []BucketInv
  <1>1. Init => BucketInv
    <2> SUFFICES ASSUME Init PROVE BucketInv
      OBVIOUS
    <2>1. [tokens |-> Capacity, timestamp |-> 0] \in Buckets /\ -Window \in Int
      BY Products DEF Buckets
    <2>2. TypeOK
      <3>1. written \in BOOLEAN
        BY Zenon DEF Init
      <3>2. /\ passed \in Nat /\ clock \in Int /\ back \in Nat
            /\ redis \in Buckets /\ memory \in Buckets /\ expireAt \in Int
            /\ admitted \in Nat
        BY <2>1 DEF Init
      <3> QED
        BY <3>1, <3>2 DEF TypeOK
    <2>3. ~written /\ admitted = 0
      BY DEF Init
    <2> QED
      BY <2>2, <2>3 DEF BucketInv
  <1> QED
    BY <1>1, BucketInvStep, PTL DEF Spec

\* Redis admits at most the limit plus the limit's share of the time passed.
THEOREM AdmissionBound == Spec => []AdmittedBounded
  <1>1. BucketInv => AdmittedBounded
    <2> SUFFICES ASSUME BucketInv PROVE AdmittedBounded
      OBVIOUS
    <2>0. /\ admitted * Window \in Nat /\ passed * Limit \in Nat /\ Capacity \in Nat
          /\ redis.tokens \in Nat
      BY Products DEF BucketInv, TypeOK, Buckets
    <2>1. SinceLastCall \in Nat
      BY TtlCoversWindow DEF SinceLastCall, BucketInv, TypeOK
    <2>2. SinceLastCall * Limit \in Nat
      BY <2>1, Products
    <2>3. CASE written
      BY <2>0, <2>2, <2>3 DEF BucketInv, AdmittedBounded
    <2>4. CASE ~written
      <3>1. admitted * Window = 0
        BY <2>4, Products DEF BucketInv
      <3> QED BY <2>0, <3>1 DEF AdmittedBounded
    <2> QED
      BY <2>3, <2>4
  <1> QED
    BY <1>1, BucketInvariant, PTL

\* A bucket untouched for a window refills to a full one.
LEMMA WindowRefillsAll ==
  ASSUME NEW b \in Buckets, NEW now \in Int, now - b.timestamp >= Window
  PROVE  Refill(b, now) = [tokens |-> Capacity, timestamp |-> now]
  <1>1. b.tokens \in Nat /\ b.timestamp \in Int /\ Window > 0
    BY Products, BucketAssumption DEF Buckets
  <1> DEFINE gain == (now - b.timestamp) * Limit
  <1>2. gain \in Int /\ gain >= Capacity
    BY <1>1, Products
  <1>3. now > b.timestamp
    BY <1>1, Products
  <1>4. Refill(b, now) = [tokens |-> AtMost(b.tokens + gain, Capacity),
                          timestamp |-> now]
    BY <1>3 DEF Refill
  <1> HIDE DEF gain
  <1>5. AtMost(b.tokens + gain, Capacity) = Capacity
    BY <1>1, <1>2, Products DEF AtMost
  <1> QED
    BY <1>4, <1>5

\* With a clock that was never set back both limiters find the same bucket.
LEMMA SameFound ==
  ASSUME BucketInv, AgreeInv, back = 0
  PROVE  Refill(Stored(clock), clock) = Refill(memory, passed)
  <1> DEFINE full == [tokens |-> Capacity, timestamp |-> clock]
  <1>0. /\ clock = passed /\ clock \in Nat /\ expireAt \in Int /\ Capacity \in Nat
        /\ redis \in Buckets /\ memory \in Buckets /\ Window \in Nat
        /\ redis.timestamp \in Int /\ full \in Buckets
    BY Products DEF BucketInv, TypeOK, AgreeInv, Buckets
  <1>1. Refill(full, clock) = full
    BY <1>0 DEF Refill
  <1>2. CASE ~written
    <2>1. Stored(clock) = full /\ memory = [tokens |-> Capacity, timestamp |-> 0]
      BY <1>2 DEF Stored, AgreeInv
    <2>2. CASE clock = 0
      BY <1>0, <1>1, <2>1, <2>2
    <2>3. CASE clock > 0
      <3>1. clock * Limit \in Nat
        BY <1>0, Products
      <3>2. AtMost(Capacity + clock * Limit, Capacity) = Capacity
        BY <1>0, <3>1 DEF AtMost
      <3>3. Refill(memory, clock) = full
        BY <1>0, <2>1, <2>3, <3>2 DEF Refill
      <3> QED
        BY <1>0, <1>1, <2>1, <3>3
    <2> QED
      BY <1>0, <2>2, <2>3
  <1>3. CASE written /\ clock >= expireAt
    <2>1. Stored(clock) = full
      BY <1>3 DEF Stored
    <2>2. memory.timestamp = expireAt - Ttl
      BY <1>3 DEF AgreeInv
    <2>3. clock - memory.timestamp >= Window
      BY <1>0, <1>3, <2>2, TtlCoversWindow
    <2>4. Refill(memory, clock) = full
      BY <1>0, <2>3, WindowRefillsAll
    <2> QED
      BY <1>0, <1>1, <2>1, <2>4
  <1>4. CASE written /\ ~(clock >= expireAt)
    BY <1>0, <1>4 DEF Stored, AgreeInv
  <1> QED
    BY <1>2, <1>3, <1>4 DEF BucketInv, TypeOK

\* A call leaves both limiters with the same bucket, dated by the call.
LEMMA SameLeft ==
  ASSUME BucketInv, AgreeInv, NEW amount \in 1 .. MaxAmount, Script(amount),
         memory' = Spend(Refill(memory, passed), amount),
         UNCHANGED <<passed, clock, back>>
  PROVE  AgreeInv'
  <1> SUFFICES ASSUME back = 0 PROVE AgreeInv'
    BY DEF AgreeInv
  <1> USE TtlCoversWindow
  <1> DEFINE b == Refill(memory, passed)
  <1>1. clock = passed /\ clock \in Int /\ memory \in Buckets /\ memory.timestamp \in Int
    BY DEF BucketInv, TypeOK, AgreeInv, Buckets
  <1>2. redis' = Spend(b, amount) /\ memory' = redis'
    BY SameFound DEF Script
  <1>3. b \in Buckets /\ b.timestamp >= clock
    BY <1>1, RefillType
  <1>4. b.timestamp = clock
    <2>1. CASE clock > memory.timestamp
      BY <1>1, <2>1 DEF Refill
    <2>2. CASE ~(clock > memory.timestamp)
      <3>1. b = memory
        BY <1>1, <2>2 DEF Refill
      <3>2. CASE written
        BY <1>1, <2>2, <3>1, <3>2 DEF AgreeInv
      <3>3. CASE ~written
        <4>1. memory.timestamp = 0 /\ clock >= 0
          BY <1>1, <3>3 DEF AgreeInv, BucketInv, TypeOK
        <4> QED BY <1>1, <2>2, <3>1, <4>1
      <3> QED BY <3>2, <3>3
    <2> QED BY <2>1, <2>2
  <1>5. redis'.timestamp = clock
    BY <1>2, <1>3, <1>4, SpendExact
  <1>6. expireAt' = clock + Ttl /\ written' = TRUE
    BY DEF Script
  <1> QED
    BY <1>1, <1>2, <1>5, <1>6 DEF AgreeInv, Ttl

\* Calls and time keep the two limiters alike while the clock moves forward.
LEMMA AgreeInvStep == BucketInv /\ AgreeInv /\ [Next]_vars => AgreeInv'
  <1> SUFFICES ASSUME BucketInv, AgreeInv, [Next]_vars PROVE AgreeInv'
    OBVIOUS
  <1>0. passed \in Nat /\ clock \in Int /\ back \in Nat /\ redis.timestamp \in Int
    BY DEF BucketInv, TypeOK, Buckets
  <1>1. ASSUME NEW amount \in 1 .. MaxAmount,
               AllowN(amount) \/ AllowNUnavailable(amount)
        PROVE  AgreeInv'
    BY <1>1, SameLeft DEF AllowN, AllowNUnavailable
  <1>2. CASE Tick
    BY <1>0, <1>2 DEF Tick, AgreeInv, Capacity, Ttl
  <1>3. ASSUME NEW d \in 1 .. MaxBack, SetBack(d) PROVE AgreeInv'
    BY <1>0, <1>3 DEF SetBack, AgreeInv
  <1>4. CASE UNCHANGED vars
    BY <1>4 DEF vars, AgreeInv, Capacity, Ttl
  <1> QED
    BY <1>1, <1>2, <1>3, <1>4 DEF Next

\* The hash's expiry cannot be told from a bucket kept for ever, unless the
\* server's clock is set back.
THEOREM ExpiryNeverSeen == Spec => []ExpiryInvisible
  <1>1. Init => AgreeInv
    BY DEF Init, AgreeInv
  <1>2. BucketInv /\ AgreeInv => ExpiryInvisible
    BY SameFound DEF ExpiryInvisible
  <1> QED
    BY <1>1, <1>2, AgreeInvStep, BucketInvariant, PTL DEF Spec
=============================================================================
