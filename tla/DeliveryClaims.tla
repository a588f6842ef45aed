--------------------------- MODULE DeliveryClaims ---------------------------
(***************************************************************************)
(* The delivery claim of one (tenant, event, subscription): a row of       *)
(* webhook_delivery_claims, and the entry of MemoryStore.claims that       *)
(* stands for it in tests and local runs.  A claim is "none" (no row),     *)
(* pending, processing until its lease ends, or completed.                 *)
(***************************************************************************)
EXTENDS Naturals

CONSTANT DeliveryLease
ASSUME DeliveryLeaseAssumption == DeliveryLease \in Nat \ {0}

NoLease == 0   \* SQL NULL, Go's zero time; every lease granted is positive

Statuses == {"none", "pending", "processing", "completed"}
Claim == [status : Statuses, leaseUntil : Nat]
NoClaim == [status |-> "none", leaseUntil |-> NoLease]

\* Mutants: the lease is not looked at; it is taken to end a moment early.
ClaimableIgnoresLease(c, now) == c.status # "completed"
ClaimableEarly(c, now) ==
    \/ c.status = "none"
    \/ /\ c.status # "completed"
       /\ c.leaseUntil = NoLease \/ c.leaseUntil <= now + 1

\* Rows of the Postgres store.
Claimable(c, now) ==
    \/ c.status = "none"
    \/ /\ c.status # "completed"
       /\ c.leaseUntil = NoLease \/ c.leaseUntil <= now

ClaimDelivery(c, now) ==
    IF Claimable(c, now)
    THEN [status |-> "processing", leaseUntil |-> now + DeliveryLease]
    ELSE c

Leased(c, now) == c.status = "processing" /\ c.leaseUntil > now

CompleteDelivery(c, now) ==
    IF Leased(c, now)
    THEN [status |-> "completed", leaseUntil |-> NoLease]
    ELSE c

\* Mutants: the release writes the wrong status; it leaves the lease in place.
ReleaseDeliveryCompletes(c, now) ==
    IF Leased(c, now)
    THEN [status |-> "completed", leaseUntil |-> NoLease]
    ELSE c
ReleaseDeliveryKeepsLease(c, now) ==
    IF Leased(c, now) THEN [c EXCEPT !.status = "pending"] ELSE c

ReleaseDelivery(c, now) ==
    IF Leased(c, now)
    THEN [status |-> "pending", leaseUntil |-> NoLease]
    ELSE c

\* Entries of the MemoryStore.
MemoryClaimable(c, now) ==
    /\ c.status # "completed"
    /\ ~(c.status = "processing" /\ c.leaseUntil > now)

MemoryComplete(c, now) ==
    IF c.status \in {"none", "completed"} \/ ~(c.leaseUntil > now)
    THEN c
    ELSE [status |-> "completed", leaseUntil |-> NoLease]

MemoryRelease(c, now) ==
    IF c.status # "processing" \/ ~(c.leaseUntil > now)
    THEN c
    ELSE [status |-> "pending", leaseUntil |-> NoLease]
=============================================================================
