------------------------------ MODULE Pipeline ------------------------------
(***************************************************************************)
(* The event path end to end: the API publishes to the partition, the      *)
(* persistence and analytics workers read it.  The two share the log alone. *)
(***************************************************************************)
EXTENDS Ingestion

CONSTANTS Workers, BatchSize, MaxStoreFaults

ASSUME StoreAssumption ==
    Workers # {} /\ BatchSize \in Nat \ {0, 1} /\ MaxStoreFaults \in Nat

VARIABLES service, owner, position, committed, work, from, to, rows, table, storeFaults

Store == INSTANCE EventStore WITH phase <- work

storeVars == <<service, owner, position, committed, work, from, to, rows, table,
               storeFaults>>

PipelineInit == Init /\ Store!Init

PipelineNext ==
    \/ Next /\ UNCHANGED storeVars
    \/ Store!Next /\ UNCHANGED vars

PipelineSpec ==
    /\ PipelineInit
    /\ [][PipelineNext]_<<vars, storeVars>>
    /\ Fairness /\ Store!Fairness

-----------------------------------------------------------------------------
Stored == Store!Ids(IF service = "analytics" THEN Elements(table) ELSE rows)

Offset(id) == CHOOSE i \in 1 .. Len(log) :
                log[i].id = id /\ \A j \in 1 .. i - 1 : log[j].id # id

\* Nothing is committed before it is stored (docs/adr/ADR-002): every event up
\* to a group's committed offset is in the group's store, also when COPY failed
\* on a batch of which only a part was there, when the worker was replaced
\* meanwhile, and when Postgres rejects an event for good: that one holds its
\* partition back, it is never passed over.
CommittedStored ==
    \A i \in 1 .. committed : log[i].id \in Stored

\* "PostgreSQL deduplicates `(tenant_id, event_id)`" (README.md:26), and which
\* of the contents sent under one identity it keeps does not depend on how
\* batches, workers and redeliveries fall: the first of the log.
FirstWins ==
    \A r \in rows : r.id \in Store!Ids(Elements(log)) /\ r = log[Offset(r.id)]

\* Postgres always holds a prefix of the tenant's history: an event is visible
\* only with all those before it in the log.
StoredInOrder ==
    \A i \in 1 .. Len(log) : log[i].id \in Store!Ids(rows) =>
        \A j \in 1 .. Offset(log[i].id) : log[j].id \in Store!Ids(rows)

\* The inductive invariant behind the three: what lies before a worker's batch is
\* stored, what the owner has read is stored or in its batch, and a batch is
\* stored before it is committed.
IsStored(i) == log[i].id \in Stored

WorkerSafe(w) ==
    work[w] # "fetch" =>
        /\ 1 <= from[w] /\ from[w] <= to[w] /\ to[w] <= Len(log)
        /\ \A i \in 1 .. from[w] - 1 : IsStored(i)
        /\ work[w] = "commit" => \A i \in 1 .. to[w] : IsStored(i)
        /\ work[w] \in {"copy", "insert"} => service = "persistence"
        /\ work[w] = "record" => service = "analytics"

OwnerSafe ==
    \A i \in 1 .. position :
        IsStored(i) \/ (work[owner] # "fetch" /\ i \in from[owner] .. to[owner])

StoreTypeOK ==
    /\ service \in {"persistence", "analytics"} /\ owner \in Workers
    /\ {position, committed} \subseteq 0 .. Len(log)
    /\ work \in [Workers -> {"fetch", "copy", "insert", "record", "commit"}]
    /\ from \in [Workers -> Nat] /\ to \in [Workers -> Nat]
    /\ rows \subseteq Events /\ table \in Seq(Events) /\ storeFaults \in Nat

PipelineInv ==
    /\ IngestInv /\ StoreTypeOK
    /\ \A w \in Workers : WorkerSafe(w)
    /\ OwnerSafe
    /\ CommittedStored /\ FirstWins /\ StoredInOrder

\* The summary counts every identity that the analytics group has committed, and
\* under exactly one type, one that it was sent with, however often it was sent,
\* redelivered and inserted.  Which one is not promised: a redelivery inserts an
\* older version after a newer, and the last inserted counts.
SummaryExact ==
    service = "analytics" =>
        \A i \in 1 .. committed : \E e \in Elements(log) :
            /\ e.id = log[i].id
            /\ \A u \in {f.type : f \in Elements(log)} :
                 e.id \in Store!Summary(u) <=> u = e.type

\* Once failures stop, every batch that decodes is accepted and what was
\* accepted is in the store; in Postgres only if the tenant has sent nothing
\* that it rejects for good, which holds up what comes after.
EventuallyStored ==
    <>(\A t \in 1 .. Len(program) : Decodes(t) =>
        /\ t \in accepted
        /\ \/ Store!Ids(Elements(program[t])) \subseteq Stored
           \/ service = "persistence" /\ \E e \in Elements(log) : ~e.storable)
=============================================================================
