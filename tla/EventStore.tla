----------------------------- MODULE EventStore -----------------------------
(***************************************************************************)
(* The two stores that the workers fill from events.raw.                   *)
(*                                                                         *)
(* A persistence worker saves its batch in Postgres: first with COPY, and  *)
(* when that meets a unique violation with INSERT .. ON CONFLICT DO        *)
(* NOTHING, a second statement that other workers may run before.  An      *)
(* analytics worker appends its batch to the ClickHouse table, which keeps *)
(* every version and drops all but the last inserted when it is read with  *)
(* FINAL.                                                                  *)
(*                                                                         *)
(* The workers are one consumer group, of either service: the two groups   *)
(* share nothing but the topic, which they only read.  The owner of the    *)
(* partition fetches from position; a rebalance gives it to another member *)
(* at the committed offset while the old owner still works on what it took. *)
(* A handler error is retried for ever (the loop itself is BatchConsumer). *)
(***************************************************************************)
EXTENDS Naturals, Sequences

CONSTANTS
    Workers,         \* the members of the group
    BatchSize,       \* PULSE_CONSUMER_BATCH_SIZE, above 1: runBatch
    MaxStoreFaults   \* bound: failed statements, rebalances and crashes

VARIABLES
    log,            \* the partition; appended to by the API
    service,        \* what the group does
    owner,          \* the member that has the partition
    position,       \* offset up to which the owner has fetched
    committed,      \* the group's committed offset
    phase,          \* what each worker does next
    from, to,       \* the offsets of the batch it holds
    rows,           \* Postgres: table events
    table,          \* ClickHouse: row versions in the order of insertion
    storeFaults

vars == <<log, service, owner, position, committed, phase, from, to, rows, table,
          storeFaults>>

Ids(events) == {e.id : e \in events}
Elements(s) == {s[i] : i \in 1 .. Len(s)}
Batch(w) == SubSeq(log, from[w], to[w])

Init ==
    /\ service \in {"persistence", "analytics"}
    /\ owner = CHOOSE w \in Workers : TRUE
    /\ position = 0 /\ committed = 0
    /\ phase = [w \in Workers |-> "fetch"]
    /\ from = [w \in Workers |-> 1]
    /\ to = [w \in Workers |-> 0]
    /\ rows = {} /\ table = <<>> /\ storeFaults = 0

Fault == storeFaults < MaxStoreFaults /\ storeFaults' = storeFaults + 1

Goto(w, p) == phase' = [phase EXCEPT ![w] = p]

\* The worker forgets its batch and fetches again.
Drop(w) ==
    /\ Goto(w, "fetch")
    /\ from' = [from EXCEPT ![w] = 1]
    /\ to' = [to EXCEPT ![w] = 0]

-----------------------------------------------------------------------------
\* HandleBatch begins: with COPY, or with the one call of RecordBatch.
HandlerStart == IF service = "analytics" THEN "record" ELSE "copy"

\* The owner fetches a batch and hands it to HandleBatch.
Fetch(w) ==
    /\ phase[w] = "fetch" /\ owner = w
    /\ \E n \in 1 .. BatchSize :
        /\ position + n <= Len(log)
        /\ position' = position + n
        /\ from' = [from EXCEPT ![w] = position + 1]
        /\ to' = [to EXCEPT ![w] = position + n]
    /\ Goto(w, HandlerStart)
    /\ UNCHANGED <<log, service, owner, committed, rows, table, storeFaults>>

\* Postgres rejects a payload for good: every statement with it fails.
Poisoned(w) == \E e \in Elements(Batch(w)) : ~e.storable

\* COPY would violate UNIQUE (tenant_id, event_id).
Conflict(w) ==
    LET b == Batch(w) IN
    \E j \in 1 .. Len(b) :
        \/ b[j].id \in Ids(rows)
        \/ \E k \in 1 .. j - 1 : b[k].id = b[j].id

\* COPY writes all rows or none.
Copy(w) ==
    /\ phase[w] = "copy" /\ ~Poisoned(w) /\ ~Conflict(w)
    /\ rows' = rows \cup Elements(Batch(w))
    /\ Goto(w, "commit")
    /\ UNCHANGED <<log, service, owner, position, committed, from, to, table,
                   storeFaults>>

\* Mutant: a unique violation is taken to mean that the batch is stored.
CopyConflictStored(w) ==
    /\ phase[w] = "copy" /\ ~Poisoned(w) /\ Conflict(w)
    /\ Goto(w, "commit")
    /\ UNCHANGED <<log, service, owner, position, committed, from, to, rows,
                   table, storeFaults>>

CopyConflict(w) ==
    /\ phase[w] = "copy" /\ ~Poisoned(w) /\ Conflict(w)
    /\ Goto(w, "insert")
    /\ UNCHANGED <<log, service, owner, position, committed, from, to, rows,
                   table, storeFaults>>

\* Mutant: ON CONFLICT DO UPDATE.
UpsertedLast(w) ==
    LET b == Batch(w)
        last == {b[i] : i \in {j \in 1 .. Len(b) :
                    \A k \in j + 1 .. Len(b) : b[k].id # b[j].id}}
    IN  {r \in rows : r.id \notin Ids(last)} \cup last

\* ON CONFLICT DO NOTHING: the stored row stays, and the first of the batch.
Upserted(w) ==
    LET b == Batch(w) IN
    rows \cup {b[i] : i \in {j \in 1 .. Len(b) :
                    /\ b[j].id \notin Ids(rows)
                    /\ \A k \in 1 .. j - 1 : b[k].id # b[j].id}}

Insert(w) ==
    /\ phase[w] = "insert" /\ ~Poisoned(w)
    /\ rows' = Upserted(w)
    /\ Goto(w, "commit")
    /\ UNCHANGED <<log, service, owner, position, committed, from, to, table,
                   storeFaults>>

\* A statement fails, or its answer is lost after it took effect; the handler
\* runs again from the start.
SaveError(w) ==
    /\ phase[w] \in {"copy", "insert"}
    /\ Fault
    /\ rows' \in {rows} \cup
         (IF Poisoned(w) \/ (phase[w] = "copy" /\ Conflict(w)) THEN {}
          ELSE {Upserted(w)})
    /\ Goto(w, HandlerStart)
    /\ UNCHANGED <<log, service, owner, position, committed, from, to, table>>

\* RecordBatch: one native batch, sent whole.
Record(w) ==
    /\ phase[w] = "record"
    /\ table' = table \o Batch(w)
    /\ Goto(w, "commit")
    /\ UNCHANGED <<log, service, owner, position, committed, from, to, rows,
                   storeFaults>>

RecordError(w) ==
    /\ phase[w] = "record"
    /\ Fault
    /\ table' \in {table, table \o Batch(w)}
    /\ UNCHANGED <<log, service, owner, position, committed, phase, from, to,
                   rows>>

\* CommitMessages overwrites the group's offset, also when the partition has
\* gone to another member meanwhile.
Commit(w) ==
    /\ phase[w] = "commit"
    /\ committed' = to[w]
    /\ Drop(w)
    /\ UNCHANGED <<log, service, owner, position, rows, table, storeFaults>>

\* Mutant: the new owner goes on where the old one had read to.
RebalanceAhead(w) ==
    /\ owner # w
    /\ Fault
    /\ owner' = w
    /\ UNCHANGED <<log, service, position, committed, phase, from, to, rows, table>>

\* The group gives the partition to w, from the committed offset on.
Rebalance(w) ==
    /\ owner # w
    /\ Fault
    /\ owner' = w
    /\ position' = committed
    /\ UNCHANGED <<log, service, committed, phase, from, to, rows, table>>

\* The worker dies between two statements, and is started again.
Crash(w) ==
    /\ phase[w] # "fetch"
    /\ Fault
    /\ Drop(w)
    /\ position' = IF owner = w THEN committed ELSE position
    /\ UNCHANGED <<log, service, owner, committed, rows, table>>

Work(w) ==
    Fetch(w) \/ Copy(w) \/ CopyConflict(w) \/ Insert(w) \/ Record(w) \/ Commit(w)

Fail(w) == SaveError(w) \/ RecordError(w) \/ Rebalance(w) \/ Crash(w)

Next == \E w \in Workers : Work(w) \/ Fail(w)

\* Some worker that can go on does.
Fairness == WF_vars(\E w \in Workers : Work(w))

-----------------------------------------------------------------------------
\* Mutant: the query reads without FINAL.
SummaryAllVersions(type) ==
    {e.id : e \in {f \in Elements(table) : f.type = type}}

\* Summary: what uniqExact(event_id) counts over events FINAL, for one event type.
Summary(type) ==
    {table[i].id : i \in {j \in 1 .. Len(table) :
        /\ table[j].type = type
        /\ \A k \in j + 1 .. Len(table) : table[k].id # table[j].id}}
=============================================================================
