----------------------------- MODULE Ingestion -----------------------------
(***************************************************************************)
(* POST /v1/events/batch, from the client to the topic.  One tenant, whose *)
(* events have one message key and so one partition, sends the batches of  *)
(* its program in order: each again until it is accepted, or rejected as   *)
(* invalid.  The API authenticates, decodes the whole batch, reserves its  *)
(* tokens and publishes it with all acknowledgements before it answers.    *)
(*                                                                         *)
(* The kafka-go writer is external.  It sends the messages of one call in  *)
(* order; a write may be repeated after a lost acknowledgement, or be given *)
(* up, and then the later ones are still sent.  WriteMessages returns when *)
(* all are settled, or at once when its context is cancelled, and then the *)
(* messages it was given are still written.                                *)
(***************************************************************************)
EXTENDS Naturals, Sequences

CONSTANTS
    Events,      \* what a batch may contain
    Programs,    \* the sequences of batches the client may send
    Requests,    \* requests that can be in the API at once
    NoRequest,
    MaxBatchEvents,  \* PULSE_MAX_BATCH_EVENTS
    MaxFaults    \* bound: failed calls, timeouts and crashes

\* An event: its identity, what it says, whether Validate accepts it, and
\* whether Postgres can store its payload.
ASSUME EventsAssumption ==
    \A e \in Events : /\ DOMAIN e = {"id", "type", "valid", "storable"}
                      /\ {e.valid, e.storable} \subseteq BOOLEAN
ASSUME ProgramsAssumption == Programs \subseteq Seq(Seq(Events))
ASSUME RequestsAssumption ==
    NoRequest \notin Requests /\ MaxBatchEvents \in Nat /\ MaxFaults \in Nat

VARIABLES
    program,
    turn,       \* the batch the client is sending
    waiting,    \* the request whose answer it waits for
    phase,      \* where each request is in ingestBatch
    batch,      \* which batch it carries
    unsent,     \* its messages the writer has not settled yet
    writeErr,   \* some message of it was given up
    accepted,   \* batches that were answered with 202
    log,        \* the partition of events.raw
    faults

vars == <<program, turn, waiting, phase, batch, unsent, writeErr, accepted,
          log, faults>>

Elements(s) == {s[i] : i \in 1 .. Len(s)}

\* Decode of the request's body: between one event and the configured maximum,
\* each of which passes Decode.
Decodes(t) ==
    /\ Len(program[t]) \in 1 .. MaxBatchEvents
    /\ \A e \in Elements(program[t]) : e.valid

Init ==
    /\ program \in Programs
    /\ turn = 1 /\ waiting = NoRequest
    /\ phase = [r \in Requests |-> "free"]
    /\ batch = [r \in Requests |-> 1]
    /\ unsent = [r \in Requests |-> <<>>]
    /\ writeErr = [r \in Requests |-> FALSE]
    /\ accepted = {} /\ log = <<>> /\ faults = 0

Fault == faults < MaxFaults /\ faults' = faults + 1

\* A call of the handler fails: by itself, or with the request's context, which
\* is cancelled when the client leaves.
CallFails(r) == Fault \/ (waiting # r /\ UNCHANGED faults)

-----------------------------------------------------------------------------
Free == {r \in Requests : phase[r] = "free" /\ unsent[r] = <<>>}

\* The client sends its current batch.
Send ==
    /\ waiting = NoRequest /\ turn <= Len(program)
    /\ Free # {}
    /\ LET r == CHOOSE r \in Free : TRUE IN
        /\ waiting' = r
        /\ phase' = [phase EXCEPT ![r] = "decode"]
        /\ batch' = [batch EXCEPT ![r] = turn]
    /\ UNCHANGED <<program, turn, unsent, writeErr, accepted, log, faults>>

\* It stops waiting; the request goes on.
Timeout ==
    /\ waiting # NoRequest
    /\ Fault
    /\ waiting' = NoRequest
    /\ UNCHANGED <<program, turn, phase, batch, unsent, writeErr, accepted,
                   log>>

\* ingestBatch returns.  A client that still waits goes on to its next batch
\* after 202 and 400, and otherwise sends this one again.
Answer(r, status) ==
    /\ phase' = [phase EXCEPT ![r] = "free"]
    /\ accepted' = IF status = 202 THEN accepted \cup {batch[r]} ELSE accepted
    /\ waiting' = IF waiting = r THEN NoRequest ELSE waiting
    /\ turn' = IF waiting = r /\ status \in {202, 400} THEN turn + 1 ELSE turn
    /\ batch' = [batch EXCEPT ![r] = 1]
    /\ writeErr' = [writeErr EXCEPT ![r] = FALSE]
    /\ UNCHANGED program

\* Authenticate fails: wrong or rotated key, or the store is down.
Unauthorized(r) ==
    /\ phase[r] = "decode"
    /\ CallFails(r)
    /\ Answer(r, 401)
    /\ UNCHANGED <<unsent, log>>

\* An empty or too long batch is rejected, and so is one with an event that does
\* not pass Decode.
Rejected(r) ==
    /\ phase[r] = "decode"
    /\ ~Decodes(batch[r])
    /\ Answer(r, 400)
    /\ UNCHANGED <<unsent, log, faults>>

\* Mutant: the events that do decode are passed on.
DecodedSome(r) ==
    /\ phase[r] = "decode"
    /\ \E e \in Elements(program[batch[r]]) : e.valid
    /\ phase' = [phase EXCEPT ![r] = "limit"]
    /\ UNCHANGED <<program, turn, waiting, batch, unsent, writeErr, accepted,
                   log, faults>>

Decoded(r) ==
    /\ phase[r] = "decode"
    /\ Decodes(batch[r])
    /\ phase' = [phase EXCEPT ![r] = "limit"]
    /\ UNCHANGED <<program, turn, waiting, batch, unsent, writeErr, accepted,
                   log, faults>>

\* AllowN refuses, or fails: the API does not fail open.
Limited(r) ==
    /\ phase[r] = "limit"
    /\ CallFails(r)
    /\ \E status \in {429, 503} : Answer(r, status)
    /\ UNCHANGED <<unsent, log>>

\* AllowN admits the batch and PublishBatch hands it to the writer.
Publish(r) ==
    /\ phase[r] = "limit"
    /\ phase' = [phase EXCEPT ![r] = "publish"]
    /\ unsent' = [unsent EXCEPT ![r] = program[batch[r]]]
    /\ UNCHANGED <<program, turn, waiting, batch, writeErr, accepted, log,
                   faults>>

\* The writer settles the next message: written and acknowledged, ...
Written(r) ==
    /\ unsent[r] # <<>>
    /\ log' = Append(log, Head(unsent[r]))
    /\ unsent' = [unsent EXCEPT ![r] = Tail(@)]
    /\ UNCHANGED <<program, turn, waiting, phase, batch, writeErr, accepted,
                   faults>>

\* ... written without an acknowledgement and tried again, ...
WrittenTwice(r) ==
    /\ unsent[r] # <<>>
    /\ Fault
    /\ log' = Append(log, Head(unsent[r]))
    /\ UNCHANGED <<program, turn, waiting, phase, batch, unsent, writeErr,
                   accepted>>

\* ... or given up, with or without having been written.
GivenUp(r) ==
    /\ unsent[r] # <<>>
    /\ Fault
    /\ log' \in {log, Append(log, Head(unsent[r]))}
    /\ unsent' = [unsent EXCEPT ![r] = Tail(@)]
    /\ writeErr' = [writeErr EXCEPT ![r] = (phase[r] = "publish")]
    /\ UNCHANGED <<program, turn, waiting, phase, batch, accepted>>

\* Mutants: the errors of the messages are dropped; the writer is asynchronous.
PublishedUnchecked(r) ==
    /\ phase[r] = "publish"
    /\ unsent[r] = <<>>
    /\ Answer(r, 202)
    /\ UNCHANGED <<unsent, log, faults>>
PublishedAsync(r) ==
    /\ phase[r] = "publish"
    /\ Answer(r, 202)
    /\ UNCHANGED <<unsent, log, faults>>

\* PublishBatch returns nil.
Published(r) ==
    /\ phase[r] = "publish"
    /\ unsent[r] = <<>> /\ ~writeErr[r]
    /\ Answer(r, 202)
    /\ UNCHANGED <<unsent, log, faults>>

\* Mutant: the handler answers only what was published.
NotDurableSilent(r) ==
    /\ phase[r] = "publish"
    /\ unsent[r] = <<>> /\ writeErr[r] /\ waiting # r
    /\ Answer(r, 503)
    /\ UNCHANGED <<unsent, log, faults>>

\* PublishBatch returns an error: the client has left and the context is
\* cancelled, or some message was given up.
NotDurable(r) ==
    /\ phase[r] = "publish"
    /\ waiting # r \/ (unsent[r] = <<>> /\ writeErr[r])
    /\ Answer(r, 503)
    /\ UNCHANGED <<unsent, log, faults>>

\* The API process dies with the request and the writer's messages; one that
\* is on its way to the broker may still arrive.
Crash(r) ==
    /\ phase[r] # "free" \/ unsent[r] # <<>>
    /\ Fault
    /\ phase' = [phase EXCEPT ![r] = "free"]
    /\ \E n \in {0, 1} \cap 0 .. Len(unsent[r]) :
            unsent' = [unsent EXCEPT ![r] = SubSeq(@, 1, n)]
    /\ waiting' = IF waiting = r THEN NoRequest ELSE waiting
    /\ batch' = [batch EXCEPT ![r] = 1]
    /\ writeErr' = [writeErr EXCEPT ![r] = FALSE]
    /\ UNCHANGED <<program, turn, accepted, log>>

Serve(r) ==
    \/ Rejected(r) \/ Decoded(r) \/ Publish(r) \/ Written(r) \/ Published(r)
    \/ NotDurable(r)

Fail(r) ==
    \/ Unauthorized(r) \/ Limited(r) \/ WrittenTwice(r) \/ GivenUp(r) \/ Crash(r)

Next ==
    \/ Send \/ Timeout
    \/ \E r \in Requests : Serve(r) \/ Fail(r)

\* The client keeps sending, and the API keeps working on some request.
Fairness == WF_vars(Send) /\ WF_vars(\E r \in Requests : Serve(r))

-----------------------------------------------------------------------------
\* "`202 Accepted` is returned only after a synchronous Kafka publish with all
\* required acknowledgements" (README.md:24): an accepted batch is in the log,
\* every event of it, whatever was lost, repeated or cancelled on the way.
AcceptedDurable ==
    \A t \in 1 .. Len(program) :
        t \in accepted => Elements(program[t]) \subseteq Elements(log)

\* A batch is rejected whole: nothing but events of batches that decode reaches
\* the topic.
RejectedInvisible ==
    Elements(log) \subseteq UNION {Elements(program[t]) :
                                t \in {u \in 1 .. Len(program) : Decodes(u)}}

\* "Events for one tenant are routed consistently and preserve partition order"
\* (docs/adr/ADR-003): an event appears only after every event of the batches
\* before the first one it is sent in, although retried, abandoned and cancelled
\* requests write at the same time.
InOrder ==
    \A u \in 1 .. Len(program), j \in 1 .. Len(log) :
        \/ \E s \in 1 .. u - 1 : log[j] \in Elements(program[s])
        \/ log[j] \in Elements(program[u]) =>
             \A t \in 1 .. u - 1 : Decodes(t) =>
                \A e \in Elements(program[t]) : \E i \in 1 .. j : log[i] = e

\* The inductive invariant behind the three: what the client is past is in the
\* log, and a request that publishes without an error has each of its events
\* in the log or still to be sent.
RequestSafe(r) ==
    /\ waiting = r => phase[r] # "free" /\ batch[r] = turn
    /\ phase[r] # "free" => batch[r] \in 1 .. Len(program) /\ batch[r] <= turn
    /\ phase[r] \in {"limit", "publish"} => Decodes(batch[r])
    /\ \A e \in Elements(unsent[r]) : \E t \in 1 .. Len(program) :
         t <= turn /\ Decodes(t) /\ e \in Elements(program[t])
    /\ phase[r] = "publish" /\ ~writeErr[r] =>
         Elements(program[batch[r]]) \subseteq Elements(log) \cup Elements(unsent[r])

IngestTypeOK ==
    /\ program \in Programs /\ turn \in 1 .. Len(program) + 1
    /\ waiting \in Requests \cup {NoRequest}
    /\ phase \in [Requests -> {"free", "decode", "limit", "publish"}]
    /\ batch \in [Requests -> Nat]
    /\ unsent \in [Requests -> Seq(Events)]
    /\ writeErr \in [Requests -> BOOLEAN]
    /\ accepted \subseteq Nat /\ log \in Seq(Events) /\ faults \in Nat

IngestInv ==
    /\ IngestTypeOK
    /\ \A r \in Requests : RequestSafe(r)
    /\ \A t \in 1 .. turn - 1 :
         Decodes(t) => Elements(program[t]) \subseteq Elements(log)
    /\ AcceptedDurable /\ RejectedInvisible /\ InOrder
=============================================================================
