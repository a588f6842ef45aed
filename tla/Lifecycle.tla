----------------------------- MODULE Lifecycle -----------------------------
(***************************************************************************)
(* A process from its start to its exit: RunHTTP with setup, and RunWorker. *)
(* Both open what their configuration names in a fixed order, note how to  *)
(* close each (d.close and the defers, the last one first), run until      *)
(* SIGTERM, and unwind.  A worker's loop has returned by then.  The HTTP   *)
(* server's handlers have not: ListenAndServe returns when Shutdown begins, *)
(* so the dependencies are closed, and the process exits, under the        *)
(* requests that Shutdown waits for.                                       *)
(***************************************************************************)
EXTENDS Naturals, Sequences, FiniteSets

CONSTANTS
    Services,   \* the programs under cmd/
    Requests,   \* requests an API process may have in flight
    MaxFaults   \* bound: dependencies down, servers that fail

ASSUME LifecycleAssumption ==
    /\ Services \subseteq {"ingestion", "query-api", "persistence-worker",
                           "analytics-worker", "webhook-worker"}
    /\ MaxFaults \in Nat

Dependencies == {"postgres", "kafka", "redis", "clickhouse"}

VARIABLES
    service,
    configured,   \* the dependencies that have an address
    fallback,     \* PULSE_LOCAL_FALLBACK
    pc,           \* start, setup, run, unwind, exited
    step,         \* how far setup has come
    open,         \* what is open
    defers,       \* what the return will close, in this order
    signalled,    \* SIGTERM has cancelled the context
    metricsErr,   \* the worker's metrics server has failed
    failedRun,    \* ListenAndServe or the setup returned an error
    request,      \* the dependency each request in flight calls next
    cut,          \* some request met a closed dependency or the exit
    faults

config == <<service, configured, fallback>>
held == <<open, defers>>
traffic == <<request, cut>>
vars == <<config, pc, step, held, signalled, metricsErr, failedRun, traffic,
          faults>>

HTTP == service \in {"ingestion", "query-api"}

\* What is opened, in the order of the code.  The consumer and the metrics
\* server of a worker need no configuration of their own.
Plan ==
    CASE HTTP -> <<"tracing", "postgres", "kafka", "redis", "clickhouse">>
      [] service = "analytics-worker" ->
            <<"tracing", "clickhouse", "consumer", "metrics">>
      [] OTHER -> <<"tracing", "postgres", "consumer", "metrics">>

Configured(x) == x \in configured \/ x \notin Dependencies

\* Left out without an error: ClickHouse in the API, and with the fallback
\* what has an implementation in memory.
Optional(x) == HTTP /\ (x = "clickhouse" \/ fallback)

Init ==
    /\ service \in Services
    /\ configured \in SUBSET Dependencies
    /\ fallback \in BOOLEAN
    /\ pc = "start" /\ step = 1 /\ open = {} /\ defers = <<>>
    /\ signalled = FALSE /\ metricsErr = FALSE /\ failedRun = FALSE
    /\ request = [r \in Requests |-> "none"]
    /\ cut = FALSE /\ faults = 0

Fault == faults < MaxFaults /\ faults' = faults + 1

-----------------------------------------------------------------------------
\* A worker refuses the fallback, and to start without brokers.
Start ==
    /\ pc = "start"
    /\ failedRun' = (~HTTP /\ (fallback \/ "kafka" \notin configured))
    /\ pc' = IF failedRun' THEN "unwind" ELSE "setup"
    /\ UNCHANGED <<config, step, held, signalled, metricsErr, traffic,
                   faults>>

Open ==
    /\ pc = "setup" /\ step <= Len(Plan)
    /\ Configured(Plan[step])
    /\ open' = open \cup {Plan[step]}
    /\ defers' = <<Plan[step]>> \o defers
    /\ step' = step + 1
    /\ UNCHANGED <<config, pc, signalled, metricsErr, failedRun, traffic,
                   faults>>

\* The memory implementation, or a nil analytics store.
Skip ==
    /\ pc = "setup" /\ step <= Len(Plan)
    /\ ~Configured(Plan[step]) /\ Optional(Plan[step])
    /\ step' = step + 1
    /\ UNCHANGED <<config, pc, held, signalled, metricsErr, failedRun,
                   traffic, faults>>

\* Not configured and required.
Missing ==
    /\ pc = "setup" /\ step <= Len(Plan)
    /\ ~Configured(Plan[step]) /\ ~Optional(Plan[step])
    /\ pc' = "unwind" /\ failedRun' = TRUE
    /\ UNCHANGED <<config, step, held, signalled, metricsErr, traffic,
                   faults>>

\* Mutants: the API starts without the limiter; a failed ClickHouse returns
\* without d.close.
UnreachableOpens ==
    /\ pc = "setup" /\ step <= Len(Plan)
    /\ Plan[step] \in configured \ {"kafka"} /\ Fault
    /\ step' = step + 1
    /\ UNCHANGED <<config, pc, held, signalled, metricsErr, failedRun,
                   traffic>>
UnreachableLeaks ==
    /\ pc = "setup" /\ step <= Len(Plan)
    /\ Plan[step] \in configured \ {"kafka"} /\ Fault
    /\ pc' = "unwind" /\ failedRun' = TRUE
    /\ defers' = IF Plan[step] = "clickhouse" THEN <<>> ELSE defers
    /\ UNCHANGED <<config, step, open, signalled, metricsErr, traffic>>

\* The first ping fails, also because SIGTERM has cancelled the context that
\* NewPostgres and the Redis ping use.  A Redis client that was made
\* stays open; the producer connects later.
Unreachable ==
    /\ pc = "setup" /\ step <= Len(Plan)
    /\ LET x == Plan[step] IN
        /\ x \in configured \ {"kafka"}
        /\ Fault \/ (signalled /\ x # "clickhouse" /\ UNCHANGED faults)
        /\ open' \in {open, open \cup ({x} \cap {"redis"})}
    /\ pc' = "unwind" /\ failedRun' = TRUE
    /\ UNCHANGED <<config, step, defers, signalled, metricsErr, traffic>>

\* Mutant: setup itself defers d.close.
RunClosed ==
    /\ pc = "setup" /\ step > Len(Plan)
    /\ pc' = "run"
    /\ open' = open \ Dependencies
    /\ UNCHANGED <<config, step, defers, signalled, metricsErr, failedRun,
                   traffic, faults>>

\* ListenAndServe, consumer.Run.
Run ==
    /\ pc = "setup" /\ step > Len(Plan)
    /\ pc' = "run"
    /\ UNCHANGED <<config, step, held, signalled, metricsErr, failedRun,
                   traffic, faults>>

Signal ==
    /\ pc \in {"setup", "run"} /\ ~signalled
    /\ signalled' = TRUE
    /\ UNCHANGED <<config, pc, step, held, metricsErr, failedRun, traffic,
                   faults>>

\* The listener fails; a worker's metrics server fails and tells nobody yet.
ServerFails ==
    /\ pc = "run"
    /\ Fault
    /\ IF HTTP THEN pc' = "unwind" /\ failedRun' = TRUE /\ UNCHANGED metricsErr
               ELSE metricsErr' = TRUE /\ UNCHANGED <<pc, failedRun>>
    /\ UNCHANGED <<config, step, held, signalled, traffic>>

\* Mutant: the server is stopped once no request is in flight.
ReturnIdle ==
    /\ pc = "run" /\ signalled /\ \A r \in Requests : request[r] = "none"
    /\ pc' = "unwind"
    /\ failedRun' = metricsErr
    /\ UNCHANGED <<config, step, held, signalled, metricsErr, traffic,
                   faults>>

\* Shutdown closes the listener and ListenAndServe returns; the loop sees the
\* cancelled context and Run returns, and now the metrics error is looked at.
Return ==
    /\ pc = "run" /\ signalled
    /\ pc' = "unwind"
    /\ failedRun' = metricsErr
    /\ UNCHANGED <<config, step, held, signalled, metricsErr, traffic,
                   faults>>

\* Mutant: d.close closes what was opened first, first.
CloseFirst ==
    /\ pc = "unwind" /\ defers # <<>>
    /\ open' = open \ {defers[Len(defers)]}
    /\ defers' = SubSeq(defers, 1, Len(defers) - 1)
    /\ UNCHANGED <<config, pc, step, signalled, metricsErr, failedRun,
                   traffic, faults>>

Close ==
    /\ pc = "unwind" /\ defers # <<>>
    /\ open' = open \ {Head(defers)}
    /\ defers' = Tail(defers)
    /\ UNCHANGED <<config, pc, step, signalled, metricsErr, failedRun,
                   traffic, faults>>

\* main returns: handlers still running are gone.
Exit ==
    /\ pc = "unwind" /\ defers = <<>>
    /\ pc' = "exited"
    /\ cut' = (cut \/ \E r \in Requests : request[r] # "none")
    /\ request' = [r \in Requests |-> "none"]
    /\ UNCHANGED <<config, step, held, signalled, metricsErr, failedRun,
                   faults>>

\* A batch arrives at the API.
Arrive(r) ==
    /\ pc = "run" /\ HTTP /\ request[r] = "none"
    /\ request' = [request EXCEPT ![r] = "postgres"]
    /\ UNCHANGED <<config, pc, step, held, signalled, metricsErr, failedRun,
                   cut, faults>>

\* ingestBatch calls the tenant store, the limiter and the publisher in turn;
\* a closed one is an error, unless the tenant is cached, and the request is over.
Call(r) ==
    /\ pc # "exited" /\ request[r] # "none"
    /\ \E cached \in {FALSE, request[r] = "postgres"} :
       LET x == request[r]
           closed == x \in configured /\ x \notin open /\ ~cached
       IN  /\ request' = [request EXCEPT ![r] =
                    CASE closed \/ x = "kafka" -> "none"
                      [] x = "postgres"        -> "redis"
                      [] x = "redis"           -> "kafka"]
           /\ cut' = (cut \/ closed)
    /\ UNCHANGED <<config, pc, step, held, signalled, metricsErr, failedRun,
                   faults>>

Advance ==
    Start \/ Open \/ Skip \/ Missing \/ Run \/ Return \/ Close \/ Exit

Next ==
    \/ Advance \/ Unreachable \/ Signal \/ ServerFails
    \/ \E r \in Requests : Arrive(r) \/ Call(r)

Spec == Init /\ [][Next]_vars /\ WF_vars(Advance)

-----------------------------------------------------------------------------
Resources == Dependencies \cup {"tracing", "consumer", "metrics"}

Planned(x, n) == \E i \in 1 .. n : Plan[i] = x

OpenedBefore(x, y) ==
    \E i, j \in 1 .. Len(Plan) : i < j /\ Plan[i] = x /\ Plan[j] = y

\* The defers are the steps of setup that were taken, the last one first, and
\* what is open is what they will close, up to a Redis client that failed its
\* ping; until the unwinding begins nothing that setup opened has been closed,
\* and it begins with a signal or an error.  Only a serving API has requests.
LifecycleInv ==
    /\ service \in Services /\ pc \in {"start", "setup", "run", "unwind", "exited"}
    /\ step \in 1 .. Len(Plan) + 1 /\ defers \in Seq(Resources)
    /\ \A a \in 1 .. Len(defers) : Planned(defers[a], step - 1)
    /\ \A a, b \in 1 .. Len(defers) : a < b => OpenedBefore(defers[b], defers[a])
    /\ \A x \in open :
        \/ \E a \in 1 .. Len(defers) : defers[a] = x
        \/ x = "redis" /\ failedRun /\ step <= Len(Plan) /\ pc \in {"unwind", "exited"}
    /\ pc \in {"start", "setup", "run"} => \A i \in 1 .. step - 1 :
        IF Configured(Plan[i]) THEN Plan[i] \in open ELSE Optional(Plan[i])
    /\ pc = "start" => step = 1 /\ ~failedRun
    /\ pc = "run" => step = Len(Plan) + 1
    /\ pc \in {"setup", "run"} => HTTP \/ ~fallback
    /\ pc = "unwind" => signalled \/ failedRun
    /\ pc = "exited" => defers = <<>>
    /\ request \in [Requests -> {"none", "postgres", "redis", "kafka"}]
    /\ \A r \in Requests : request[r] # "none" => HTTP /\ pc \in {"run", "unwind"}

\* A process serves only with everything its configuration names connected; a
\* service does not degrade to less because a dependency was down when it
\* started, and a worker never runs on the fallback.
ServesComplete ==
    pc = "run" =>
        /\ \A i \in 1 .. Len(Plan) : Configured(Plan[i]) => Plan[i] \in open
        /\ \A i \in 1 .. Len(Plan) : Configured(Plan[i]) \/ Optional(Plan[i])
        /\ ~HTTP => ~fallback

\* On every path out of setup and of the run, all that was opened has been
\* closed when the process exits; only the Redis client whose first ping
\* failed has not.
ReleasedAtExit ==
    pc = "exited" =>
        open \subseteq (IF failedRun /\ step <= Len(Plan) THEN {"redis"} ELSE {})

\* What was opened later is closed before: the consumer before the store that
\* its handler writes to, everything before the tracer that records it.
ClosedInReverse ==
    [][\A i, j \in 1 .. Len(Plan) :
        (i < j /\ Plan[i] \in open \ open') =>
            Plan[j] \notin open' \/ (Plan[j] = "redis" /\ failedRun)]_vars

\* While the process has not been told to stop and its listener works, no
\* request meets a closed dependency or is cut off.
CutOnlyAtEnd == cut => signalled \/ failedRun

\* SIGTERM always ends the process, wherever it finds it.
EventuallyExits == signalled ~> pc = "exited"
=============================================================================
