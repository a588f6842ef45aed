-------------------------- MODULE LifecycleProofs --------------------------
(***************************************************************************)
(* Proofs about Lifecycle, for every set of services, every number of      *)
(* requests and of faults: a process serves only what is connected, and    *)
(* closes all that it opened in the reverse order.                         *)
(***************************************************************************)
EXTENDS Lifecycle, TLAPS

\* What the three plans have in common: nothing is opened twice, and an API
\* opens the three dependencies that a request calls.
LEMMA PlanFacts ==
  /\ Plan \in Seq(Resources) /\ Len(Plan) \in Nat
  /\ \A i, j \in 1 .. Len(Plan) : Plan[i] = Plan[j] => i = j
  /\ HTTP => \A x \in {"postgres", "kafka", "redis"} :
                \E i \in 1 .. Len(Plan) : Plan[i] = x
<1>1. CASE HTTP
  <2>1. Plan = <<"tracing", "postgres", "kafka", "redis", "clickhouse">>
    BY <1>1 DEF Plan, HTTP
  <2>2. Len(Plan) = 5 /\ 1 .. 5 = {1, 2, 3, 4, 5}
    BY <2>1
  <2>3. /\ Plan[1] = "tracing" /\ Plan[2] = "postgres" /\ Plan[3] = "kafka"
        /\ Plan[4] = "redis" /\ Plan[5] = "clickhouse"
    BY <2>1
  <2>4. \A i, j \in {1, 2, 3, 4, 5} : Plan[i] = Plan[j] => i = j
    BY <2>3
  <2>5. Plan \in Seq(Resources)
    <3>1. \A i \in 1 .. Len(Plan) : Plan[i] \in Resources
      BY <2>2, <2>3 DEF Resources, Dependencies
    <3> QED BY <2>1, <3>1
  <2>6. 2 \in 1 .. Len(Plan) /\ 3 \in 1 .. Len(Plan) /\ 4 \in 1 .. Len(Plan)
    BY <2>2
  <2> QED BY <2>2, <2>3, <2>4, <2>5, <2>6
<1>2. CASE ~HTTP
  <2>1. PICK y \in {"clickhouse", "postgres"} :
           Plan = <<"tracing", y, "consumer", "metrics">>
    BY <1>2 DEF Plan
  <2>2. Len(Plan) = 4 /\ 1 .. 4 = {1, 2, 3, 4}
    BY <2>1
  <2>3. Plan[1] = "tracing" /\ Plan[2] = y /\ Plan[3] = "consumer" /\ Plan[4] = "metrics"
    BY <2>1
  <2>4. \A i, j \in {1, 2, 3, 4} : Plan[i] = Plan[j] => i = j
    BY <2>3
  <2>5. Plan \in Seq(Resources)
    <3>1. \A i \in 1 .. Len(Plan) : Plan[i] \in Resources
      BY <2>2, <2>3 DEF Resources, Dependencies
    <3> QED BY <2>1, <3>1
  <2> QED BY <1>2, <2>2, <2>4, <2>5
<1> QED BY <1>1, <1>2

\* The configuration does not change while the process lives.
LEMMA SameConfig ==
  ASSUME UNCHANGED config
  PROVE  /\ Plan' = Plan /\ (HTTP' <=> HTTP)
         /\ \A x : Configured(x)' <=> Configured(x)
         /\ \A x : Optional(x)' <=> Optional(x)
         /\ \A x, n : Planned(x, n)' <=> Planned(x, n)
         /\ \A x, y : OpenedBefore(x, y)' <=> OpenedBefore(x, y)
<1>1. service' = service /\ configured' = configured /\ fallback' = fallback
  BY DEF config
<1>2. Plan' = Plan /\ (HTTP' <=> HTTP)
  BY <1>1 DEF Plan, HTTP
<1> QED BY <1>1, <1>2 DEF Configured, Optional, Planned, OpenedBefore

LEMMA InitInv == Init => LifecycleInv
<1> SUFFICES ASSUME Init PROVE LifecycleInv
  OBVIOUS
<1>1. 1 \in 1 .. Len(Plan) + 1
  BY PlanFacts
<1> QED BY <1>1 DEF Init, LifecycleInv

-----------------------------------------------------------------------------
\* The steps of setup put one more thing in front of the defers, or leave the
\* dependency out.
LEMMA OpenStep == LifecycleInv /\ Open => LifecycleInv'
<1> SUFFICES ASSUME LifecycleInv, Open PROVE LifecycleInv'
  OBVIOUS
<1>c. UNCHANGED config
  BY DEF Open
<1> DEFINE x == Plan[step]
<1>1. /\ step \in 1 .. Len(Plan) /\ Len(Plan) \in Nat /\ x \in Resources
      /\ defers \in Seq(Resources)
  BY PlanFacts DEF Open, LifecycleInv
<1>2. /\ defers' = <<x>> \o defers /\ step' = step + 1 /\ open' = open \cup {x}
      /\ pc = "setup" /\ pc' = "setup" /\ Configured(x)
  BY DEF Open
<1>3. /\ defers' \in Seq(Resources) /\ Len(defers') = Len(defers) + 1
      /\ defers'[1] = x
      /\ \A a \in 1 .. Len(defers') : a # 1 =>
            a - 1 \in 1 .. Len(defers) /\ defers'[a] = defers[a - 1]
  <2> HIDE DEF x
  <2> QED BY <1>1, <1>2
<1>4. \A a \in 1 .. Len(defers) : Planned(defers[a], step - 1)
  BY DEF LifecycleInv
<1>5. \A y : Planned(y, step - 1) => Planned(y, step) /\ OpenedBefore(y, x)
  BY <1>1 DEF Planned, OpenedBefore
<1>6. Planned(x, step)
  BY <1>1 DEF Planned
<1>7. \A a \in 1 .. Len(defers') : Planned(defers'[a], step' - 1)
  <2>1. step' - 1 = step
    BY <1>1, <1>2
  <2> QED BY <2>1, <1>3, <1>4, <1>5, <1>6
<1>8. \A a, b \in 1 .. Len(defers') : a < b => OpenedBefore(defers'[b], defers'[a])
  <2> SUFFICES ASSUME NEW a \in 1 .. Len(defers'), NEW b \in 1 .. Len(defers'), a < b
               PROVE  OpenedBefore(defers'[b], defers'[a])
    OBVIOUS
  <2>1. b # 1
    BY <1>1, <1>3
  <2>2. CASE a = 1
    BY <2>1, <2>2, <1>3, <1>4, <1>5
  <2>3. CASE a # 1
    <3>1. a - 1 < b - 1
      BY <1>1, <1>3
    <3> QED BY <2>1, <2>3, <3>1, <1>3 DEF LifecycleInv
  <2> QED BY <2>2, <2>3
<1>9. \A y \in open' : \E a \in 1 .. Len(defers') : defers'[a] = y
  <2> SUFFICES ASSUME NEW y \in open' PROVE \E a \in 1 .. Len(defers') : defers'[a] = y
    OBVIOUS
  <2>1. CASE y = x
    <3>1. 1 \in 1 .. Len(defers')
      BY <1>1, <1>3
    <3> QED BY <2>1, <3>1, <1>3
  <2>2. CASE y # x
    <3>1. PICK a \in 1 .. Len(defers) : defers[a] = y
      BY <1>2, <2>2 DEF LifecycleInv
    <3>2. a + 1 \in 1 .. Len(defers') /\ a + 1 # 1 /\ (a + 1) - 1 = a
      BY <1>1, <1>3
    <3> QED BY <1>3, <3>1, <3>2
  <2> QED BY <2>1, <2>2
<1>10. \A i \in 1 .. step' - 1 :
          IF Configured(Plan[i]) THEN Plan[i] \in open' ELSE Optional(Plan[i])
  <2> SUFFICES ASSUME NEW i \in 1 .. step' - 1
               PROVE IF Configured(Plan[i]) THEN Plan[i] \in open' ELSE Optional(Plan[i])
    OBVIOUS
  <2>1. i = step \/ i \in 1 .. step - 1
    BY <1>1, <1>2
  <2> QED BY <2>1, <1>2 DEF LifecycleInv
<1>11. step' \in 1 .. Len(Plan) + 1
  BY <1>1, <1>2
<1>12. /\ service' = service /\ fallback' = fallback /\ request' = request
       /\ failedRun' = failedRun /\ signalled' = signalled
  BY DEF Open, config, traffic
<1> HIDE DEF x
<1> QED BY <1>c, <1>2, <1>3, <1>7, <1>8, <1>9, <1>10, <1>11, <1>12, SameConfig
        DEF LifecycleInv

LEMMA SkipStep == LifecycleInv /\ Skip => LifecycleInv'
<1> SUFFICES ASSUME LifecycleInv, Skip PROVE LifecycleInv'
  OBVIOUS
<1>c. UNCHANGED config
  BY DEF Skip
<1>1. /\ step \in 1 .. Len(Plan) /\ Len(Plan) \in Nat /\ step' = step + 1
      /\ pc = "setup" /\ pc' = "setup" /\ open' = open /\ defers' = defers
      /\ ~Configured(Plan[step]) /\ Optional(Plan[step])
  BY PlanFacts DEF Skip, LifecycleInv, held
<1>2. \A y : Planned(y, step - 1) => Planned(y, step' - 1)
  BY <1>1 DEF Planned
<1>3. \A i \in 1 .. step' - 1 : i = step \/ i \in 1 .. step - 1
  BY <1>1
<1>4. \A i \in 1 .. step' - 1 :
          IF Configured(Plan[i]) THEN Plan[i] \in open' ELSE Optional(Plan[i])
  BY <1>1, <1>3 DEF LifecycleInv
<1>5. step' \in 1 .. Len(Plan) + 1
  BY <1>1
<1>6. /\ service' = service /\ fallback' = fallback /\ request' = request
      /\ failedRun' = failedRun /\ signalled' = signalled
  BY DEF Skip, config, traffic
<1> QED BY <1>c, <1>1, <1>2, <1>4, <1>5, <1>6, SameConfig DEF LifecycleInv

\* A step that touches neither the plan's progress nor the requests.
LEMMA ControlStep ==
  ASSUME LifecycleInv, Start \/ Missing \/ Run \/ Signal \/ ServerFails \/ Return
  PROVE  LifecycleInv'
<1>c. UNCHANGED config
  BY DEF Start, Missing, Run, Signal, ServerFails, Return
<1>1. /\ step' = step /\ open' = open /\ defers' = defers /\ request' = request
      /\ service' = service /\ fallback' = fallback /\ Len(Plan) \in Nat
  BY PlanFacts DEF Start, Missing, Run, Signal, ServerFails, Return, held, traffic, config
<1>2. CASE Start
  <2>1. pc = "start" /\ step = 1 /\ pc' \in {"setup", "unwind"}
        /\ (pc' = "unwind" => failedRun') /\ (pc' = "setup" => HTTP \/ ~fallback)
    BY <1>2 DEF Start, LifecycleInv
  <2> QED BY <1>c, <1>1, <2>1, SameConfig DEF LifecycleInv
<1>3. CASE Missing
  <2>1. pc = "setup" /\ pc' = "unwind" /\ failedRun'
    BY <1>3 DEF Missing
  <2> QED BY <1>c, <1>1, <2>1, SameConfig DEF LifecycleInv
<1>4. CASE Run
  <2>1. pc = "setup" /\ pc' = "run" /\ failedRun' = failedRun /\ step = Len(Plan) + 1
    BY <1>1, <1>4 DEF Run, LifecycleInv
  <2> QED BY <1>c, <1>1, <2>1, SameConfig DEF LifecycleInv
<1>5. CASE Signal
  <2>1. pc \in {"setup", "run"} /\ pc' = pc /\ failedRun' = failedRun
    BY <1>5 DEF Signal
  <2> QED BY <1>c, <1>1, <2>1, SameConfig DEF LifecycleInv
<1>6. CASE ServerFails
  <2>1. /\ pc = "run" /\ signalled' = signalled
        /\ pc' \in {"run", "unwind"}
        /\ pc' = "unwind" => failedRun'
    BY <1>6 DEF ServerFails
  <2> QED BY <1>c, <1>1, <2>1, SameConfig DEF LifecycleInv
<1>7. CASE Return
  <2>1. pc = "run" /\ pc' = "unwind" /\ signalled'
    BY <1>7 DEF Return
  <2> QED BY <1>c, <1>1, <2>1, SameConfig DEF LifecycleInv
<1> QED BY <1>2, <1>3, <1>4, <1>5, <1>6, <1>7

\* A failed ping leaves at most the Redis client behind.
LEMMA UnreachableStep == LifecycleInv /\ Unreachable => LifecycleInv'
<1> SUFFICES ASSUME LifecycleInv, Unreachable PROVE LifecycleInv'
  OBVIOUS
<1>c. UNCHANGED config
  BY DEF Unreachable
<1>1. /\ step' = step /\ defers' = defers /\ request' = request
      /\ service' = service /\ fallback' = fallback /\ failedRun'
      /\ pc = "setup" /\ pc' = "unwind" /\ step <= Len(Plan)
      /\ open' \subseteq open \cup {"redis"}
  BY DEF Unreachable, traffic, config
<1> QED BY <1>c, <1>1, SameConfig DEF LifecycleInv

\* Close takes the first of the defers, which is in it once.
LEMMA CloseStep == LifecycleInv /\ Close => LifecycleInv'
<1> SUFFICES ASSUME LifecycleInv, Close PROVE LifecycleInv'
  OBVIOUS
<1>c. UNCHANGED config
  BY DEF Close
<1>1. /\ step' = step /\ request' = request /\ failedRun' = failedRun
      /\ service' = service /\ fallback' = fallback /\ signalled' = signalled
      /\ pc = "unwind" /\ pc' = "unwind"
      /\ open' = open \ {Head(defers)} /\ defers' = Tail(defers)
      /\ defers \in Seq(Resources) /\ defers # <<>>
  BY DEF Close, LifecycleInv, traffic, config
<1>2. /\ defers' \in Seq(Resources) /\ Len(defers') = Len(defers) - 1
      /\ Len(defers) \in Nat \ {0} /\ Head(defers) = defers[1]
      /\ \A a \in 1 .. Len(defers') :
            a + 1 \in 1 .. Len(defers) /\ defers'[a] = defers[a + 1]
  BY <1>1
<1>3. \A a \in 1 .. Len(defers') : Planned(defers'[a], step - 1)
  BY <1>2 DEF LifecycleInv
<1>4. \A a, b \in 1 .. Len(defers') : a < b => OpenedBefore(defers'[b], defers'[a])
  <2> SUFFICES ASSUME NEW a \in 1 .. Len(defers'), NEW b \in 1 .. Len(defers'), a < b
               PROVE  OpenedBefore(defers'[b], defers'[a])
    OBVIOUS
  <2>1. a + 1 < b + 1
    BY <1>2
  <2>2. OpenedBefore(defers[b + 1], defers[a + 1])
    BY <1>2, <2>1 DEF LifecycleInv
  <2> QED BY <1>2, <2>2
<1>5. ASSUME NEW y \in open'
      PROVE  \/ \E a \in 1 .. Len(defers') : defers'[a] = y
             \/ y = "redis" /\ failedRun /\ step <= Len(Plan)
  <2>1. y \in open /\ y # defers[1]
    BY <1>1, <1>2, <1>5
  <2>2. CASE y = "redis" /\ failedRun /\ step <= Len(Plan)
    BY <2>2
  <2>3. CASE \E a \in 1 .. Len(defers) : defers[a] = y
    <3>1. PICK a \in 1 .. Len(defers) : defers[a] = y
      BY <2>3
    <3>2. a # 1
      BY <2>1, <3>1
    <3>3. a - 1 \in 1 .. Len(defers') /\ (a - 1) + 1 = a
      BY <1>2, <3>2
    <3> QED BY <1>2, <3>1, <3>3
  <2> QED BY <2>1, <2>2, <2>3 DEF LifecycleInv
<1> QED BY <1>c, <1>1, <1>2, <1>3, <1>4, <1>5, SameConfig DEF LifecycleInv

LEMMA ExitStep == LifecycleInv /\ Exit => LifecycleInv'
<1> SUFFICES ASSUME LifecycleInv, Exit PROVE LifecycleInv'
  OBVIOUS
<1>c. UNCHANGED config
  BY DEF Exit
<1>1. /\ step' = step /\ open' = open /\ defers' = defers /\ defers = <<>>
      /\ service' = service /\ fallback' = fallback /\ failedRun' = failedRun
      /\ pc = "unwind" /\ pc' = "exited"
      /\ request' = [r \in Requests |-> "none"]
  BY DEF Exit, held, config
<1> QED BY <1>c, <1>1, SameConfig DEF LifecycleInv

LEMMA TrafficStep ==
  ASSUME LifecycleInv, NEW r \in Requests, Arrive(r) \/ Call(r)
  PROVE  LifecycleInv'
<1>c. UNCHANGED config
  BY DEF Arrive, Call
<1>1. /\ step' = step /\ open' = open /\ defers' = defers /\ signalled' = signalled
      /\ service' = service /\ fallback' = fallback /\ failedRun' = failedRun
      /\ pc' = pc
  BY DEF Arrive, Call, held, config
<1>2. /\ request \in [Requests -> {"none", "postgres", "redis", "kafka"}]
      /\ \A q \in Requests : request[q] # "none" => HTTP /\ pc \in {"run", "unwind"}
  BY DEF LifecycleInv
<1>3. PICK y \in {"none", "postgres", "redis", "kafka"} :
         request' = [request EXCEPT ![r] = y]
  BY <1>2 DEF Arrive, Call
<1>4. HTTP /\ pc \in {"run", "unwind"}
  BY <1>2 DEF Arrive, Call
<1>5. /\ request' \in [Requests -> {"none", "postgres", "redis", "kafka"}]
      /\ \A q \in Requests : request'[q] # "none" => HTTP /\ pc \in {"run", "unwind"}
  BY <1>2, <1>3, <1>4
<1> QED BY <1>c, <1>1, <1>5, SameConfig DEF LifecycleInv

LEMMA NextInv == LifecycleInv /\ [Next]_vars => LifecycleInv'
<1> SUFFICES ASSUME LifecycleInv, [Next]_vars PROVE LifecycleInv'
  OBVIOUS
<1>1. CASE UNCHANGED vars
  <2>1. /\ UNCHANGED config /\ step' = step /\ open' = open /\ defers' = defers
        /\ signalled' = signalled /\ failedRun' = failedRun /\ pc' = pc
        /\ request' = request /\ service' = service /\ fallback' = fallback
    BY <1>1 DEF vars, held, traffic, config
  <2> QED BY <2>1, SameConfig DEF LifecycleInv
<1>2. CASE Next
  BY <1>2, OpenStep, SkipStep, ControlStep, UnreachableStep, CloseStep, ExitStep,
     TrafficStep DEF Next, Advance
<1> QED BY <1>1, <1>2

-----------------------------------------------------------------------------
\* The defers account for what is open at every moment of a process's life.
THEOREM LifecycleInvariant == Spec => []LifecycleInv
<1> QED BY InitInv, NextInv, PTL DEF Spec

\* setup and RunWorker return an error before they serve half connected.
THEOREM NeverHalfConnected == Spec => []ServesComplete
<1>1. LifecycleInv => ServesComplete
  <2> SUFFICES ASSUME LifecycleInv, pc = "run" PROVE ServesComplete
    BY DEF ServesComplete
  <2>1. step - 1 = Len(Plan)
    BY PlanFacts DEF LifecycleInv
  <2> QED BY <2>1 DEF LifecycleInv, ServesComplete
<1> QED BY <1>1, LifecycleInvariant, PTL

\* Every path out of the process runs all the defers.
THEOREM ReleasesAtExit == Spec => []ReleasedAtExit
<1>1. LifecycleInv => ReleasedAtExit
  <2> SUFFICES ASSUME LifecycleInv, pc = "exited", NEW x \in open
               PROVE  x = "redis" /\ failedRun /\ step <= Len(Plan)
    BY DEF ReleasedAtExit
  <2>1. ~\E a \in 1 .. Len(defers) : defers[a] = x
    BY DEF LifecycleInv
  <2> QED BY <2>1 DEF LifecycleInv
<1> QED BY <1>1, LifecycleInvariant, PTL

\* A request that is cut off was cut off by the shutdown.
THEOREM CutsOnlyAtEnd == Spec => []CutOnlyAtEnd
<1> DEFINE I == CutOnlyAtEnd /\ (pc = "start" => ~cut)
<1>1. Init => I
  BY DEF Init, CutOnlyAtEnd
<1>2. LifecycleInv /\ I /\ [Next]_vars => I'
  <2> SUFFICES ASSUME LifecycleInv, I, [Next]_vars PROVE I'
    OBVIOUS
  <2>1. CASE Exit
    BY <2>1 DEF Exit, LifecycleInv, CutOnlyAtEnd
  <2>2. ASSUME NEW r \in Requests, Call(r) PROVE I'
    <3>1. PICK x : x = request[r] /\ x \in {"postgres", "redis", "kafka"} /\ HTTP
                   /\ pc \in {"run", "unwind"}
      BY <2>2 DEF Call, LifecycleInv
    <3>2. CASE pc = "unwind"
      BY <2>2, <3>2 DEF Call, LifecycleInv, CutOnlyAtEnd
    <3>3. CASE pc = "run"
      <4>1. PICK i \in 1 .. Len(Plan) : Plan[i] = x
        BY <3>1, PlanFacts
      <4>2. i \in 1 .. step - 1
        BY <3>3, PlanFacts DEF LifecycleInv
      <4>3. x \in configured => x \in open
        BY <3>3, <4>1, <4>2 DEF LifecycleInv, Configured
      <4>4. (cut' => cut) /\ pc' = pc /\ signalled' = signalled /\ failedRun' = failedRun
        BY <2>2, <3>1, <4>3 DEF Call
      <4> QED BY <4>4 DEF CutOnlyAtEnd
    <3> QED BY <3>1, <3>2, <3>3
  <2>3. CASE Start
    BY <2>3 DEF Start, traffic, CutOnlyAtEnd
  <2>4. CASE Return
    BY <2>4 DEF Return, traffic, CutOnlyAtEnd
  <2>5. CASE Open \/ Skip \/ Missing \/ Run \/ Close \/ Unreachable \/ Signal
             \/ ServerFails \/ (\E r \in Requests : Arrive(r)) \/ UNCHANGED vars
    <3>1. cut' = cut /\ (pc' = "start" => pc = "start")
          /\ (signalled => signalled') /\ (failedRun => failedRun')
      BY <2>5 DEF Open, Skip, Missing, Run, Close, Unreachable, Signal,
         ServerFails, Arrive, vars, traffic
    <3> QED BY <3>1 DEF CutOnlyAtEnd
  <2> QED BY <2>1, <2>2, <2>3, <2>4, <2>5 DEF Next, Advance
<1>3. I => CutOnlyAtEnd
  OBVIOUS
<1> HIDE DEF I
<1> QED BY <1>1, <1>2, <1>3, LifecycleInvariant, PTL DEF Spec

\* d.close and the defers: no step closes something that was opened earlier
\* while something opened later is still open.
THEOREM ClosesInReverse == Spec => ClosedInReverse
<1> DEFINE A == \A i, j \in 1 .. Len(Plan) :
                  (i < j /\ Plan[i] \in open \ open') =>
                      Plan[j] \notin open' \/ (Plan[j] = "redis" /\ failedRun)
<1>1. LifecycleInv /\ [Next]_vars => [A]_vars
  <2> SUFFICES ASSUME LifecycleInv, [Next]_vars,
                      NEW i \in 1 .. Len(Plan), NEW j \in 1 .. Len(Plan), i < j,
                      Plan[i] \in open, Plan[i] \notin open', Plan[j] \in open'
               PROVE  Plan[j] = "redis" /\ failedRun
    OBVIOUS
  <2>1. Close
    BY DEF Next, Advance, Start, Open, Skip, Missing, Run, Return, Exit,
       Unreachable, Signal, ServerFails, Arrive, Call, vars, held
  <2>2. /\ defers \in Seq(Resources) /\ defers # <<>> /\ Len(defers) \in Nat \ {0}
        /\ Plan[i] = defers[1] /\ Plan[j] \in open /\ Plan[j] # defers[1]
    BY <2>1 DEF Close, LifecycleInv
  <2>3. ASSUME NEW a \in 1 .. Len(defers), defers[a] = Plan[j] PROVE FALSE
    <3>1. 1 \in 1 .. Len(defers) /\ 1 < a
      BY <2>2, <2>3
    <3>2. OpenedBefore(Plan[j], Plan[i])
      BY <2>2, <2>3, <3>1 DEF LifecycleInv
    <3>3. PICK k \in 1 .. Len(Plan), l \in 1 .. Len(Plan) :
             k < l /\ Plan[k] = Plan[j] /\ Plan[l] = Plan[i]
      BY <3>2 DEF OpenedBefore
    <3>4. k = j /\ l = i
      BY <3>3, PlanFacts
    <3> QED BY <3>3, <3>4, PlanFacts
  <2> QED BY <2>2, <2>3 DEF LifecycleInv
<1>2. ClosedInReverse <=> [][A]_vars
  BY DEF ClosedInReverse
<1> HIDE DEF A
<1> QED BY <1>1, <1>2, LifecycleInvariant, PTL DEF Spec
=============================================================================
