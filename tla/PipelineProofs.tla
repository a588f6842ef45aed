--------------------------- MODULE PipelineProofs ---------------------------
(***************************************************************************)
(* The event path from the client to the stores, for any programs of the   *)
(* client, any number of requests and workers, any batch size and any      *)
(* bounds on the faults.  The inductive invariant is PipelineInv.          *)
(***************************************************************************)
EXTENDS Pipeline, TLAPS, WellFoundedInduction

(* Facts about sequences and their elements. *)

\* The elements of a sequence over S are in S.
LEMMA ElementsType ==
  ASSUME NEW S, NEW s \in Seq(S)
  PROVE  Elements(s) \subseteq S
BY DEF Elements

\* Appending adds one element.
LEMMA ElementsAppend ==
  ASSUME NEW S, NEW s \in Seq(S), NEW e \in S
  PROVE  /\ Append(s, e) \in Seq(S)
         /\ Elements(Append(s, e)) = Elements(s) \cup {e}
<1> DEFINE a == Append(s, e)
<1>1. /\ a \in Seq(S) /\ Len(a) = Len(s) + 1 /\ Len(s) \in Nat
      /\ \A i \in 1 .. Len(s) : a[i] = s[i]
      /\ a[Len(s) + 1] = e
  OBVIOUS
<1> HIDE DEF a
<1>2. Elements(a) \subseteq Elements(s) \cup {e}
  BY <1>1 DEF Elements
<1>3. Elements(s) \subseteq Elements(a)
  <2> SUFFICES ASSUME NEW i \in 1 .. Len(s) PROVE s[i] \in Elements(a)
    BY DEF Elements
  <2>1. i \in 1 .. Len(a) /\ a[i] = s[i]
    BY <1>1
  <2> QED BY <2>1 DEF Elements
<1>4. e \in Elements(a)
  <2>1. Len(s) + 1 \in 1 .. Len(a)
    BY <1>1
  <2> QED BY <1>1, <2>1 DEF Elements
<1> QED BY <1>1, <1>2, <1>3, <1>4 DEF a

\* The head and the elements of the tail are the elements.
LEMMA ElementsTail ==
  ASSUME NEW S, NEW s \in Seq(S), s # <<>>
  PROVE  /\ Tail(s) \in Seq(S) /\ Head(s) \in S
         /\ Elements(s) = {Head(s)} \cup Elements(Tail(s))
<1>1. /\ Tail(s) \in Seq(S) /\ Head(s) \in S /\ Head(s) = s[1]
      /\ Len(s) \in Nat \ {0} /\ Len(Tail(s)) = Len(s) - 1
      /\ \A i \in 1 .. Len(s) - 1 : Tail(s)[i] = s[i + 1]
  OBVIOUS
<1>2. Elements(Tail(s)) \subseteq Elements(s)
  <2> SUFFICES ASSUME NEW i \in 1 .. Len(s) - 1 PROVE s[i + 1] \in Elements(s)
    BY <1>1 DEF Elements
  <2>1. i + 1 \in 1 .. Len(s)
    BY <1>1
  <2> QED BY <2>1 DEF Elements
<1>3. Head(s) \in Elements(s)
  <2>1. 1 \in 1 .. Len(s)
    BY <1>1
  <2> QED BY <1>1, <2>1 DEF Elements
<1>4. Elements(s) \subseteq {Head(s)} \cup Elements(Tail(s))
  <2> SUFFICES ASSUME NEW i \in 1 .. Len(s), i # 1
               PROVE  s[i] \in Elements(Tail(s))
    BY <1>1 DEF Elements
  <2>1. i - 1 \in 1 .. Len(Tail(s)) /\ Tail(s)[i - 1] = s[i]
    BY <1>1
  <2> QED BY <2>1, Zenon DEF Elements
<1> QED BY <1>1, <1>2, <1>3, <1>4

\* Concatenation joins the elements.
LEMMA ElementsConcat ==
  ASSUME NEW S, NEW s \in Seq(S), NEW u \in Seq(S)
  PROVE  /\ s \o u \in Seq(S)
         /\ Elements(s \o u) = Elements(s) \cup Elements(u)
<1> DEFINE c == s \o u
<1>1. /\ c \in Seq(S) /\ Len(c) = Len(s) + Len(u) /\ Len(s) \in Nat /\ Len(u) \in Nat
      /\ \A i \in 1 .. Len(s) : c[i] = s[i]
      /\ \A i \in 1 .. Len(u) : c[Len(s) + i] = u[i]
  OBVIOUS
<1> HIDE DEF c
<1>2. ASSUME NEW i \in 1 .. Len(s) PROVE s[i] \in Elements(c)
  <2>1. i \in 1 .. Len(c) /\ c[i] = s[i]
    BY <1>1
  <2> QED BY <2>1 DEF Elements
<1>3. ASSUME NEW i \in 1 .. Len(u) PROVE u[i] \in Elements(c)
  <2>1. Len(s) + i \in 1 .. Len(c) /\ c[Len(s) + i] = u[i]
    BY <1>1
  <2> QED BY <2>1 DEF Elements
<1>4. ASSUME NEW i \in 1 .. Len(c) PROVE c[i] \in Elements(s) \cup Elements(u)
  <2>1. CASE i <= Len(s)
    <3>1. i \in 1 .. Len(s)
      BY <1>1, <2>1
    <3> QED BY <1>1, <3>1, Zenon DEF Elements
  <2>2. CASE i > Len(s)
    <3>1. i - Len(s) \in 1 .. Len(u) /\ Len(s) + (i - Len(s)) = i
      BY <1>1, <2>2
    <3>2. c[Len(s) + (i - Len(s))] = u[i - Len(s)]
      BY <1>1, <3>1
    <3> QED BY <3>1, <3>2 DEF Elements
  <2> QED BY <1>1, <2>1, <2>2
<1>5. Elements(c) = Elements(s) \cup Elements(u)
  BY <1>2, <1>3, <1>4, Zenon DEF Elements
<1> QED BY <1>1, <1>5 DEF c

\* A prefix has no other elements.
LEMMA ElementsPrefix ==
  ASSUME NEW S, NEW s \in Seq(S), NEW n \in 0 .. Len(s)
  PROVE  /\ SubSeq(s, 1, n) \in Seq(S)
         /\ Elements(SubSeq(s, 1, n)) \subseteq Elements(s)
<1>1. /\ SubSeq(s, 1, n) \in Seq(S) /\ Len(SubSeq(s, 1, n)) = n
      /\ \A i \in 1 .. n : SubSeq(s, 1, n)[i] = s[i]
      /\ Len(s) \in Nat
  OBVIOUS
<1>2. \A i \in 1 .. n : i \in 1 .. Len(s)
  BY <1>1
<1> QED BY <1>1, <1>2 DEF Elements

-----------------------------------------------------------------------------
(* Ingestion. *)

\* The client's program is a sequence of batches.
LEMMA ProgramType ==
  ASSUME IngestTypeOK
  PROVE  /\ program \in Seq(Seq(Events)) /\ Len(program) \in Nat
         /\ \A t \in 1 .. Len(program) : program[t] \in Seq(Events)
BY ProgramsAssumption DEF IngestTypeOK

\* Nothing was sent at the start.
LEMMA IngestInit == Init => IngestInv
<1> SUFFICES ASSUME Init PROVE IngestInv
  OBVIOUS
<1>1. IngestTypeOK
  <2>1. program \in Seq(Seq(Events)) /\ Len(program) \in Nat
    BY ProgramsAssumption DEF Init
  <2> QED BY <2>1 DEF Init, IngestTypeOK
<1>2. Elements(<<>>) = {}
  BY DEF Elements
<1>3. \A r \in Requests : RequestSafe(r)
  BY <1>2, RequestsAssumption DEF Init, RequestSafe
<1>4. AcceptedDurable /\ RejectedInvisible /\ InOrder
  BY <1>2 DEF Init, AcceptedDurable, RejectedInvisible, InOrder
<1> QED BY <1>1, <1>3, <1>4 DEF IngestInv, Init

\* The order depends on the log and the program alone.
LEMMA OrderKept ==
  ASSUME InOrder, program' = program, log' = log
  PROVE  InOrder'
<1> DEFINE Sent(u, j) == \E s \in 1 .. u - 1 : log[j] \in Elements(program[s])
           Before(u, j) == log[j] \in Elements(program[u]) =>
             \A t \in 1 .. u - 1 : Decodes(t) =>
                \A e \in Elements(program[t]) : \E i \in 1 .. j : log[i] = e
<1>1. \A u \in 1 .. Len(program), j \in 1 .. Len(log) : Sent(u, j) \/ Before(u, j)
  BY Zenon DEF InOrder
<1>2. \A t : Decodes(t)' <=> Decodes(t)
  BY DEF Decodes
<1>3. \A u, j : (Sent(u, j)' <=> Sent(u, j)) /\ (Before(u, j)' <=> Before(u, j))
  BY <1>2
<1>4. \A u \in 1 .. Len(program'), j \in 1 .. Len(log') :
         Sent(u, j)' \/ Before(u, j)'
  <2> HIDE DEF Sent, Before
  <2> QED BY <1>1, <1>3
<1> QED BY <1>4, Zenon DEF InOrder

\* What a request has still to send may be appended to the log.
LEMMA LogGrows ==
  ASSUME IngestInv, NEW r \in Requests, program' = program,
         \/ log' = log
         \/ unsent[r] # <<>> /\ log' = Append(log, Head(unsent[r]))
  PROVE  /\ log' \in Seq(Events) /\ Elements(log) \subseteq Elements(log')
         /\ unsent[r] # <<>> /\ log' # log => Head(unsent[r]) \in Elements(log')
         /\ RejectedInvisible' /\ InOrder'
<1> USE DEF IngestInv
<1>t. log \in Seq(Events) /\ Len(log) \in Nat /\ unsent[r] \in Seq(Events)
  BY DEF IngestTypeOK
<1>1. CASE log' = log
  BY <1>1, <1>t DEF RejectedInvisible, InOrder, Decodes
<1>2. CASE unsent[r] # <<>> /\ log' = Append(log, Head(unsent[r]))
  <2> DEFINE e == Head(unsent[r])
  <2>1. e \in Events /\ e \in Elements(unsent[r])
    BY <1>2, <1>t, ElementsTail
  <2>2. PICK v \in 1 .. Len(program) :
          v <= turn /\ Decodes(v) /\ e \in Elements(program[v])
    BY <2>1, Zenon DEF RequestSafe
  <2> HIDE DEF e
  <2>3. log' \in Seq(Events) /\ Elements(log') = Elements(log) \cup {e}
    BY <1>2, <1>t, <2>1, ElementsAppend DEF e
  <2>4. /\ Len(log') = Len(log) + 1 /\ log'[Len(log) + 1] = e
        /\ \A i \in 1 .. Len(log) : log'[i] = log[i]
    BY <1>2, <1>t, <2>1 DEF e
  <2>5. RejectedInvisible'
    BY <2>2, <2>3 DEF RejectedInvisible, Decodes
  <2>6. InOrder'
    <3> SUFFICES ASSUME NEW u \in 1 .. Len(program'), NEW j \in 1 .. Len(log')
                 PROVE  \/ \E s \in 1 .. u - 1 : log'[j] \in Elements(program'[s])
                        \/ log'[j] \in Elements(program'[u]) =>
                             \A t \in 1 .. u - 1 : Decodes(t)' =>
                               \A x \in Elements(program'[t]) :
                                 \E i \in 1 .. j : log'[i] = x
      BY Zenon DEF InOrder
    <3> SUFFICES ASSUME ~\E s \in 1 .. u - 1 : log'[j] \in Elements(program[s]),
                        log'[j] \in Elements(program[u]),
                        NEW t \in 1 .. u - 1, Decodes(t),
                        NEW x \in Elements(program[t])
                 PROVE  \E i \in 1 .. j : log'[i] = x
      BY DEF Decodes
    <3>1. CASE j \in 1 .. Len(log)
      <4>0. u \in 1 .. Len(program) /\ log'[j] = log[j]
        BY <2>4, <3>1
      <4>a. /\ ~\E s \in 1 .. u - 1 : log[j] \in Elements(program[s])
            /\ log[j] \in Elements(program[u])
        BY <4>0
      <4>b. InOrder
        OBVIOUS
      <4>c. \/ \E s \in 1 .. u - 1 : log[j] \in Elements(program[s])
            \/ log[j] \in Elements(program[u]) =>
                 \A y \in 1 .. u - 1 : Decodes(y) =>
                   \A z \in Elements(program[y]) : \E i \in 1 .. j : log[i] = z
        BY <3>1, <4>0, <4>b, Zenon DEF InOrder
      <4>1. PICK i \in 1 .. j : log[i] = x
        BY <4>a, <4>c, Zenon
      <4>2. i \in 1 .. Len(log)
        BY <1>t, <3>1, <4>1
      <4> QED BY <2>4, <4>1, <4>2
    <3>2. CASE j = Len(log) + 1
      <4>1. Len(program) \in Nat /\ turn \in Nat
        BY ProgramType DEF IngestTypeOK
      <4>2. v >= u
        BY <2>2, <2>4, <3>2, <4>1
      <4>3. t \in 1 .. turn - 1
        BY <2>2, <4>1, <4>2
      <4>4. x \in Elements(log)
        BY <4>3
      <4>5. PICK i \in 1 .. Len(log) : log[i] = x
        BY <4>4 DEF Elements
      <4>6. i \in 1 .. j /\ log'[i] = x
        BY <1>t, <2>4, <3>2, <4>5
      <4> QED BY <4>6
    <3>3. j \in 1 .. Len(log) \/ j = Len(log) + 1
      BY <1>t, <2>4
    <3> QED BY <3>1, <3>2, <3>3
  <2> QED BY <2>3, <2>5, <2>6 DEF e
<1> QED BY <1>1, <1>2

\* A request that a step does not touch stays safe while the log grows.
LEMMA OtherRequest ==
  ASSUME IngestInv, NEW q \in Requests, program' = program,
         phase'[q] = phase[q], batch'[q] = batch[q],
         unsent'[q] = unsent[q], writeErr'[q] = writeErr[q],
         Elements(log) \subseteq Elements(log'),
         turn' \in Nat, turn <= turn',
         waiting' = q => waiting = q /\ turn' = turn
  PROVE  RequestSafe(q)'
<1>t. turn \in Nat /\ batch[q] \in Nat /\ Len(program) \in Nat
  BY ProgramType DEF IngestInv, IngestTypeOK
<1>1. RequestSafe(q)
  BY Zenon DEF IngestInv
<1>2. /\ waiting' = q => phase'[q] # "free" /\ batch'[q] = turn'
      /\ phase'[q] # "free" => batch'[q] \in 1 .. Len(program') /\ batch'[q] <= turn'
  BY <1>t, <1>1 DEF RequestSafe
<1>3. \A t : Decodes(t)' <=> Decodes(t)
  BY DEF Decodes
<1>4. phase'[q] \in {"limit", "publish"} => Decodes(batch[q])'
  BY <1>1, <1>3, Zenon DEF RequestSafe, Decodes
<1>5. \A e \in Elements(unsent'[q]) : \E t \in 1 .. Len(program') :
         t <= turn' /\ Decodes(t)' /\ e \in Elements(program'[t])
  <2> TAKE e \in Elements(unsent'[q])
  <2>1. PICK t \in 1 .. Len(program) :
          t <= turn /\ Decodes(t) /\ e \in Elements(program[t])
    BY <1>1, Zenon DEF RequestSafe
  <2>2. t <= turn'
    BY <1>t, <2>1
  <2> QED BY <1>3, <2>1, <2>2
<1>6. phase'[q] = "publish" /\ ~writeErr'[q] =>
        Elements(program'[batch'[q]]) \subseteq Elements(log') \cup Elements(unsent'[q])
  BY <1>1 DEF RequestSafe
<1> QED BY <1>2, <1>4, <1>5, <1>6, Zenon DEF RequestSafe, Decodes

\* The statuses of an answer differ.
LEMMA Statuses ==
  /\ 202 \in Nat /\ 202 # 400 /\ 503 \in Nat /\ 503 # 202 /\ 503 # 400
  /\ 401 \in Nat /\ 401 # 202 /\ 401 # 400
  OBVIOUS

\* The turns before turn n.
LEMMA BelowTurn == \A n \in Nat : \A t \in 1 .. n - 1 : t \in Nat /\ 1 <= t /\ t < n
  OBVIOUS

\* ingestBatch returns: with 202 only what is in the log, with 400 only a batch
\* that does not decode.
LEMMA AnswerStep ==
  ASSUME IngestInv, NEW r \in Requests, NEW status \in Nat, phase[r] # "free",
         Answer(r, status), unsent' = unsent, log' = log, faults' \in Nat,
         status = 202 => Elements(program[batch[r]]) \subseteq Elements(log),
         status = 400 => ~Decodes(batch[r])
  PROVE  IngestInv'
<1> USE DEF IngestInv
<1>t. /\ turn \in Nat /\ turn <= Len(program) + 1 /\ Len(program) \in Nat
      /\ batch[r] \in 1 .. Len(program) /\ batch[r] <= turn
      /\ waiting = r => batch[r] = turn
  BY ProgramType DEF IngestTypeOK, RequestSafe
<1>p. program' = program
  BY DEF Answer
<1>u. /\ turn' \in Nat /\ turn <= turn' /\ turn' \in 1 .. Len(program) + 1
      /\ turn' # turn => /\ waiting = r /\ turn' = turn + 1 /\ batch[r] = turn
                         /\ status \in {202, 400}
  BY <1>t DEF Answer, IngestTypeOK
<1>1. IngestTypeOK'
  <2>1. phase' \in [Requests -> {"free", "decode", "limit", "publish"}]
    BY DEF Answer, IngestTypeOK
  <2>2. batch' \in [Requests -> Nat] /\ writeErr' \in [Requests -> BOOLEAN]
    BY DEF Answer, IngestTypeOK
  <2>3. accepted' \subseteq Nat
    <3>1. accepted \subseteq Nat /\ batch[r] \in Nat
      BY <1>t DEF IngestTypeOK
    <3>2. accepted' = accepted \/ accepted' = accepted \cup {batch[r]}
      BY DEF Answer
    <3> QED BY <3>1, <3>2
  <2>4. waiting' \in Requests \cup {NoRequest}
    BY DEF Answer, IngestTypeOK
  <2> QED BY <1>p, <1>u, <2>1, <2>2, <2>3, <2>4, Zenon DEF IngestTypeOK
<1>2. ASSUME NEW q \in Requests PROVE RequestSafe(q)'
  <2>1. CASE q # r
    <3>1. /\ phase'[q] = phase[q] /\ batch'[q] = batch[q]
          /\ unsent'[q] = unsent[q] /\ writeErr'[q] = writeErr[q]
          /\ waiting' = q => waiting = q /\ turn' = turn
      BY <2>1, RequestsAssumption, <1>u DEF Answer, IngestTypeOK
    <3> QED BY <1>p, <1>u, <3>1, OtherRequest, Zenon
  <2>2. CASE q = r
    <3>1. phase'[r] = "free" /\ waiting' # r
      BY RequestsAssumption, Zenon DEF Answer, IngestTypeOK
    <3>2. \A e \in Elements(unsent'[r]) : \E t \in 1 .. Len(program') :
            t <= turn' /\ Decodes(t)' /\ e \in Elements(program'[t])
      <4> TAKE e \in Elements(unsent'[r])
      <4>1. PICK t \in 1 .. Len(program) :
              t <= turn /\ Decodes(t) /\ e \in Elements(program[t])
        BY Zenon DEF RequestSafe
      <4>2. t <= turn'
        BY <1>t, <1>u, <4>1
      <4> QED BY <1>p, <4>1, <4>2 DEF Decodes
    <3> QED BY <2>2, <3>1, <3>2 DEF RequestSafe
  <2> QED BY <2>1, <2>2, Zenon
<1>3. ASSUME NEW t \in Nat, 1 <= t, t < turn', Decodes(t)
      PROVE  Elements(program[t]) \subseteq Elements(log)
  <2>1. CASE t < turn
    BY <1>3, <1>t, <2>1
  <2>2. CASE t >= turn
    <3>1. t = turn /\ turn' # turn
      BY <1>3, <1>t, <1>u, <2>2
    <3>2. status = 202 /\ batch[r] = t
      BY <1>3, <1>u, <3>1
    <3> QED BY <3>2, Zenon
  <2> QED BY <1>t, <2>1, <2>2
<1>6. \A t \in 1 .. turn' - 1 :
         Decodes(t)' => Elements(program'[t]) \subseteq Elements(log')
  <2>0. turn' \in Nat
    BY <1>u, Zenon
  <2>1. \A t \in 1 .. turn' - 1 : t \in Nat /\ 1 <= t /\ t < turn'
    BY <2>0, BelowTurn, Zenon
  <2>2. \A t : Decodes(t)' <=> Decodes(t)
    BY <1>p DEF Decodes
  <2>3. \A t \in Nat : 1 <= t /\ t < turn' /\ Decodes(t) =>
           Elements(program[t]) \subseteq Elements(log)
    BY <1>3
  <2> QED BY <1>p, <2>1, <2>2, <2>3, Zenon
<1>4. AcceptedDurable'
  BY <1>p, <1>t DEF Answer, AcceptedDurable
<1>5. RejectedInvisible' /\ InOrder'
  BY <1>p, LogGrows, Zenon
<1> QED BY <1>1, <1>2, <1>4, <1>5, <1>6, Zenon

\* A step that leaves the client's turn and the accepted batches alone.
LEMMA QuietStep ==
  ASSUME IngestInv, NEW r \in Requests, IngestTypeOK', program' = program,
         turn' = turn, accepted' = accepted, waiting' \in {waiting, NoRequest, r},
         \/ log' = log
         \/ unsent[r] # <<>> /\ log' = Append(log, Head(unsent[r])),
         RequestSafe(r)',
         \A q \in Requests \ {r} :
            /\ phase'[q] = phase[q] /\ batch'[q] = batch[q]
            /\ unsent'[q] = unsent[q] /\ writeErr'[q] = writeErr[q]
  PROVE  IngestInv'
<1>1. Elements(log) \subseteq Elements(log') /\ RejectedInvisible' /\ InOrder'
  BY LogGrows
<1>2. ASSUME NEW q \in Requests PROVE RequestSafe(q)'
  <2>1. CASE q # r
    <3>1. turn \in Nat /\ turn <= turn
      BY DEF IngestInv, IngestTypeOK
    <3>2. waiting' = q => waiting = q
      BY <2>1, RequestsAssumption
    <3> QED BY <1>1, <2>1, <3>1, <3>2, OtherRequest
  <2> QED BY <2>1, Zenon
<1>3. \A t \in 1 .. turn' - 1 :
         Decodes(t)' => Elements(program'[t]) \subseteq Elements(log')
  BY <1>1 DEF IngestInv, Decodes
<1>4. AcceptedDurable'
  BY <1>1 DEF IngestInv, AcceptedDurable
<1> QED BY <1>1, <1>2, <1>3, <1>4, Zenon DEF IngestInv

\* The steps of one request.
LEMMA RequestStep ==
  ASSUME IngestInv, NEW r \in Requests, Serve(r) \/ Fail(r)
  PROVE  IngestInv'
<1> DEFINE Quiet == \A q \in Requests \ {r} :
                       /\ phase'[q] = phase[q] /\ batch'[q] = batch[q]
                       /\ unsent'[q] = unsent[q] /\ writeErr'[q] = writeErr[q]
<1>i. IngestTypeOK /\ RequestSafe(r)
  BY DEF IngestInv
<1>t. /\ turn \in Nat /\ Len(program) \in Nat /\ program \in Seq(Seq(Events))
      /\ \A t \in 1 .. Len(program) : program[t] \in Seq(Events)
      /\ batch[r] \in Nat /\ unsent[r] \in Seq(Events) /\ log \in Seq(Events)
      /\ faults \in Nat
  BY <1>i, ProgramType DEF IngestTypeOK
<1>u. unsent[r] # <<>> =>
         /\ Tail(unsent[r]) \in Seq(Events) /\ Head(unsent[r]) \in Events
         /\ Elements(unsent[r]) = {Head(unsent[r])} \cup Elements(Tail(unsent[r]))
         /\ Append(log, Head(unsent[r])) \in Seq(Events)
         /\ Elements(Append(log, Head(unsent[r]))) = Elements(log) \cup {Head(unsent[r])}
  BY <1>t, ElementsTail, ElementsAppend
<1>f. Fault \/ CallFails(r) => faults' \in Nat
  BY <1>t DEF Fault, CallFails
<1>v. program' = program => \A t : Decodes(t)' <=> Decodes(t)
  BY DEF Decodes
<1>1. CASE Rejected(r)
  BY <1>1, <1>t, AnswerStep DEF Rejected
<1>2. CASE Decoded(r)
  <2>1. IngestTypeOK' /\ Quiet
    BY <1>2, <1>i, Zenon DEF Decoded, IngestTypeOK
  <2>2. RequestSafe(r)'
    BY <1>2, <1>i, <1>v DEF Decoded, IngestTypeOK, RequestSafe, Decodes
  <2> QED BY <1>2, <2>1, <2>2, QuietStep DEF Decoded
<1>3. CASE Publish(r)
  <2>0. batch[r] \in 1 .. Len(program) /\ batch[r] <= turn /\ Decodes(batch[r])
    BY <1>3, <1>i DEF Publish, RequestSafe
  <2>1. IngestTypeOK' /\ Quiet
    BY <1>3, <1>i, <1>t, <2>0, Zenon DEF Publish, IngestTypeOK
  <2>2. RequestSafe(r)'
    BY <1>3, <1>i, <1>v, <2>0, Zenon DEF Publish, IngestTypeOK, RequestSafe, Decodes
  <2> QED BY <1>3, <2>1, <2>2, QuietStep DEF Publish
<1>4. CASE Written(r)
  <2>1. IngestTypeOK' /\ Quiet
    BY <1>4, <1>i, <1>u, Zenon DEF Written, IngestTypeOK
  <2>2. RequestSafe(r)'
    BY <1>4, <1>i, <1>u, <1>v, Zenon DEF Written, IngestTypeOK, RequestSafe, Decodes
  <2> QED BY <1>4, <2>1, <2>2, QuietStep DEF Written
<1>5. CASE Published(r)
  <2>1. Elements(program[batch[r]]) \subseteq Elements(log)
    <3>1. Elements(<<>>) = {}
      BY DEF Elements
    <3> QED BY <1>5, <1>i, <3>1, Zenon DEF Published, RequestSafe
  <2>2. /\ phase[r] # "free" /\ Answer(r, 202) /\ faults' \in Nat
        /\ unsent' = unsent /\ log' = log
    BY <1>5, <1>t, Zenon DEF Published
  <2> QED BY <2>1, <2>2, Statuses, AnswerStep
<1>6. CASE NotDurable(r)
  <2>1. /\ phase[r] # "free" /\ Answer(r, 503) /\ faults' \in Nat
        /\ unsent' = unsent /\ log' = log
    BY <1>6, <1>t, Zenon DEF NotDurable
  <2> QED BY <2>1, Statuses, AnswerStep
<1>7. CASE Unauthorized(r)
  <2>1. /\ phase[r] # "free" /\ Answer(r, 401) /\ faults' \in Nat
        /\ unsent' = unsent /\ log' = log
    BY <1>7, <1>f, Zenon DEF Unauthorized
  <2> QED BY <2>1, Statuses, AnswerStep
<1>8. CASE Limited(r)
  <2>1. PICK status \in {429, 503} : Answer(r, status)
    BY <1>8 DEF Limited
  <2>2. status \in Nat /\ status # 202 /\ status # 400
    BY <2>1
  <2> QED BY <1>8, <1>f, <2>1, <2>2, AnswerStep DEF Limited
<1>9. CASE WrittenTwice(r)
  <2>1. IngestTypeOK' /\ Quiet
    BY <1>9, <1>i, <1>f, <1>u, Zenon DEF WrittenTwice, IngestTypeOK
  <2>2. RequestSafe(r)'
    BY <1>9, <1>i, <1>u, <1>v, Zenon DEF WrittenTwice, IngestTypeOK, RequestSafe, Decodes
  <2> QED BY <1>9, <2>1, <2>2, QuietStep, Zenon DEF WrittenTwice
<1>10. CASE GivenUp(r)
  <2>1. IngestTypeOK' /\ Quiet
    BY <1>10, <1>i, <1>f, <1>u, Zenon DEF GivenUp, IngestTypeOK
  <2>2. RequestSafe(r)'
    BY <1>10, <1>i, <1>u, <1>v, Zenon DEF GivenUp, IngestTypeOK, RequestSafe, Decodes
  <2> QED BY <1>10, <2>1, <2>2, QuietStep, Zenon DEF GivenUp
<1>11. CASE Crash(r)
  <2>0. PICK n \in {0, 1} \cap 0 .. Len(unsent[r]) :
          unsent' = [unsent EXCEPT ![r] = SubSeq(@, 1, n)]
    BY <1>11, Zenon DEF Crash
  <2>a. /\ SubSeq(unsent[r], 1, n) \in Seq(Events)
        /\ Elements(SubSeq(unsent[r], 1, n)) \subseteq Elements(unsent[r])
    BY <1>t, <2>0, ElementsPrefix, Zenon
  <2>1. IngestTypeOK' /\ Quiet
    BY <1>11, <1>i, <1>f, <2>0, <2>a, Zenon DEF Crash, IngestTypeOK
  <2>2. RequestSafe(r)'
    BY <1>11, <1>i, <1>v, <2>0, <2>a, RequestsAssumption, SMTT(30)
       DEF Crash, IngestTypeOK, RequestSafe, Decodes
  <2> QED BY <1>11, <2>1, <2>2, QuietStep, Zenon DEF Crash
<1> QED BY <1>1, <1>2, <1>3, <1>4, <1>5, <1>6, <1>7, <1>8, <1>9, <1>10, <1>11
        DEF Serve, Fail

\* Every step of the client and of the API keeps the invariant.
LEMMA IngestStep == IngestInv /\ [Next]_vars => IngestInv'
<1> SUFFICES ASSUME IngestInv, [Next]_vars PROVE IngestInv'
  BY Zenon
<1>t. IngestTypeOK /\ program \in Seq(Seq(Events)) /\ Len(program) \in Nat
  BY ProgramType, Zenon DEF IngestInv
<1>1. CASE Send
  <2>0. (CHOOSE q \in Free : TRUE) \in Free
    BY <1>1 DEF Send
  <2>2. PICK r \in Free : /\ waiting' = r
                          /\ phase' = [phase EXCEPT ![r] = "decode"]
                          /\ batch' = [batch EXCEPT ![r] = turn]
    BY <1>1, <2>0, Zenon DEF Send
  <2>1. r \in Requests /\ phase[r] = "free" /\ unsent[r] = <<>>
    BY Zenon DEF Free
  <2>3. IngestTypeOK'
    <3>1. phase' \in [Requests -> {"free", "decode", "limit", "publish"}]
      BY <1>t, <2>1, <2>2 DEF IngestTypeOK
    <3>2. batch' \in [Requests -> Nat] /\ waiting' \in Requests
      BY <1>t, <2>1, <2>2 DEF IngestTypeOK
    <3> QED BY <1>1, <1>t, <3>1, <3>2, Zenon DEF Send, IngestTypeOK
  <2>4. \A q \in Requests \ {r} : /\ phase'[q] = phase[q] /\ batch'[q] = batch[q]
                                  /\ unsent'[q] = unsent[q] /\ writeErr'[q] = writeErr[q]
    BY <1>1, <1>t, <2>1, <2>2, Zenon DEF Send, IngestTypeOK
  <2>5. RequestSafe(r)'
    <3>1. Elements(<<>>) = {}
      BY DEF Elements
    <3> QED BY <1>1, <1>t, <2>1, <2>2, <3>1, SMTT(30) DEF Send, IngestTypeOK, RequestSafe
  <2> QED BY <1>1, <2>1, <2>2, <2>3, <2>4, <2>5, QuietStep, Zenon DEF Send
<1>2. CASE Timeout
  <2>1. PICK r \in Requests : r = waiting
    BY <1>2, <1>t, Zenon DEF Timeout, IngestTypeOK
  <2>2. IngestTypeOK'
    BY <1>2, <1>t DEF Timeout, Fault, IngestTypeOK
  <2>3. RequestSafe(r)
    BY <2>1 DEF IngestInv
  <2>4. \A t : Decodes(t)' <=> Decodes(t)
    BY <1>2 DEF Timeout, Decodes
  <2>5. RequestSafe(r)'
    BY <1>2, <2>1, <2>3, <2>4, RequestsAssumption DEF Timeout, RequestSafe, Decodes
  <2> QED BY <1>2, <2>1, <2>2, <2>5, QuietStep, Zenon DEF Timeout
<1>3. CASE \E r \in Requests : Serve(r) \/ Fail(r)
  BY <1>3, RequestStep, Zenon
<1>4. CASE UNCHANGED vars
  <2>1. IngestTypeOK'
    BY <1>4, <1>t, Zenon DEF vars, IngestTypeOK
  <2>2. ASSUME NEW r \in Requests PROVE RequestSafe(r)'
    <3>1. turn \in Nat /\ turn <= turn
      BY <1>t DEF IngestTypeOK
    <3> QED BY <1>4, <3>1, OtherRequest, Zenon DEF vars
  <2>3. \A t \in 1 .. turn' - 1 :
           Decodes(t)' => Elements(program'[t]) \subseteq Elements(log')
    BY <1>4, Zenon DEF vars, IngestInv, Decodes
  <2>4. AcceptedDurable' /\ RejectedInvisible'
    BY <1>4 DEF vars, IngestInv, AcceptedDurable, RejectedInvisible, Decodes
  <2>5. InOrder'
    <3>1. InOrder /\ program' = program /\ log' = log
      BY <1>4, Zenon DEF vars, IngestInv
    <3> QED BY <3>1, OrderKept, Zenon
  <2> QED BY <2>1, <2>2, <2>3, <2>4, <2>5, Zenon DEF IngestInv
<1> QED BY <1>1, <1>2, <1>3, <1>4 DEF Next

-----------------------------------------------------------------------------
(* The stores. *)

\* The i-th of l is the first with its identity.
FirstIn(l, i) == \A j \in 1 .. i - 1 : l[j].id # l[i].id

\* Every identity has a first occurrence.
LEMMA FirstExists ==
  ASSUME NEW l \in Seq(Events), NEW i \in 1 .. Len(l)
  PROVE  \E k \in 1 .. i : l[k].id = l[i].id /\ FirstIn(l, k)
<1> DEFINE Same == {k \in Nat : k \in 1 .. i /\ l[k].id = l[i].id}
<1>1. Same \subseteq Nat /\ i \in Same
  OBVIOUS
<1>2. PICK k \in Same : \A y \in Same : ~(<<y, k>> \in OpToRel(<, Nat))
  BY <1>1, NatLessThanWellFounded, WFMin, Zenon
<1>3. k \in 1 .. i /\ l[k].id = l[i].id
  BY Zenon
<1>4. ASSUME NEW j \in 1 .. k - 1 PROVE l[j].id # l[k].id
  <2>1. j \in Nat /\ k \in Nat /\ j < k /\ j \in 1 .. i
    BY <1>3
  <2>2. j \notin Same
    BY <1>2, <2>1, Zenon DEF OpToRel
  <2> QED BY <1>3, <2>1, <2>2, Zenon
<1> QED BY <1>3, <1>4 DEF FirstIn

\* Offset finds it.
LEMMA OffsetIs ==
  ASSUME NEW l \in Seq(Events), NEW k \in 1 .. Len(l), FirstIn(l, k), NEW d, d = l[k].id
  PROVE  (CHOOSE i \in 1 .. Len(l) :
             l[i].id = d /\ \A j \in 1 .. i - 1 : l[j].id # d) = k
<1> DEFINE P(i) == i \in 1 .. Len(l) /\ l[i].id = d /\ \A j \in 1 .. i - 1 : l[j].id # d
<1>0. Len(l) \in Nat
  OBVIOUS
<1>1. P(k)
  BY Zenon DEF FirstIn
<1>2. \A i : P(i) => i = k
  <2> SUFFICES ASSUME NEW i, P(i) PROVE i = k
    OBVIOUS
  <2>1. i \in Nat /\ k \in Nat /\ 1 <= i /\ 1 <= k
    BY <1>0
  <2>2. ~(k < i)
    BY <2>1
  <2>3. ~(i < k)
    BY <1>1, <2>1
  <2> QED BY <2>1, <2>2, <2>3
<1>3. (CHOOSE i \in 1 .. Len(l) : l[i].id = d /\ \A j \in 1 .. i - 1 : l[j].id # d)
        = (CHOOSE i : P(i))
  BY Zenon
<1> HIDE DEF P
<1> QED BY <1>1, <1>2, <1>3, Zenon

\* FirstWins and StoredInOrder, said of first occurrences.
FirstForm(l, R) == \A r \in R : \E i \in 1 .. Len(l) : l[i] = r /\ FirstIn(l, i)
PrefixForm(l, R) ==
  \A i \in 1 .. Len(l) : FirstIn(l, i) /\ l[i].id \in {r.id : r \in R} =>
     \A j \in 1 .. i : l[j].id \in {r.id : r \in R}

\* Postgres keeps the first of each identity.
LEMMA FirstWinsForm == log \in Seq(Events) => (FirstWins <=> FirstForm(log, rows))
<1> SUFFICES ASSUME log \in Seq(Events) PROVE FirstWins <=> FirstForm(log, rows)
  BY Zenon
<1>1. ASSUME FirstWins, NEW r \in rows
      PROVE  \E i \in 1 .. Len(log) : log[i] = r /\ FirstIn(log, i)
  <2>1. r.id \in Store!Ids(Elements(log)) /\ r = log[Offset(r.id)]
    BY <1>1, Zenon DEF FirstWins
  <2>2. PICK i \in 1 .. Len(log) : log[i].id = r.id
    BY <2>1, Zenon DEF Elements, Store!Ids
  <2>3. PICK k \in 1 .. i : log[k].id = log[i].id /\ FirstIn(log, k)
    BY FirstExists, Zenon
  <2>4. k \in 1 .. Len(log) /\ r.id = log[k].id
    BY <2>2, <2>3
  <2>5. Offset(r.id) = k
    BY <2>3, <2>4, OffsetIs, Zenon DEF Offset
  <2> QED BY <2>1, <2>3, <2>4, <2>5, Zenon
<1>2. ASSUME FirstForm(log, rows), NEW r \in rows
      PROVE  r.id \in Store!Ids(Elements(log)) /\ r = log[Offset(r.id)]
  <2>1. PICK i \in 1 .. Len(log) : log[i] = r /\ FirstIn(log, i)
    BY <1>2 DEF FirstForm
  <2>2. Offset(r.id) = i
    BY <2>1, OffsetIs, Zenon DEF Offset
  <2> QED BY <2>1, <2>2, Zenon DEF Elements, Store!Ids
<1> QED BY <1>1, <1>2 DEF FirstWins, FirstForm

\* Postgres holds a prefix of the history.
LEMMA StoredInOrderForm ==
  log \in Seq(Events) => (StoredInOrder <=> PrefixForm(log, rows))
<1> SUFFICES ASSUME log \in Seq(Events) PROVE StoredInOrder <=> PrefixForm(log, rows)
  OBVIOUS
<1>0. Store!Ids(rows) = {r.id : r \in rows}
  BY Zenon DEF Store!Ids
<1>1. ASSUME StoredInOrder PROVE PrefixForm(log, rows)
  <2> SUFFICES ASSUME NEW i \in 1 .. Len(log), FirstIn(log, i),
                      log[i].id \in Store!Ids(rows), NEW j \in 1 .. i
               PROVE  log[j].id \in Store!Ids(rows)
    BY <1>0 DEF PrefixForm
  <2>1. Offset(log[i].id) = i
    BY OffsetIs, Zenon DEF Offset
  <2> QED BY <1>1, <2>1, Zenon DEF StoredInOrder
<1>2. ASSUME PrefixForm(log, rows) PROVE StoredInOrder
  <2> SUFFICES ASSUME NEW i \in 1 .. Len(log), log[i].id \in Store!Ids(rows),
                      NEW j \in 1 .. Offset(log[i].id)
               PROVE  log[j].id \in Store!Ids(rows)
    BY Zenon DEF StoredInOrder
  <2>1. PICK k \in 1 .. i : log[k].id = log[i].id /\ FirstIn(log, k)
    BY FirstExists, Zenon
  <2>2. k \in 1 .. Len(log)
    OBVIOUS
  <2>3. Offset(log[i].id) = k
    BY <2>1, <2>2, OffsetIs, Zenon DEF Offset
  <2> QED BY <1>0, <1>2, <2>1, <2>2, <2>3, Zenon DEF PrefixForm
<1> QED BY <1>1, <1>2, Zenon

\* The log is only appended to.
LEMMA LogStep ==
  ASSUME IngestInv, [Next]_vars
  PROVE  /\ log' \in Seq(Events) /\ Len(log) \in Nat /\ Len(log') \in Nat
         /\ Len(log) <= Len(log')
         /\ \A i \in 1 .. Len(log) : log'[i] = log[i]
<1>1. log \in Seq(Events) /\ log' \in Seq(Events)
  BY IngestStep, Zenon DEF IngestInv, IngestTypeOK
<1>2. log' = log \/ \E e \in Events : log' = Append(log, e)
  <2>1. ASSUME NEW r \in Requests, unsent[r] # <<>> PROVE Head(unsent[r]) \in Events
    <3>1. unsent[r] \in Seq(Events)
      BY Zenon DEF IngestInv, IngestTypeOK
    <3> QED BY <2>1, <3>1
  <2>2. ASSUME NEW r \in Requests, Serve(r) \/ Fail(r)
        PROVE  log' = log \/ (unsent[r] # <<>> /\ log' = Append(log, Head(unsent[r])))
    BY <2>2, SMTT(30) DEF Serve, Fail, Rejected, Decoded, Publish, Written, Published,
       NotDurable, Unauthorized, Limited, WrittenTwice, GivenUp, Crash
  <2>3. Send \/ Timeout \/ UNCHANGED vars => log' = log
    BY Zenon DEF Send, Timeout, vars
  <2> QED BY <2>1, <2>2, <2>3, Zenon DEF Next
<1>3. CASE log' = log
  BY <1>1, <1>3
<1>4. CASE \E e \in Events : log' = Append(log, e)
  <2>1. PICK e \in Events : log' = Append(log, e)
    BY <1>4, Zenon
  <2> QED BY <1>1, <2>1
<1> QED BY <1>2, <1>3, <1>4, Zenon

\* The stores do not notice that the log grows.
LEMMA IngestKeepsStore ==
  ASSUME PipelineInv, [Next]_vars, UNCHANGED storeVars
  PROVE  PipelineInv'
<1> USE DEF PipelineInv
<1>0. IngestInv'
  BY IngestStep, Zenon
<1>l. /\ log \in Seq(Events) /\ log' \in Seq(Events)
      /\ Len(log) \in Nat /\ Len(log') \in Nat /\ Len(log) <= Len(log')
      /\ \A i \in 1 .. Len(log) : log'[i] = log[i]
  BY LogStep, Zenon DEF IngestInv, IngestTypeOK
<1>s. UNCHANGED <<service, owner, position, committed, work, from, to, rows, table,
                  storeFaults>>
  BY Zenon DEF storeVars
<1>i. \A i \in 1 .. Len(log) : IsStored(i) <=> IsStored(i)'
  BY <1>l, <1>s DEF IsStored, Stored
<1>t. position \in 0 .. Len(log) /\ committed \in 0 .. Len(log)
  BY DEF StoreTypeOK
<1>1. StoreTypeOK'
  <2>1. position' \in 0 .. Len(log') /\ committed' \in 0 .. Len(log')
    BY <1>l, <1>s, <1>t
  <2> QED BY <1>s, <2>1, Zenon DEF StoreTypeOK
<1>2. ASSUME NEW w \in Workers PROVE WorkerSafe(w)'
  <2> SUFFICES ASSUME work[w] # "fetch" PROVE WorkerSafe(w)'
    BY <1>s, Zenon DEF WorkerSafe
  <2>1. /\ from[w] \in Nat /\ to[w] \in Nat
        /\ 1 <= from[w] /\ from[w] <= to[w] /\ to[w] <= Len(log)
    BY Zenon DEF StoreTypeOK, WorkerSafe
  <2>2. /\ to[w] <= Len(log')
        /\ \A i \in 1 .. from[w] - 1 : i \in 1 .. Len(log)
        /\ \A i \in 1 .. to[w] : i \in 1 .. Len(log)
    BY <1>l, <2>1
  <2> QED BY <1>s, <1>i, <2>1, <2>2, Zenon DEF WorkerSafe
<1>3. OwnerSafe'
  BY <1>i, <1>l, <1>s, <1>t DEF OwnerSafe
<1>4. CommittedStored'
  <2>1. \A i \in 1 .. committed : IsStored(i)
    BY DEF CommittedStored, IsStored
  <2> QED BY <1>i, <1>l, <1>s, <1>t, <2>1 DEF CommittedStored, IsStored
<1>f. FirstForm(log, rows) /\ PrefixForm(log, rows)
  BY <1>l, FirstWinsForm, StoredInOrderForm, Zenon
<1>g. \A i \in 1 .. Len(log) : FirstIn(log, i) <=> FirstIn(log', i)
  BY <1>l DEF FirstIn
<1>5. FirstForm(log', rows)
  BY <1>f, <1>g, <1>l DEF FirstForm
<1>6. PrefixForm(log', rows)
  <2> SUFFICES ASSUME NEW i \in 1 .. Len(log'), FirstIn(log', i),
                      log'[i].id \in {r.id : r \in rows}, NEW j \in 1 .. i
               PROVE  log'[j].id \in {r.id : r \in rows}
    BY Zenon DEF PrefixForm
  <2>1. PICK r \in rows : r.id = log'[i].id
    BY Zenon
  <2>2. PICK k \in 1 .. Len(log) : log[k] = r
    BY <1>f, Zenon DEF FirstForm
  <2>3. i \in 1 .. Len(log)
    <3>1. ~(k < i)
      BY <1>l, <2>1, <2>2 DEF FirstIn
    <3> QED BY <1>l, <3>1
  <2>4. j \in 1 .. Len(log)
    BY <1>l, <2>3
  <2>5. log'[j] = log[j] /\ log'[i] = log[i] /\ FirstIn(log, i)
    BY <1>g, <1>l, <2>3, <2>4, Zenon
  <2> QED BY <1>f, <2>3, <2>4, <2>5, Zenon DEF PrefixForm
<1>7. FirstWins' /\ StoredInOrder'
  <2>1. (log \in Seq(Events) => (FirstWins <=> FirstForm(log, rows)))'
    BY FirstWinsForm, PTL
  <2>2. (log \in Seq(Events) => (StoredInOrder <=> PrefixForm(log, rows)))'
    BY StoredInOrderForm, PTL
  <2>3. FirstForm(log, rows)' /\ PrefixForm(log, rows)'
    BY <1>5, <1>6, <1>s, Zenon DEF FirstForm, PrefixForm, FirstIn
  <2> QED BY <1>l, <2>1, <2>2, <2>3
<1> QED BY <1>0, <1>1, <1>2, <1>3, <1>4, <1>7, Zenon

\* The batch of a worker is a window of the log.
LEMMA BatchIs ==
  ASSUME PipelineInv, NEW w \in Workers, work[w] # "fetch"
  PROVE  /\ from[w] \in 1 .. Len(log) /\ to[w] \in from[w] .. Len(log)
         /\ Store!Batch(w) \in Seq(Events)
         /\ Len(Store!Batch(w)) = to[w] - from[w] + 1
         /\ \A k \in 1 .. to[w] - from[w] + 1 :
               Store!Batch(w)[k] = log[from[w] + k - 1]
         /\ Store!Elements(Store!Batch(w)) = {log[i] : i \in from[w] .. to[w]}
<1>1. log \in Seq(Events) /\ Len(log) \in Nat /\ from[w] \in Nat /\ to[w] \in Nat
  BY DEF PipelineInv, IngestInv, IngestTypeOK, StoreTypeOK
<1>2. 1 <= from[w] /\ from[w] <= to[w] /\ to[w] <= Len(log)
  BY Zenon DEF PipelineInv, WorkerSafe
<1> DEFINE f == from[w]
           t == to[w]
           b == SubSeq(log, f, t)
<1>3. f \in Nat /\ t \in Nat /\ 1 <= f /\ f <= t /\ t <= Len(log)
  BY <1>1, <1>2, Zenon
<1> HIDE DEF f, t
<1>4. /\ b \in Seq(Events) /\ Len(b) = t - f + 1
      /\ \A k \in 1 .. t - f + 1 : b[k] = log[f + k - 1]
  BY <1>1, <1>3
<1>5. \A i \in f .. t : i - f + 1 \in 1 .. t - f + 1 /\ f + (i - f + 1) - 1 = i
  BY <1>3
<1>6. \A k \in 1 .. t - f + 1 : f + k - 1 \in f .. t
  BY <1>3
<1> HIDE DEF b
<1>7. {b[k] : k \in 1 .. Len(b)} = {log[i] : i \in f .. t}
  <2>1. ASSUME NEW i \in f .. t PROVE log[i] \in {b[k] : k \in 1 .. Len(b)}
    <3>1. b[i - f + 1] = log[f + (i - f + 1) - 1]
      BY <1>4, <1>5, Zenon
    <3> QED BY <1>4, <1>5, <3>1
  <2>2. ASSUME NEW k \in 1 .. Len(b) PROVE b[k] \in {log[i] : i \in f .. t}
    BY <1>4, <1>6, Zenon
  <2> QED BY <2>1, <2>2, Zenon
<1>8. Store!Batch(w) = b
  BY Zenon DEF Store!Batch, b, f, t
<1>9. /\ from[w] \in 1 .. Len(log) /\ to[w] \in from[w] .. Len(log)
      /\ f = from[w] /\ t = to[w]
  BY <1>1, <1>2 DEF f, t
<1>10. Store!Elements(b) = {b[k] : k \in 1 .. Len(b)}
  BY Zenon DEF Store!Elements
<1> QED BY <1>4, <1>7, <1>8, <1>9, <1>10, Zenon

\* INSERT .. ON CONFLICT DO NOTHING adds the first occurrences in the batch of
\* what is not stored.
LEMMA UpsertedIs ==
  ASSUME PipelineInv, NEW w \in Workers, work[w] # "fetch"
  PROVE  Store!Upserted(w) = rows \cup {log[i] : i \in {m \in from[w] .. to[w] :
            /\ log[m].id \notin Store!Ids(rows)
            /\ \A k \in from[w] .. m - 1 : log[k].id # log[m].id}}
<1> DEFINE f == from[w]
           t == to[w]
           b == Store!Batch(w)
           New(m) == /\ log[m].id \notin Store!Ids(rows)
                     /\ \A k \in f .. m - 1 : log[k].id # log[m].id
           NewIn(j) == /\ b[j].id \notin Store!Ids(rows)
                       /\ \A k \in 1 .. j - 1 : b[k].id # b[j].id
<1>1. /\ f \in Nat /\ t \in Nat /\ 1 <= f /\ f <= t /\ Len(b) = t - f + 1
      /\ \A k \in 1 .. t - f + 1 : b[k] = log[f + k - 1]
  <2>1. Len(log) \in Nat
    BY DEF PipelineInv, IngestInv, IngestTypeOK
  <2>2. /\ from[w] \in 1 .. Len(log) /\ to[w] \in from[w] .. Len(log)
        /\ Len(Store!Batch(w)) = to[w] - from[w] + 1
        /\ \A k \in 1 .. to[w] - from[w] + 1 :
               Store!Batch(w)[k] = log[from[w] + k - 1]
    BY BatchIs, Zenon
  <2> QED BY <2>1, <2>2
<1> HIDE DEF f, t, b
<1>2. ASSUME NEW j \in 1 .. t - f + 1
      PROVE  /\ f + j - 1 \in f .. t /\ b[j] = log[f + j - 1]
             /\ NewIn(j) <=> New(f + j - 1)
  <2>1. f + j - 1 \in f .. t /\ b[j] = log[f + j - 1]
    BY <1>1
  <2>2. ASSUME \A k \in 1 .. j - 1 : b[k].id # b[j].id,
               NEW k \in f .. (f + j - 1) - 1
        PROVE  log[k].id # log[f + j - 1].id
    <3>1. k - f + 1 \in 1 .. j - 1 /\ k - f + 1 \in 1 .. t - f + 1
          /\ f + (k - f + 1) - 1 = k
      BY <1>1
    <3>2. b[k - f + 1] = log[f + (k - f + 1) - 1]
      BY <1>1, <3>1, Zenon
    <3> QED BY <2>1, <2>2, <3>1, <3>2, Zenon
  <2>3. ASSUME \A k \in f .. (f + j - 1) - 1 : log[k].id # log[f + j - 1].id,
               NEW k \in 1 .. j - 1
        PROVE  b[k].id # b[j].id
    <3>1. f + k - 1 \in f .. (f + j - 1) - 1 /\ k \in 1 .. t - f + 1
      BY <1>1
    <3> QED BY <1>1, <2>1, <2>3, <3>1, Zenon
  <2> QED BY <2>1, <2>2, <2>3, Zenon
<1>3. ASSUME NEW m \in f .. t
      PROVE  \E j \in 1 .. t - f + 1 : m = f + j - 1
  <2>1. m - f + 1 \in 1 .. t - f + 1 /\ m = f + (m - f + 1) - 1
    BY <1>1
  <2> QED BY <2>1, Zenon
<1>4. {b[i] : i \in {j \in 1 .. Len(b) : NewIn(j)}}
        = {log[i] : i \in {m \in f .. t : New(m)}}
  <2> HIDE DEF NewIn, New
  <2>1. ASSUME NEW j \in 1 .. Len(b), NewIn(j)
        PROVE  b[j] \in {log[i] : i \in {m \in f .. t : New(m)}}
    BY <1>1, <1>2, <2>1, Zenon
  <2>2. ASSUME NEW m \in f .. t, New(m)
        PROVE  log[m] \in {b[i] : i \in {j \in 1 .. Len(b) : NewIn(j)}}
    <3>1. PICK j \in 1 .. t - f + 1 : m = f + j - 1
      BY <1>3
    <3> QED BY <1>1, <1>2, <2>2, <3>1, Zenon
  <2> QED BY <2>1, <2>2, Zenon
<1>5. Store!Upserted(w) = rows \cup {b[i] : i \in {j \in 1 .. Len(b) : NewIn(j)}}
  BY Zenon DEF Store!Upserted, b
<1> QED BY <1>4, <1>5, Zenon DEF f, t

\* Where COPY meets no unique violation it stores what the INSERT would.
LEMMA CopyIsUpserted ==
  ASSUME PipelineInv, NEW w \in Workers, work[w] # "fetch", ~Store!Conflict(w)
  PROVE  rows \cup Store!Elements(Store!Batch(w)) = Store!Upserted(w)
BY Zenon DEF Store!Conflict, Store!Upserted, Store!Elements

\* Saving a batch behind which everything is stored leaves Postgres with a
\* prefix of the history, up to the end of the batch, and with the first of
\* each identity.
LEMMA UpsertedSafe ==
  ASSUME PipelineInv, NEW w \in Workers, work[w] \in {"copy", "insert"},
         NEW R, R = Store!Upserted(w)
  PROVE  /\ rows \subseteq R /\ R \subseteq Events
         /\ FirstForm(log, R) /\ PrefixForm(log, R)
         /\ \A i \in 1 .. to[w] : log[i].id \in {r.id : r \in R}
<1> DEFINE f == from[w]
           t == to[w]
           I == {r.id : r \in rows}
           J == {r.id : r \in R}
           New == {m \in f .. t : /\ log[m].id \notin I
                                  /\ \A k \in f .. m - 1 : log[k].id # log[m].id}
<1>l. log \in Seq(Events) /\ Len(log) \in Nat /\ rows \subseteq Events
  BY DEF PipelineInv, IngestInv, IngestTypeOK, StoreTypeOK
<1>b. f \in Nat /\ t \in Nat /\ 1 <= f /\ f <= t /\ t <= Len(log)
  <2>1. from[w] \in 1 .. Len(log) /\ to[w] \in from[w] .. Len(log)
    BY BatchIs, Zenon
  <2> QED BY <1>l, <2>1
<1>s. \A i \in 1 .. f - 1 : log[i].id \in I
  BY Zenon DEF PipelineInv, WorkerSafe, IsStored, Stored, Store!Ids
<1>u. R = rows \cup {log[i] : i \in New}
  <2>1. Store!Ids(rows) = I
    BY Zenon DEF Store!Ids
  <2> QED BY <2>1, UpsertedIs, Zenon
<1>o. FirstForm(log, rows) /\ PrefixForm(log, rows)
  BY <1>l, FirstWinsForm, StoredInOrderForm, Zenon DEF PipelineInv
<1> HIDE DEF f, t
<1>1. \A m \in New : FirstIn(log, m) /\ m \in 1 .. Len(log)
  <2> SUFFICES ASSUME NEW m \in New
               PROVE  m \in 1 .. Len(log) /\ \A j \in 1 .. m - 1 : log[j].id # log[m].id
    BY Zenon DEF FirstIn
  <2>1. m \in f .. t /\ log[m].id \notin I
    BY Zenon
  <2>2. \A j \in 1 .. m - 1 : j \in 1 .. f - 1 \/ j \in f .. m - 1
    BY <1>b, <2>1
  <2>3. m \in 1 .. Len(log)
    BY <1>b, <2>1
  <2>4. \A j \in f .. m - 1 : log[j].id # log[m].id
    BY Zenon
  <2> QED BY <1>s, <2>1, <2>2, <2>3, <2>4, Zenon
<1>2. rows \subseteq R /\ R \subseteq Events /\ I \subseteq J
  BY <1>l, <1>u, <1>1
<1>3. FirstForm(log, R)
  BY <1>o, <1>u, <1>1, Zenon DEF FirstForm
<1>4. ASSUME NEW i \in 1 .. t PROVE log[i].id \in J
  <2>1. i \in 1 .. Len(log)
    BY <1>b, <1>l
  <2>2. PICK k \in 1 .. i : log[k].id = log[i].id /\ FirstIn(log, k)
    BY <1>l, <2>1, FirstExists, Zenon
  <2>3. CASE k < f
    BY <1>b, <1>s, <1>2, <2>2, <2>3
  <2>4. CASE k >= f /\ log[k].id \notin I
    <3>1. k \in f .. t
      BY <1>b, <2>4
    <3>2. \A j \in f .. k - 1 : log[j].id # log[k].id
      BY <1>b, <2>2 DEF FirstIn
    <3>3. log[k] \in R
      BY <1>u, <2>4, <3>1, <3>2, Zenon
    <3> QED BY <2>2, <3>3, Zenon
  <2>5. CASE log[k].id \in I
    BY <1>2, <2>2, <2>5, Zenon
  <2> QED BY <1>b, <2>3, <2>4, <2>5
<1>5. PrefixForm(log, R)
  <2> SUFFICES ASSUME NEW i \in 1 .. Len(log), FirstIn(log, i), log[i].id \in J,
                      NEW j \in 1 .. i
               PROVE  log[j].id \in J
    BY DEF PrefixForm
  <2>1. CASE log[i].id \in I
    <3>1. log[j].id \in I
      BY <1>o, <2>1, Zenon DEF PrefixForm
    <3> QED BY <1>2, <3>1, Zenon
  <2>2. CASE log[i].id \notin I
    <3>1. PICK m \in New : log[m].id = log[i].id
      BY <1>u, <2>2
    <3>2. ~(m < i)
      BY <1>1, <1>b, <3>1 DEF FirstIn
    <3>3. j \in 1 .. t
      BY <1>b, <1>l, <3>1, <3>2, SMTT(30)
    <3> QED BY <1>4, <3>3, Zenon
  <2> QED BY <2>1, <2>2, Zenon
<1> QED BY <1>2, <1>3, <1>4, <1>5, Zenon DEF t

\* What the steps of one worker share: they leave the log and the other workers
\* alone, and nothing that is stored disappears.
LEMMA WorkerStep ==
  ASSUME PipelineInv, UNCHANGED vars, service' = service, StoreTypeOK',
         Stored \subseteq Stored', FirstForm(log, rows'), PrefixForm(log, rows'),
         NEW w \in Workers, WorkerSafe(w)',
         \A v \in Workers \ {w} :
            work'[v] = work[v] /\ from'[v] = from[v] /\ to'[v] = to[v],
         OwnerSafe',
         \A i \in 1 .. committed' : IsStored(i)'
  PROVE  PipelineInv'
<1>1. IngestInv'
  BY IngestStep, Zenon DEF PipelineInv
<1>l. log \in Seq(Events) /\ log' = log
  BY Zenon DEF PipelineInv, IngestInv, IngestTypeOK, vars
<1>i. \A i : IsStored(i) => IsStored(i)'
  BY <1>l, Zenon DEF IsStored
<1>2. ASSUME NEW v \in Workers PROVE WorkerSafe(v)'
  <2>1. CASE v = w
    BY <2>1, Zenon
  <2>2. CASE v # w
    BY <1>l, <1>i, <2>2, Zenon DEF PipelineInv, WorkerSafe
  <2> QED BY <2>1, <2>2, Zenon
<1>3. CommittedStored'
  BY Zenon DEF CommittedStored, IsStored
<1>4. FirstWins' /\ StoredInOrder'
  <2>1. (log \in Seq(Events) => (FirstWins <=> FirstForm(log, rows)))'
    BY FirstWinsForm, PTL
  <2>2. (log \in Seq(Events) => (StoredInOrder <=> PrefixForm(log, rows)))'
    BY StoredInOrderForm, PTL
  <2>3. FirstForm(log, rows)' /\ PrefixForm(log, rows)'
    <3>1. FirstForm(log', rows') /\ PrefixForm(log', rows')
      BY <1>l, Zenon
    <3> QED BY <3>1, Zenon DEF FirstForm, PrefixForm, FirstIn
  <2> QED BY <1>l, <2>1, <2>2, <2>3, Zenon
<1> QED BY <1>1, <1>2, <1>3, <1>4, Zenon DEF PipelineInv

\* The statements of the persistence worker: rows changes to what Upserted says,
\* or not at all, and the worker goes on to commit only in the first case.
LEMMA SaveStep ==
  ASSUME PipelineInv, UNCHANGED vars, NEW w \in Workers,
         work[w] \in {"copy", "insert"},
         UNCHANGED <<service, owner, position, committed, from, to, table>>,
         storeFaults' \in Nat,
         NEW p \in {"copy", "insert", "commit"},
         work' = [work EXCEPT ![w] = p],
         rows' = rows \/ rows' = Store!Upserted(w),
         p = "commit" => rows' = Store!Upserted(w)
  PROVE  PipelineInv'
<1>t. StoreTypeOK /\ log \in Seq(Events) /\ log' = log
  BY Zenon DEF PipelineInv, IngestInv, IngestTypeOK, vars
<1>s. service = "persistence" /\ Stored = {r.id : r \in rows}
      /\ Stored' = {r.id : r \in rows'}
  BY DEF PipelineInv, WorkerSafe, Stored, Store!Ids
<1>1. /\ rows \subseteq rows' /\ rows' \subseteq Events
      /\ FirstForm(log, rows') /\ PrefixForm(log, rows')
  <2>1. CASE rows' = rows
    BY <1>t, <2>1, FirstWinsForm, StoredInOrderForm, Zenon DEF PipelineInv, StoreTypeOK
  <2>2. CASE rows' = Store!Upserted(w)
    BY <2>2, UpsertedSafe, Zenon
  <2> QED BY <2>1, <2>2, Zenon
<1>2. Stored \subseteq Stored'
  BY <1>s, <1>1, Zenon
<1>i. \A i : IsStored(i) => IsStored(i)'
  BY <1>t, <1>2 DEF IsStored
<1>3. StoreTypeOK'
  BY <1>t, <1>1, Zenon DEF StoreTypeOK
<1>4. WorkerSafe(w)'
  <2>1. p = "commit" => \A i \in 1 .. to[w] : IsStored(i)'
    BY <1>s, <1>t, UpsertedSafe, Zenon DEF IsStored
  <2>2. work'[w] = p
    BY <1>t DEF StoreTypeOK
  <2> QED BY <1>i, <1>s, <1>t, <2>1, <2>2, Zenon DEF PipelineInv, WorkerSafe
<1>5. \A v \in Workers \ {w} : work'[v] = work[v]
  BY <1>t, Zenon DEF StoreTypeOK
<1>6. OwnerSafe'
  <2>1. owner \in Workers /\ (work[owner] # "fetch" => work'[owner] # "fetch")
    BY <1>t DEF StoreTypeOK
  <2> QED BY <1>i, <2>1, Zenon DEF PipelineInv, OwnerSafe
<1>7. \A i \in 1 .. committed : IsStored(i)'
  BY <1>i, Zenon DEF PipelineInv, CommittedStored, IsStored
<1> QED BY <1>1, <1>2, <1>3, <1>4, <1>5, <1>6, <1>7, WorkerStep, Zenon

\* RecordBatch, with or without an answer: the versions are there.
LEMMA RecordStep ==
  ASSUME PipelineInv, UNCHANGED vars, NEW w \in Workers, work[w] = "record",
         UNCHANGED <<service, owner, position, committed, from, to, rows>>,
         storeFaults' \in Nat,
         NEW p \in {"record", "commit"},
         work' = [work EXCEPT ![w] = p],
         table' = table \/ table' = table \o Store!Batch(w),
         p = "commit" => table' = table \o Store!Batch(w)
  PROVE  PipelineInv'
<1>t. /\ StoreTypeOK /\ log \in Seq(Events) /\ log' = log /\ table \in Seq(Events)
  BY Zenon DEF PipelineInv, IngestInv, IngestTypeOK, StoreTypeOK, vars
<1>s. service = "analytics" /\ Stored = {e.id : e \in Elements(table)}
      /\ Stored' = {e.id : e \in Elements(table')}
  BY Zenon DEF PipelineInv, WorkerSafe, Stored, Store!Ids
<1>b. /\ Store!Batch(w) \in Seq(Events) /\ from[w] \in Nat /\ to[w] \in Nat
      /\ Store!Elements(Store!Batch(w)) = {log[i] : i \in from[w] .. to[w]}
  BY <1>t, BatchIs, Zenon DEF StoreTypeOK
<1>1. /\ table' \in Seq(Events) /\ Elements(table) \subseteq Elements(table')
      /\ p = "commit" => {log[i] : i \in from[w] .. to[w]} \subseteq Elements(table')
  <2> DEFINE b == Store!Batch(w)
  <2>1. Elements(b) = {log[i] : i \in from[w] .. to[w]} /\ b \in Seq(Events)
    BY <1>b, Zenon DEF Store!Elements, Elements
  <2> HIDE DEF b
  <2>2. table \o b \in Seq(Events) /\ Elements(table \o b) = Elements(table) \cup Elements(b)
    BY <1>t, <2>1, ElementsConcat, SMTT(30)
  <2>3. (table' = table \/ table' = table \o b) /\ (p = "commit" => table' = table \o b)
    BY Zenon DEF b
  <2> QED BY <1>t, <2>1, <2>2, <2>3, Zenon
<1>2. Stored \subseteq Stored'
  BY <1>s, <1>1, Zenon
<1>i. \A i : IsStored(i) => IsStored(i)'
  BY <1>t, <1>2, Zenon DEF IsStored
<1>3. StoreTypeOK'
  BY <1>t, <1>1, Zenon DEF StoreTypeOK
<1>4. WorkerSafe(w)'
  <2>1. ASSUME p = "commit", NEW i \in 1 .. to[w] PROVE IsStored(i)'
    <3>1. CASE i \in 1 .. from[w] - 1
      BY <1>i, <3>1, Zenon DEF PipelineInv, WorkerSafe
    <3>2. CASE i \in from[w] .. to[w]
      BY <1>1, <1>s, <1>t, <2>1, <3>2, Zenon DEF IsStored
    <3> QED BY <1>b, <3>1, <3>2, SMTT(30)
  <2>2. work'[w] = p
    BY <1>t DEF StoreTypeOK
  <2> QED BY <1>i, <1>s, <1>t, <2>1, <2>2, Zenon DEF PipelineInv, WorkerSafe
<1>5. \A v \in Workers \ {w} : work'[v] = work[v]
  BY <1>t, Zenon DEF StoreTypeOK
<1>6. OwnerSafe'
  <2>1. owner \in Workers /\ (work[owner] # "fetch" => work'[owner] # "fetch")
    BY <1>t, Zenon DEF StoreTypeOK
  <2> QED BY <1>i, <2>1, Zenon DEF PipelineInv, OwnerSafe
<1>7. \A i \in 1 .. committed : IsStored(i)'
  BY <1>i, Zenon DEF PipelineInv, CommittedStored, IsStored
<1>8. FirstForm(log, rows) /\ PrefixForm(log, rows)
  BY <1>t, FirstWinsForm, StoredInOrderForm, Zenon DEF PipelineInv
<1> QED BY <1>2, <1>3, <1>4, <1>5, <1>6, <1>7, <1>8, WorkerStep, Zenon

\* The steps that store nothing: fetching, committing, a rebalance, a crash.
LEMMA MoveStep ==
  ASSUME PipelineInv, UNCHANGED vars, NEW w \in Workers,
         Store!Fetch(w) \/ Store!Commit(w) \/ Store!Rebalance(w) \/ Store!Crash(w)
  PROVE  PipelineInv'
<1>t. /\ StoreTypeOK /\ log \in Seq(Events) /\ log' = log /\ Len(log) \in Nat
      /\ position \in Nat /\ committed \in Nat
      /\ position <= Len(log) /\ committed <= Len(log)
      /\ from[w] \in Nat /\ to[w] \in Nat /\ owner \in Workers
  BY SMTT(30) DEF PipelineInv, IngestInv, IngestTypeOK, StoreTypeOK, vars
<1>k. service' = service /\ rows' = rows /\ table' = table /\ storeFaults' \in Nat
  BY <1>t, SMTT(30) DEF Store!Fetch, Store!Commit, Store!Rebalance, Store!Crash, Store!Fault,
     StoreTypeOK
<1>s. Stored' = Stored
  BY <1>k DEF Stored
<1>i. \A i : IsStored(i) <=> IsStored(i)'
  BY <1>s, <1>t DEF IsStored
<1>c. \A i \in 1 .. committed : IsStored(i)
  BY Zenon DEF PipelineInv, CommittedStored, IsStored
<1>f. FirstForm(log, rows') /\ PrefixForm(log, rows')
  BY <1>k, <1>t, FirstWinsForm, StoredInOrderForm, Zenon DEF PipelineInv
<1>w. WorkerSafe(w) /\ OwnerSafe
  BY Zenon DEF PipelineInv
<1>1. CASE Store!Fetch(w)
  <2>1. PICK n \in 1 .. BatchSize :
          /\ position + n <= Len(log) /\ position' = position + n
          /\ from' = [from EXCEPT ![w] = position + 1]
          /\ to' = [to EXCEPT ![w] = position + n]
    BY <1>1, Zenon DEF Store!Fetch
  <2>2. n \in Nat /\ 1 <= n
    BY StoreAssumption
  <2>3. /\ work[w] = "fetch" /\ owner = w /\ owner' = owner /\ committed' = committed
        /\ work' = [work EXCEPT ![w] = Store!HandlerStart]
    BY <1>1, Zenon DEF Store!Fetch, Store!Goto
  <2>4. /\ Store!HandlerStart \in {"copy", "record"}
        /\ Store!HandlerStart = "record" => service = "analytics"
        /\ Store!HandlerStart = "copy" => service = "persistence"
    BY <1>t, Zenon DEF Store!HandlerStart, StoreTypeOK
  <2>5. StoreTypeOK'
    BY <1>k, <1>t, <2>1, <2>2, <2>3, <2>4, SMTT(30) DEF StoreTypeOK
  <2>6. /\ work'[w] = Store!HandlerStart /\ from'[w] = position + 1
        /\ to'[w] = position + n
        /\ \A v \in Workers \ {w} :
             work'[v] = work[v] /\ from'[v] = from[v] /\ to'[v] = to[v]
    BY <1>t, <2>1, <2>3, Zenon DEF StoreTypeOK
  <2>7. \A i \in 1 .. position : IsStored(i)'
    BY <1>i, <1>w, <2>3, Zenon DEF OwnerSafe
  <2>8. WorkerSafe(w)'
    <3>1. /\ 1 <= position + 1 /\ position + 1 <= position + n
          /\ (position + 1) - 1 = position
      BY <1>t, <2>2
    <3>2. work'[w] # "commit"
      BY <2>4, <2>6
    <3>3. work'[w] \in {"copy", "insert"} => service' = "persistence"
      BY <1>k, <2>4, <2>6
    <3>4. work'[w] = "record" => service' = "analytics"
      BY <1>k, <2>4, <2>6, Zenon
    <3> QED BY <1>t, <2>1, <2>6, <2>7, <3>1, <3>2, <3>3, <3>4, Zenon DEF WorkerSafe
  <2>9. OwnerSafe'
    <3>1. \A i \in 1 .. position + n :
             i \in 1 .. position \/ i \in position + 1 .. position + n
      BY <1>t, <2>2, SMTT(30)
    <3> QED BY <2>1, <2>3, <2>4, <2>6, <2>7, <3>1, Zenon DEF OwnerSafe
  <2> QED BY <1>c, <1>f, <1>i, <1>k, <1>s, <2>3, <2>5, <2>6, <2>8, <2>9, WorkerStep, Zenon
<1>2. CASE Store!Commit(w) \/ Store!Crash(w)
  <2>1. /\ work' = [work EXCEPT ![w] = "fetch"]
        /\ from' = [from EXCEPT ![w] = 1] /\ to' = [to EXCEPT ![w] = 0]
        /\ owner' = owner
    BY <1>2 DEF Store!Commit, Store!Crash, Store!Drop, Store!Goto
  <2>2. /\ work'[w] = "fetch"
        /\ \A v \in Workers \ {w} :
             work'[v] = work[v] /\ from'[v] = from[v] /\ to'[v] = to[v]
    BY <1>t, <2>1, Zenon DEF StoreTypeOK
  <2>3. /\ committed' \in 0 .. Len(log) /\ position' \in 0 .. Len(log)
        /\ \A i \in 1 .. committed' : IsStored(i)
    <3>1. CASE Store!Commit(w)
      <4>1. committed' = to[w] /\ position' = position
        BY <3>1, Zenon DEF Store!Commit
      <4>2. /\ 1 <= from[w] /\ from[w] <= to[w] /\ to[w] <= Len(log)
            /\ \A i \in 1 .. to[w] : IsStored(i)
        BY <1>w, <3>1, Zenon DEF Store!Commit, WorkerSafe
      <4> QED BY <1>t, <4>1, <4>2
    <3>2. CASE Store!Crash(w)
      <4>1. committed' = committed /\ position' \in {position, committed}
        BY <3>2, Zenon DEF Store!Crash
      <4> QED BY <1>c, <1>t, <4>1
    <3> QED BY <1>2, <3>1, <3>2, Zenon
  <2>4. StoreTypeOK'
    BY <1>k, <1>t, <2>1, <2>3, Zenon DEF StoreTypeOK
  <2>5. WorkerSafe(w)'
    BY <2>2, Zenon DEF WorkerSafe
  <2>6. OwnerSafe'
    <3>1. CASE owner # w
      <4>1. position' = position
        BY <1>2, <3>1, Zenon DEF Store!Commit, Store!Crash
      <4> QED BY <1>i, <1>t, <1>w, <2>1, <2>2, <3>1, <4>1, Zenon DEF OwnerSafe
    <3>2. CASE owner = w /\ Store!Commit(w)
      <4>1. position' = position /\ \A i \in 1 .. to[w] : IsStored(i)
        BY <1>w, <3>2, Zenon DEF Store!Commit, WorkerSafe
      <4>2. \A i \in from[w] .. to[w] : i \in 1 .. to[w]
        <5>1. 1 <= from[w]
          BY <1>w, <3>2, Zenon DEF Store!Commit, WorkerSafe
        <5> QED BY <1>t, <5>1
      <4> QED BY <1>i, <1>w, <3>2, <4>1, <4>2, Zenon DEF OwnerSafe
    <3>3. CASE owner = w /\ Store!Crash(w)
      BY <1>c, <1>i, <3>3, Zenon DEF OwnerSafe, Store!Crash
    <3> QED BY <1>2, <3>1, <3>2, <3>3, Zenon
  <2> QED BY <1>f, <1>i, <1>k, <1>s, <2>2, <2>3, <2>4, <2>5, <2>6, WorkerStep, Zenon
<1>3. CASE Store!Rebalance(w)
  <2>1. /\ owner' = w /\ position' = committed /\ committed' = committed
        /\ work' = work /\ from' = from /\ to' = to
    BY <1>3 DEF Store!Rebalance
  <2>2. StoreTypeOK'
    BY <1>k, <1>t, <2>1, Zenon DEF StoreTypeOK
  <2>3. WorkerSafe(w)'
    BY <1>i, <1>k, <1>t, <1>w, <2>1, Zenon DEF WorkerSafe
  <2>4. OwnerSafe'
    BY <1>c, <1>i, <2>1, Zenon DEF OwnerSafe
  <2> QED BY <1>c, <1>f, <1>i, <1>k, <1>s, <2>1, <2>2, <2>3, <2>4, WorkerStep, Zenon
<1> QED BY <1>1, <1>2, <1>3, Zenon

\* Every step of a worker keeps the invariant.
LEMMA StoreStep ==
  ASSUME PipelineInv, UNCHANGED vars, Store!Next
  PROVE  PipelineInv'
<1>1. PICK w \in Workers : Store!Work(w) \/ Store!Fail(w)
  BY Zenon DEF Store!Next
<1>t. storeFaults \in Nat /\ work \in [Workers -> {"fetch", "copy", "insert", "record", "commit"}]
  BY DEF PipelineInv, StoreTypeOK
<1>f. Store!Fault => storeFaults' \in Nat
  BY <1>t DEF Store!Fault
<1>2. CASE Store!Fetch(w) \/ Store!Commit(w) \/ Store!Rebalance(w) \/ Store!Crash(w)
  BY <1>2, MoveStep, Zenon
<1>3. CASE Store!Copy(w)
  <2>1. rows' = Store!Upserted(w)
    BY <1>3, CopyIsUpserted, Zenon DEF Store!Copy
  <2> QED BY <1>3, <1>t, <2>1, SaveStep, Zenon DEF Store!Copy, Store!Goto
<1>4. CASE Store!CopyConflict(w)
  BY <1>4, <1>t, SaveStep, Zenon DEF Store!CopyConflict, Store!Goto
<1>5. CASE Store!Insert(w)
  BY <1>5, <1>t, SaveStep, Zenon DEF Store!Insert, Store!Goto
<1>6. CASE Store!SaveError(w)
  <2>1. Store!HandlerStart = "copy"
    BY <1>6, Zenon DEF Store!SaveError, Store!HandlerStart, PipelineInv, WorkerSafe
  <2>2. rows' = rows \/ rows' = Store!Upserted(w)
    BY <1>6 DEF Store!SaveError
  <2> QED BY <1>6, <1>f, <2>1, <2>2, SaveStep, Zenon DEF Store!SaveError, Store!Goto
<1>7. CASE Store!Record(w)
  BY <1>7, <1>t, RecordStep, Zenon DEF Store!Record, Store!Goto
<1>8. CASE Store!RecordError(w)
  <2>1. work' = [work EXCEPT ![w] = "record"]
    BY <1>8, <1>t, Zenon DEF Store!RecordError
  <2> QED BY <1>8, <1>f, <2>1, RecordStep, Zenon DEF Store!RecordError
<1> QED BY <1>1, <1>2, <1>3, <1>4, <1>5, <1>6, <1>7, <1>8, Zenon DEF Store!Work, Store!Fail

\* At the start nothing is stored.
LEMMA PipelineInitInv == PipelineInit => PipelineInv
<1> SUFFICES ASSUME PipelineInit PROVE PipelineInv
  OBVIOUS
<1>1. IngestInv
  BY IngestInit, Zenon DEF PipelineInit
<1>2. (CHOOSE w \in Workers : TRUE) \in Workers
  BY StoreAssumption, Zenon
<1>3. StoreTypeOK
  BY <1>2 DEF PipelineInit, Init, Store!Init, StoreTypeOK
<1>4. \A w \in Workers : WorkerSafe(w)
  BY Zenon DEF PipelineInit, Store!Init, WorkerSafe
<1>5. OwnerSafe /\ CommittedStored
  BY DEF PipelineInit, Store!Init, OwnerSafe, CommittedStored
<1>6. FirstWins /\ StoredInOrder
  BY DEF PipelineInit, Store!Init, FirstWins, StoredInOrder, Store!Ids
<1> QED BY <1>1, <1>3, <1>4, <1>5, <1>6, Zenon DEF PipelineInv

-----------------------------------------------------------------------------
\* PipelineInv is invariant: whatever the client sends and however requests,
\* retries, cancellations, rebalances, crashes and lost answers fall.
THEOREM PipelineInvariant == PipelineSpec => []PipelineInv
<1>1. PipelineInit => PipelineInv
  BY PipelineInitInv, Zenon
<1>2. PipelineInv /\ [PipelineNext]_<<vars, storeVars>> => PipelineInv'
  <2> SUFFICES ASSUME PipelineInv, [PipelineNext]_<<vars, storeVars>> PROVE PipelineInv'
    BY Zenon
  <2>1. CASE Next /\ UNCHANGED storeVars
    BY <2>1, IngestKeepsStore, Zenon
  <2>2. CASE Store!Next /\ UNCHANGED vars
    BY <2>2, StoreStep, Zenon
  <2>3. CASE UNCHANGED <<vars, storeVars>>
    BY <2>3, IngestKeepsStore, Zenon
  <2> QED BY <2>1, <2>2, <2>3, Zenon DEF PipelineNext
<1> QED BY <1>1, <1>2, PTL DEF PipelineSpec

\* README.md:24, for every program and every number of requests: a batch that
\* was answered with 202 is in the log, every event of it.
THEOREM AcceptedIsDurable == PipelineSpec => []AcceptedDurable
<1>1. PipelineInv => AcceptedDurable
  BY Zenon DEF PipelineInv, IngestInv
<1> QED BY <1>1, PipelineInvariant, PTL

\* Nothing of a batch that does not decode reaches the topic.
THEOREM RejectedIsInvisible == PipelineSpec => []RejectedInvisible
<1>1. PipelineInv => RejectedInvisible
  BY Zenon DEF PipelineInv, IngestInv
<1> QED BY <1>1, PipelineInvariant, PTL

\* The partition keeps the order in which the tenant first sent its batches.
THEOREM PartitionOrder == PipelineSpec => []InOrder
<1>1. PipelineInv => InOrder
  BY DEF PipelineInv, IngestInv
<1> QED BY <1>1, PipelineInvariant, PTL

\* Both groups store before they commit.
THEOREM StoredBeforeCommitted == PipelineSpec => []CommittedStored
<1>1. PipelineInv => CommittedStored
  BY Zenon DEF PipelineInv
<1> QED BY <1>1, PipelineInvariant, PTL

\* Postgres holds one row per identity, the first of the log.
THEOREM FirstContentWins == PipelineSpec => []FirstWins
<1>1. PipelineInv => FirstWins
  BY Zenon DEF PipelineInv
<1> QED BY <1>1, PipelineInvariant, PTL

\* Postgres holds a prefix of the tenant's history.
THEOREM HistoryPrefix == PipelineSpec => []StoredInOrder
<1>1. PipelineInv => StoredInOrder
  BY DEF PipelineInv
<1> QED BY <1>1, PipelineInvariant, PTL

\* Every identity has a last version.
LEMMA LastExists ==
  ASSUME NEW l \in Seq(Events), NEW i \in 1 .. Len(l)
  PROVE  \E k \in 1 .. Len(l) :
            l[k].id = l[i].id /\ \A j \in k + 1 .. Len(l) : l[j].id # l[k].id
<1> DEFINE Dist == {d \in Nat : d < Len(l) /\ l[Len(l) - d].id = l[i].id}
<1>0. Len(l) \in Nat /\ i \in Nat /\ 1 <= i /\ i <= Len(l)
  OBVIOUS
<1>1. Dist \subseteq Nat /\ Len(l) - i \in Dist
  <2>1. Len(l) - i \in Nat /\ Len(l) - i < Len(l) /\ Len(l) - (Len(l) - i) = i
    BY <1>0
  <2> QED BY <2>1, Zenon
<1>2. PICK d \in Dist : \A y \in Dist : ~(<<y, d>> \in OpToRel(<, Nat))
  BY <1>1, NatLessThanWellFounded, WFMin, Zenon
<1> DEFINE k == Len(l) - d
<1>3. d \in Nat /\ k \in 1 .. Len(l) /\ l[k].id = l[i].id
  BY <1>0
<1>4. ASSUME NEW j \in k + 1 .. Len(l) PROVE l[j].id # l[k].id
  <2>1. Len(l) - j \in Nat /\ Len(l) - j < d /\ Len(l) - j < Len(l)
        /\ Len(l) - (Len(l) - j) = j
    BY <1>0, <1>3
  <2>2. Len(l) - j \notin Dist
    BY <1>2, <1>3, <2>1, Zenon DEF OpToRel
  <2> QED BY <1>3, <2>1, <2>2, Zenon
<1> QED BY <1>3, <1>4, Zenon

\* ClickHouse holds nothing but events of the log.
LEMMA RecordedFromLog == PipelineSpec => [](Elements(table) \subseteq Elements(log))
<1>1. PipelineInit => Elements(table) \subseteq Elements(log)
  BY DEF PipelineInit, Store!Init, Elements
<1>2. ASSUME PipelineInv, Elements(table) \subseteq Elements(log),
             [PipelineNext]_<<vars, storeVars>>
      PROVE  Elements(table') \subseteq Elements(log')
  <2>t. log \in Seq(Events) /\ table \in Seq(Events)
    BY <1>2, Zenon DEF PipelineInv, IngestInv, IngestTypeOK, StoreTypeOK
  <2>1. CASE Next /\ UNCHANGED storeVars
    <3>1. /\ Len(log) \in Nat /\ Len(log') \in Nat /\ Len(log) <= Len(log')
          /\ \A i \in 1 .. Len(log) : log'[i] = log[i]
      BY <1>2, <2>1, LogStep, Zenon DEF PipelineInv
    <3>2. \A i \in 1 .. Len(log) : i \in 1 .. Len(log')
      BY <3>1
    <3>3. Elements(log) \subseteq Elements(log')
      BY <3>1, <3>2, Zenon DEF Elements
    <3>4. table' = table
      BY <2>1, Zenon DEF storeVars
    <3> QED BY <1>2, <3>3, <3>4, Zenon
  <2>2. CASE Store!Next /\ UNCHANGED vars
    <3>1. PICK w \in Workers : Store!Work(w) \/ Store!Fail(w)
      BY <2>2, Zenon DEF Store!Next
    <3>l. log' = log
      BY <2>2, Zenon DEF vars
    <3>2. CASE Store!Record(w) \/ Store!RecordError(w)
      <4>1. PICK b : b = Store!Batch(w)
        BY Zenon
      <4>2. work[w] # "fetch" /\ (table' = table \/ table' = table \o b)
        BY <3>2, <4>1 DEF Store!Record, Store!RecordError
      <4>3. /\ b \in Seq(Events) /\ Elements(b) = {log[i] : i \in from[w] .. to[w]}
            /\ from[w] \in 1 .. Len(log) /\ to[w] \in from[w] .. Len(log)
        BY <1>2, <4>1, <4>2, BatchIs, Zenon DEF Elements, Store!Elements
      <4>4. \A i \in from[w] .. to[w] : i \in 1 .. Len(log)
        BY <2>t, <4>3
      <4>5. Elements(b) \subseteq Elements(log)
        BY <4>3, <4>4, Zenon DEF Elements
      <4>6. Elements(table \o b) = Elements(table) \cup Elements(b)
        BY <2>t, <4>3, ElementsConcat, SMTT(30)
      <4> QED BY <1>2, <3>l, <4>2, <4>5, <4>6, Zenon
    <3>3. CASE ~(Store!Record(w) \/ Store!RecordError(w))
      <4>1. table' = table
        BY <3>1, <3>3, Zenon DEF Store!Work, Store!Fail, Store!Fetch, Store!Copy,
           Store!CopyConflict, Store!Insert, Store!Commit, Store!SaveError,
           Store!Rebalance, Store!Crash
      <4> QED BY <1>2, <3>l, <4>1, Zenon
    <3> QED BY <3>2, <3>3, Zenon
  <2>3. CASE UNCHANGED <<vars, storeVars>>
    <3>1. table' = table /\ log' = log
      BY <2>3, Zenon DEF vars, storeVars
    <3> QED BY <1>2, <3>1, Zenon
  <2> QED BY <1>2, <2>1, <2>2, <2>3, Zenon DEF PipelineNext
<1>3. PipelineInv /\ Elements(table) \subseteq Elements(log)
        /\ [PipelineNext]_<<vars, storeVars>> =>
      (Elements(table) \subseteq Elements(log))'
  BY <1>2, Zenon DEF Elements
<1> QED BY <1>1, <1>3, PipelineInvariant, PTL DEF PipelineSpec

\* Every event the analytics group has committed is counted, under exactly one of
\* the types it was sent with.
THEOREM SummaryCountsOnce == PipelineSpec => []SummaryExact
<1>1. PipelineInv /\ Elements(table) \subseteq Elements(log) => SummaryExact
  <2> SUFFICES ASSUME PipelineInv, Elements(table) \subseteq Elements(log),
                      service = "analytics", NEW i \in 1 .. committed
               PROVE  \E e \in Elements(log) :
                        /\ e.id = log[i].id
                        /\ \A u \in {f.type : f \in Elements(log)} :
                             e.id \in Store!Summary(u) <=> u = e.type
    BY Zenon DEF SummaryExact
  <2>0. table \in Seq(Events) /\ log[i].id \in Store!Ids(Elements(table))
    BY Zenon DEF PipelineInv, StoreTypeOK, CommittedStored, Stored
  <2>1. PICK m \in 1 .. Len(table) : table[m].id = log[i].id
    BY <2>0, Zenon DEF Store!Ids, Elements
  <2>2. PICK k \in 1 .. Len(table) :
          /\ table[k].id = log[i].id
          /\ \A j \in k + 1 .. Len(table) : table[j].id # table[k].id
    BY <2>0, <2>1, LastExists
  <2>3. table[k] \in Elements(log)
    BY Zenon DEF Elements
  <2>4. ASSUME NEW u, table[k].id \in Store!Summary(u) PROVE u = table[k].type
    <3>1. PICK j \in 1 .. Len(table) :
            /\ table[j].id = table[k].id /\ table[j].type = u
            /\ \A l \in j + 1 .. Len(table) : table[l].id # table[j].id
      BY <2>4, Zenon DEF Store!Summary
    <3>2. ~(j < k) /\ ~(k < j)
      BY <2>0, <2>2, <3>1
    <3> QED BY <2>0, <3>1, <3>2
  <2>5. table[k].id \in Store!Summary(table[k].type)
    BY <2>2, Zenon DEF Store!Summary
  <2> QED BY <2>2, <2>3, <2>4, <2>5, Zenon
<1> QED BY <1>1, PipelineInvariant, RecordedFromLog, PTL
=============================================================================
