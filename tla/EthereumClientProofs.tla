------------------------ MODULE EthereumClientProofs ------------------------
(***************************************************************************)
(* Proofs about EthereumClient, for every number of requests, chunk size,  *)
(* list of backoffs, timeout and deadline: BatchCall puts every answer at  *)
(* its request's place, loses none, never has more than a chunk in flight  *)
(* and ends within the time its retries can take.                          *)
(***************************************************************************)
EXTENDS EthereumClient, NaturalLemmas, FiniteSetTheorems, TLAPS

-----------------------------------------------------------------------------
(* Arithmetic *)

\* One chunk further, the number of chunks sent is one more.
LEMMA DivStep ==
    ASSUME NEW a \in Nat, NEW b \in Nat \ {0}
    PROVE  (a + b) \div b = (a \div b) + 1 /\ a \div b \in Nat
OBVIOUS

\* Multiplication by a natural number keeps the order.
LEMMA TimesMono ==
    ASSUME NEW a \in Nat, NEW b \in Nat, NEW c \in Nat, a <= b
    PROVE  a * c <= b * c /\ a * c \in Nat /\ b * c \in Nat
OBVIOUS

\* One more time c.
LEMMA TimesStep ==
    ASSUME NEW a \in Nat, NEW c \in Nat
    PROVE  (a + 1) * c = a * c + c
OBVIOUS

\* A chunk holds at most ChunkSize requests.
LEMMA ChunkFinite ==
    ASSUME NEW s \in Nat
    PROVE IsFiniteSet(Chunk(s)) /\ Cardinality(Chunk(s)) <= ChunkSize
<1>1. Chunk(s) \subseteq (s + 1) .. (s + ChunkSize)
  BY ClientAssumption DEF Chunk, Requests
<1>2. /\ IsFiniteSet((s + 1) .. (s + ChunkSize))
      /\ Cardinality((s + 1) .. (s + ChunkSize)) = ChunkSize
  <2>1. s + 1 \in Int /\ s + ChunkSize \in Int /\ ~(s + 1 > s + ChunkSize)
        /\ (s + ChunkSize) - (s + 1) + 1 = ChunkSize
     BY ClientAssumption
  <2> QED BY <2>1, FS_Interval
<1> QED BY <1>1, <1>2, FS_Subset

-----------------------------------------------------------------------------
(* The time a Call takes *)

\* g is the sum of the first backoffs, on 0 .. n.
SumOn(g, n) == g = [i \in 0 .. n |-> IF i = 0 THEN 0 ELSE g[i - 1] + Backoffs[i]]

\* That function exists: a least n without one would have it by one more step.
LEMMA SumExists ==
    ASSUME NEW n \in Nat
    PROVE  \E g : SumOn(g, n)
<1> SUFFICES ASSUME ~ \E g : SumOn(g, n) PROVE FALSE
  OBVIOUS
<1> DEFINE T == {m \in Nat : ~ \E g : SumOn(g, m)}
<1>1. PICK m \in T : \A k \in T : m <= k
  <2>1. T \subseteq Nat /\ T # {} OBVIOUS
  <2> HIDE DEF T
  <2> QED BY <2>1, LeastNatural
<1>2. m # 0
  <2>1. SumOn([i \in 0 .. 0 |-> 0], 0)
    BY DEF SumOn
  <2> QED BY <2>1
<1>3. m - 1 \in Nat /\ m - 1 \notin T
  BY <1>1, <1>2
<1>4. PICK g : SumOn(g, m - 1)
  BY <1>3
<1> DEFINE h == [i \in 0 .. m |-> IF i = m THEN g[m - 1] + Backoffs[m] ELSE g[i]]
<1>5. SumOn(h, m)
  <2>1. ASSUME NEW i \in 0 .. m PROVE h[i] = IF i = 0 THEN 0 ELSE h[i - 1] + Backoffs[i]
    <3>1. CASE i = m BY <3>1, <1>2
    <3>2. CASE i # m
      <4>1. g[i] = IF i = 0 THEN 0 ELSE g[i - 1] + Backoffs[i]
        BY <3>2, <1>4, <1>3 DEF SumOn
      <4> QED BY <3>2, <4>1, <1>2
    <3> QED BY <3>1, <3>2
  <2>2. h = [i \in 0 .. m |-> h[i]]
    OBVIOUS
  <2> HIDE DEF h
  <2> QED BY <2>1, <2>2 DEF SumOn
<1> QED BY <1>5

\* BackoffSum satisfies the equation that defines it.
LEMMA BackoffSumDef ==
    \A n \in 0 .. Len(Backoffs) :
       BackoffSum[n] = IF n = 0 THEN 0 ELSE BackoffSum[n - 1] + Backoffs[n]
<1>1. Len(Backoffs) \in Nat BY ClientAssumption
<1>2. \E g : SumOn(g, Len(Backoffs)) BY <1>1, SumExists
<1>3. BackoffSum = CHOOSE g : SumOn(g, Len(Backoffs))
  BY DEF BackoffSum, SumOn
<1>4. SumOn(BackoffSum, Len(Backoffs)) BY <1>2, <1>3
<1> QED BY <1>4 DEF SumOn

\* The sums are naturals and do not decrease.
LEMMA BackoffSumMono ==
   \A n \in 0 .. Len(Backoffs) : BackoffSum[n] \in Nat /\ (\A m \in 0 .. n : BackoffSum[m] <= BackoffSum[n])
<1> DEFINE P(n) == BackoffSum[n] \in Nat /\ (\A m \in 0 .. n : BackoffSum[m] <= BackoffSum[n])
           T == {n \in 0 .. Len(Backoffs) : ~P(n)}
<1> SUFFICES ASSUME T # {} PROVE FALSE
  OBVIOUS
<1>1. PICK n \in T : \A k \in T : n <= k
  <2>1. T \subseteq Nat /\ T # {} BY ClientAssumption
  <2> HIDE DEF T
  <2> QED BY <2>1, LeastNatural
<1>2. CASE n = 0
  BY <1>2, BackoffSumDef, <1>1, ClientAssumption
<1>3. CASE n # 0
  <2>1. n - 1 \in 0 .. Len(Backoffs) /\ P(n - 1)
    BY <1>1, <1>3, ClientAssumption
  <2>2. Backoffs[n] \in Nat /\ n \in 1 .. Len(Backoffs) BY <1>3, ClientAssumption
  <2>3. BackoffSum[n] = BackoffSum[n - 1] + Backoffs[n]
    BY <2>2, BackoffSumDef
  <2>4. BackoffSum[n] \in Nat /\ BackoffSum[n - 1] <= BackoffSum[n]
    BY <2>1, <2>2, <2>3
  <2>5. ASSUME NEW m \in 0 .. n PROVE BackoffSum[m] <= BackoffSum[n]
    <3>1. CASE m = n
      BY <3>1, <2>4
    <3>2. CASE m # n
      <4>1. m \in 0 .. n - 1 BY <3>2, <2>2
      <4>2. BackoffSum[m] <= BackoffSum[n - 1] BY <4>1, <2>1
      <4>3. m \notin T BY <3>2, <1>1, <2>2
      <4>4. BackoffSum[m] \in Nat BY <4>1, <4>3, <2>1
      <4>5. BackoffSum[n - 1] \in Nat BY <2>1
      <4> QED BY <4>2, <4>4, <4>5, <2>4
    <3> QED BY <3>1, <3>2
  <2> QED BY <2>4, <2>5
<1> QED BY <1>2, <1>3
\* The time of a complete attempts, each with the backoff after it.
CallTime(a) == BackoffSum[a] + a * RequestTimeout

\* The time of the chunks before the one that starts after request s.
Elapsed(s) == (s \div ChunkSize) * MaxCallTime

\* What the proofs use of CallTime.
LEMMA CallTimeFacts ==
    /\ CallTime(0) = 0
    /\ MaxCallTime = CallTime(Len(Backoffs)) /\ MaxCallTime \in Nat
    /\ \A a \in 0 .. Len(Backoffs) : CallTime(a) \in Nat /\ CallTime(a) <= MaxCallTime
    /\ \A a \in 1 .. Len(Backoffs) :
         /\ Backoffs[a] \in Nat
         /\ CallTime(a) = CallTime(a - 1) + RequestTimeout + Backoffs[a]
<1>1. /\ Len(Backoffs) \in Nat /\ RequestTimeout \in Nat
      /\ \A a \in 1 .. Len(Backoffs) : Backoffs[a] \in Nat
  BY ClientAssumption
<1>2. \A a \in 0 .. Len(Backoffs) :
        BackoffSum[a] \in Nat /\ BackoffSum[a] <= BackoffSum[Len(Backoffs)]
  BY <1>1, BackoffSumMono
<1>3. \A a \in 0 .. Len(Backoffs) :
        /\ a * RequestTimeout \in Nat
        /\ Len(Backoffs) * RequestTimeout \in Nat
        /\ a * RequestTimeout <= Len(Backoffs) * RequestTimeout
  BY <1>1, TimesMono
<1>4. ASSUME NEW a \in 0 .. Len(Backoffs)
      PROVE  CallTime(a) \in Nat /\ CallTime(a) <= MaxCallTime /\ MaxCallTime \in Nat
  <2>1. BackoffSum[Len(Backoffs)] \in Nat
    BY <1>1, <1>2
  <2>2. BackoffSum[a] \in Nat /\ BackoffSum[a] <= BackoffSum[Len(Backoffs)]
    BY <1>2
  <2>3. /\ a * RequestTimeout \in Nat
        /\ Len(Backoffs) * RequestTimeout \in Nat
        /\ a * RequestTimeout <= Len(Backoffs) * RequestTimeout
    BY <1>3
  <2> QED
    BY <2>1, <2>2, <2>3 DEF CallTime, MaxCallTime
<1>5. ASSUME NEW a \in 1 .. Len(Backoffs)
      PROVE  CallTime(a) = CallTime(a - 1) + RequestTimeout + Backoffs[a]
  <2>1. a - 1 \in 0 .. Len(Backoffs) /\ a - 1 \in Nat /\ a \in 0 .. Len(Backoffs) /\ a # 0 /\ a = (a - 1) + 1
    BY <1>1
  <2>2. BackoffSum[a] = BackoffSum[a - 1] + Backoffs[a]
    BY <2>1, BackoffSumDef
  <2>3. ((a - 1) + 1) * RequestTimeout = (a - 1) * RequestTimeout + RequestTimeout
    BY <2>1, <1>1, TimesStep
  <2>4. a * RequestTimeout = (a - 1) * RequestTimeout + RequestTimeout
    BY <2>1, <2>3
  <2>5. (a - 1) * RequestTimeout \in Nat /\ BackoffSum[a - 1] \in Nat /\ Backoffs[a] \in Nat
    BY <2>1, <1>1, <1>2, <1>3
  <2> QED
    BY <2>2, <2>4, <2>5, <1>1 DEF CallTime
<1>6. CallTime(0) = 0
  <2>1. BackoffSum[0] = 0
    BY <1>1, BackoffSumDef
  <2> QED
    BY <2>1, <1>1 DEF CallTime
<1>7. MaxCallTime = CallTime(Len(Backoffs)) /\ MaxCallTime \in Nat
  BY <1>1, <1>4 DEF CallTime, MaxCallTime
<1> QED
  BY <1>1, <1>4, <1>5, <1>6, <1>7

\* What the proofs use of Elapsed: a chunk adds MaxCallTime.
LEMMA ElapsedFacts ==
    ASSUME NEW s \in Nat
    PROVE  /\ Elapsed(0) = 0
           /\ Elapsed(s) \in Nat
           /\ Elapsed(s + ChunkSize) = Elapsed(s) + MaxCallTime
           /\ (s \div ChunkSize + 1) * MaxCallTime = Elapsed(s) + MaxCallTime
<1>1. ChunkSize \in Nat \ {0} /\ MaxCallTime \in Nat
  BY ClientAssumption, CallTimeFacts
<1>2. (s + ChunkSize) \div ChunkSize = (s \div ChunkSize) + 1 /\ s \div ChunkSize \in Nat
  BY <1>1, DivStep
<1>3. 0 \div ChunkSize = 0
  BY <1>1
<1>4. (s \div ChunkSize + 1) * MaxCallTime = (s \div ChunkSize) * MaxCallTime + MaxCallTime
  BY <1>1, <1>2, TimesStep
<1>5. (s \div ChunkSize) * MaxCallTime \in Nat
  BY <1>1, <1>2, TimesMono
<1> QED
  BY <1>1, <1>2, <1>3, <1>4, <1>5 DEF Elapsed

-----------------------------------------------------------------------------
(* The inductive invariant *)

\* The requests before the current chunk are finished, those after it have not
\* begun, and the chunk's channel holds the answers of its finished ones.
ChunkInv ==
    /\ \A i \in Requests :
         /\ i <= sent => status[i] \in {"done", "failed"}
         /\ i \in Chunk(sent) => status[i] # "idle"
         /\ i > sent + ChunkSize => status[i] = "idle"
         /\ status[i] = "idle" => attempt[i] = 1
    /\ responses = {i \in Chunk(sent) : status[i] = "done"}

\* The results of the chunks collected so far follow what became of their
\* requests, the others are nil.
ResultInv ==
    /\ returned => WaitGroupDone /\ sent + ChunkSize >= N
    /\ \A i \in Requests :
         results[i] = IF (i <= sent \/ returned) /\ status[i] = "done" THEN i ELSE NoResponse

\* An attempt or a sleep that is not over ends within the time of the chunks
\* before it and of its own attempts.
TimeInv ==
    /\ clock <= Elapsed(sent) + MaxCallTime
    /\ \A i \in Requests :
         /\ Running(i) => clock <= due[i]
         /\ status[i] = "calling" => due[i] <= Elapsed(sent) + CallTime(attempt[i] - 1) + RequestTimeout
         /\ status[i] = "sleeping" => due[i] <= Elapsed(sent) + CallTime(attempt[i])

ClientInv == TypeOK /\ ChunkInv /\ ResultInv /\ TimeInv

\* When an attempt that begins now is over, at the latest.
Allowed == Earlier(clock + RequestTimeout, IF Expired THEN clock ELSE Deadline)

\* An attempt that begins now is not over before now, and within its timeout.
LEMMA AllowedBounds ==
    ASSUME clock \in Nat
    PROVE  Allowed \in Nat /\ clock <= Allowed /\ Allowed <= clock + RequestTimeout
BY ClientAssumption DEF Allowed, Earlier, Expired

\* ClientInv when the first chunk has been started.
LEMMA ClientInit ==
    Init => ClientInv
<1> SUFFICES ASSUME Init PROVE ClientInv
  OBVIOUS
<1> USE DEF Init
<1>1. /\ N \in Nat /\ ChunkSize \in Nat /\ RequestTimeout \in Nat /\ Deadline \in Nat
      /\ N >= 1 /\ Len(Backoffs) \in Nat /\ Len(Backoffs) >= 1
  BY ClientAssumption
<1>3. /\ Earlier(RequestTimeout, Deadline) \in Nat
      /\ Earlier(RequestTimeout, Deadline) <= RequestTimeout
  BY <1>1 DEF Earlier
<1>4. TypeOK
  <2>1. clock \in Nat /\ sent \in 0 .. N - 1 /\ responses \subseteq Chunk(sent)
    BY <1>1
  <2>2. status \in [Requests -> {"idle", "calling", "sleeping", "done", "failed"}]
    OBVIOUS
  <2>3. attempt \in [Requests -> 1 .. Len(Backoffs)]
    BY <1>1
  <2>4. due \in [Requests -> Nat]
    BY <1>3
  <2>5. returned \in BOOLEAN
    OBVIOUS
  <2>6. results \in [Requests -> Requests \cup {NoResponse}]
    OBVIOUS
  <2> QED
    BY <2>1, <2>2, <2>3, <2>4, <2>5, <2>6 DEF TypeOK
<1>5. ChunkInv
  BY <1>1 DEF ChunkInv, Chunk, Requests
<1>6. ResultInv
  BY <1>1 DEF ResultInv, Requests
<1>7. TimeInv
  <2>1. Elapsed(0) = 0 /\ CallTime(0) = 0 /\ MaxCallTime \in Nat
    BY CallTimeFacts, ElapsedFacts
  <2>2. \A i \in Requests : attempt[i] - 1 = 0
    OBVIOUS
  <2>3. \A i \in Requests : status[i] # "sleeping"
    OBVIOUS
  <2> QED
    BY <1>1, <1>3, <2>1, <2>2, <2>3 DEF TimeInv, Running
<1> QED
  BY <1>4, <1>5, <1>6, <1>7 DEF ClientInv

\* What the steps below use of the invariant and the constants.
LEMMA ClientFacts ==
    ASSUME ClientInv
    PROVE  /\ N \in Nat /\ ChunkSize \in Nat /\ ChunkSize > 0 /\ RequestTimeout \in Nat
           /\ clock \in Nat /\ sent \in Nat
           /\ Elapsed(sent) \in Nat /\ MaxCallTime \in Nat
           /\ \A i \in Requests :
                /\ i \in Nat /\ attempt[i] \in 1 .. Len(Backoffs) /\ due[i] \in Nat
                /\ CallTime(attempt[i]) \in Nat /\ CallTime(attempt[i] - 1) \in Nat
                /\ CallTime(attempt[i]) <= MaxCallTime
                /\ Backoffs[attempt[i]] \in Nat
                /\ CallTime(attempt[i]) = CallTime(attempt[i] - 1) + RequestTimeout + Backoffs[attempt[i]]
                /\ Running(i) => i \in Chunk(sent)
<1>1. N \in Nat /\ ChunkSize \in Nat /\ ChunkSize > 0 /\ RequestTimeout \in Nat /\ Len(Backoffs) \in Nat
  BY ClientAssumption
<1>2. clock \in Nat /\ sent \in Nat
  BY <1>1 DEF ClientInv, TypeOK
<1>3. Elapsed(sent) \in Nat /\ MaxCallTime \in Nat
  BY <1>2, ElapsedFacts, CallTimeFacts
<1>4. ASSUME NEW i \in Requests
      PROVE  /\ i \in Nat /\ attempt[i] \in 1 .. Len(Backoffs) /\ due[i] \in Nat
             /\ CallTime(attempt[i]) \in Nat /\ CallTime(attempt[i] - 1) \in Nat
             /\ CallTime(attempt[i]) <= MaxCallTime
             /\ Backoffs[attempt[i]] \in Nat
             /\ CallTime(attempt[i]) = CallTime(attempt[i] - 1) + RequestTimeout + Backoffs[attempt[i]]
  <2>1. i \in Nat /\ attempt[i] \in 1 .. Len(Backoffs) /\ due[i] \in Nat
    BY <1>1 DEF ClientInv, TypeOK, Requests
  <2>2. attempt[i] \in 0 .. Len(Backoffs) /\ attempt[i] - 1 \in 0 .. Len(Backoffs)
    BY <1>1, <2>1
  <2> QED
    BY <2>1, <2>2, CallTimeFacts
<1>5. ASSUME NEW i \in Requests, Running(i)
      PROVE  i \in Chunk(sent)
  BY <1>1, <1>2, <1>5 DEF ClientInv, ChunkInv, Running, Chunk, Requests
<1> QED
  BY <1>1, <1>2, <1>3, <1>4, <1>5

\* A goroutine's step that ends its Call: it succeeds, or it gives up.
LEMMA EndStep ==
    ASSUME ClientInv, NEW i \in Requests, CallSucceeds(i) \/ GiveUp(i)
    PROVE  ClientInv'
<1>1. /\ Running(i) /\ i \in Chunk(sent)
      /\ status' = [status EXCEPT ![i] = IF CallSucceeds(i) THEN "done" ELSE "failed"]
      /\ responses' = IF CallSucceeds(i) THEN responses \cup {i} ELSE responses
      /\ UNCHANGED <<clock, sent, attempt, due, results, returned>>
  <2>1. CASE CallSucceeds(i)
    BY <2>1, ClientFacts DEF CallSucceeds, Running
  <2>2. CASE GiveUp(i) /\ ~CallSucceeds(i)
    BY <2>2, ClientFacts DEF GiveUp, Running
  <2> QED
    BY <2>1, <2>2
<1>2. status'[i] \in {"done", "failed"} /\ \A j \in Requests : j # i => status'[j] = status[j]
  BY <1>1 DEF ClientInv, TypeOK
<1>3. i > sent /\ i <= sent + ChunkSize /\ ~returned
  BY <1>1, ClientFacts DEF ClientInv, ResultInv, WaitGroupDone, Chunk
<1>4. (status'[i] = "done") <=> CallSucceeds(i)
  BY <1>1 DEF ClientInv, TypeOK
<1>5. TypeOK'
  BY <1>1 DEF ClientInv, TypeOK, Chunk
<1>6. ChunkInv'
  <2>1. \A j \in Requests : attempt'[j] = attempt[j]
    BY <1>1
  <2>2. \A j \in Requests : (j \in Chunk(sent))' <=> j \in Chunk(sent)
    BY <1>1 DEF Chunk
  <2>3. (responses = {j \in Chunk(sent) : status[j] = "done"})'
    <3>1. responses = {j \in Chunk(sent) : status[j] = "done"}
      BY DEF ClientInv, ChunkInv
    <3>2. status[i] # "done"
      BY <1>1 DEF Running
    <3>3. \A j \in Chunk(sent) : j \in Requests
      BY DEF Chunk
    <3>4. Chunk(sent)' = Chunk(sent)
      BY <1>1 DEF Chunk
    <3> QED
      BY <1>1, <1>2, <1>4, <3>1, <3>2, <3>3, <3>4
  <2>4. ASSUME NEW j \in Requests
        PROVE  /\ j <= sent => status'[j] \in {"done", "failed"}
               /\ j \in Chunk(sent) => status'[j] # "idle"
               /\ j > sent + ChunkSize => status'[j] = "idle"
               /\ status'[j] = "idle" => attempt[j] = 1
    <3>1. CASE j = i
      <4>1. i \in Nat /\ sent \in Nat /\ ChunkSize \in Nat
        BY ClientFacts
      <4>2. ~(i <= sent) /\ ~(i > sent + ChunkSize)
        BY <1>3, <4>1
      <4> QED
        BY <3>1, <4>2, <1>2
    <3>2. CASE j # i
      BY <3>2, <1>2 DEF ClientInv, ChunkInv
    <3> QED
      BY <3>1, <3>2
  <2> QED
    BY <1>1, <2>1, <2>2, <2>3, <2>4 DEF ChunkInv
<1>7. ResultInv'
  <2>1. ~returned' /\ sent' = sent /\ results' = results /\ ~(i <= sent)
    BY <1>1, <1>3, ClientFacts
  <2>2. \A j \in Requests : results[j] = IF j <= sent /\ status[j] = "done" THEN j ELSE NoResponse
    BY <1>3 DEF ClientInv, ResultInv
  <2>3. \A j \in Requests :
          results'[j] = IF (j <= sent' \/ returned') /\ status'[j] = "done" THEN j ELSE NoResponse
    <3> SUFFICES ASSUME NEW j \in Requests
                 PROVE  results'[j] = IF j <= sent /\ status'[j] = "done" THEN j ELSE NoResponse
      BY <2>1
    <3>1. j <= sent => status'[j] = status[j]
      BY <1>2, <2>1
    <3> QED
      BY <2>1, <2>2, <3>1
  <2> QED
    BY <2>1, <2>3 DEF ResultInv
<1>8. TimeInv'
  <2>1. Elapsed(sent)' = Elapsed(sent)
    BY <1>1 DEF Elapsed
  <2>2. clock' = clock /\ due' = due /\ attempt' = attempt
    BY <1>1
  <2>3. \A j \in Requests : CallTime(attempt[j])' = CallTime(attempt[j]) /\ CallTime(attempt[j] - 1)' = CallTime(attempt[j] - 1)
    BY <2>2 DEF CallTime
  <2>4. \A j \in Requests : j # i => status'[j] = status[j]
    BY <1>2
  <2>5. status'[i] # "calling" /\ status'[i] # "sleeping"
    BY <1>2
  <2> QED
    BY <2>1, <2>2, <2>3, <2>4, <2>5 DEF ClientInv, TimeInv, Running
<1> QED
  BY <1>5, <1>6, <1>7, <1>8 DEF ClientInv

\* A goroutine's step that leaves its Call running, in state x at attempt a until d.
LEMMA StillRunning ==
    ASSUME ClientInv, NEW i \in Requests, Running(i),
           NEW x \in {"calling", "sleeping"}, NEW a \in 1 .. Len(Backoffs), NEW d \in Nat,
           clock <= d,
           x = "calling" => d <= Elapsed(sent) + CallTime(a - 1) + RequestTimeout,
           x = "sleeping" => d <= Elapsed(sent) + CallTime(a),
           status' = [status EXCEPT ![i] = x],
           attempt' = [attempt EXCEPT ![i] = a],
           due' = [due EXCEPT ![i] = d],
           UNCHANGED <<clock, sent, responses, results, returned>>
    PROVE  ClientInv'
<1>1. i \in Chunk(sent)
  BY ClientFacts
<1>2. /\ status'[i] = x /\ attempt'[i] = a /\ due'[i] = d
      /\ \A j \in Requests : j # i => status'[j] = status[j] /\ attempt'[j] = attempt[j] /\ due'[j] = due[j]
  BY <1>1 DEF ClientInv, TypeOK
<1>3. i > sent /\ i <= sent + ChunkSize /\ ~returned
  BY <1>1, ClientFacts DEF ClientInv, ResultInv, WaitGroupDone, Chunk
<1>4. TypeOK'
  BY DEF ClientInv, TypeOK, Chunk
<1>5. ChunkInv'
  <2>1. Chunk(sent)' = Chunk(sent) /\ sent' = sent /\ responses' = responses
    BY <1>1 DEF Chunk
  <2>2. (responses = {j \in Chunk(sent) : status[j] = "done"})'
    <3>1. responses = {j \in Chunk(sent) : status[j] = "done"}
      BY DEF ClientInv, ChunkInv
    <3>2. status[i] # "done" /\ status'[i] # "done"
      BY <1>2 DEF Running
    <3>3. \A j \in Chunk(sent) : j \in Requests
      BY DEF Chunk
    <3> QED
      BY <1>2, <2>1, <3>1, <3>2, <3>3
  <2>3. ASSUME NEW j \in Requests
        PROVE  /\ j <= sent => status'[j] \in {"done", "failed"}
               /\ j \in Chunk(sent) => status'[j] # "idle"
               /\ j > sent + ChunkSize => status'[j] = "idle"
               /\ status'[j] = "idle" => attempt'[j] = 1
    <3>1. CASE j = i
      <4>1. i \in Nat /\ sent \in Nat /\ ChunkSize \in Nat
        BY ClientFacts
      <4>2. ~(i <= sent) /\ ~(i > sent + ChunkSize)
        BY <1>3, <4>1
      <4> QED
        BY <3>1, <4>2, <1>2
    <3>2. CASE j # i
      BY <3>2, <1>2 DEF ClientInv, ChunkInv
    <3> QED
      BY <3>1, <3>2
  <2> QED
    BY <2>1, <2>2, <2>3 DEF ChunkInv
<1>6. ResultInv'
  <2>1. ~returned' /\ sent' = sent /\ results' = results /\ ~(i <= sent)
    BY <1>1, <1>3, ClientFacts
  <2>2. \A j \in Requests : results[j] = IF j <= sent /\ status[j] = "done" THEN j ELSE NoResponse
    BY <1>3 DEF ClientInv, ResultInv
  <2>3. \A j \in Requests :
          results'[j] = IF (j <= sent' \/ returned') /\ status'[j] = "done" THEN j ELSE NoResponse
    <3> SUFFICES ASSUME NEW j \in Requests
                 PROVE  results'[j] = IF j <= sent /\ status'[j] = "done" THEN j ELSE NoResponse
      BY <2>1
    <3>1. j <= sent => status'[j] = status[j]
      BY <1>2, <2>1
    <3> QED
      BY <2>1, <2>2, <3>1
  <2> QED
    BY <2>1, <2>3 DEF ResultInv
<1>7. TimeInv'
  <2>1. Elapsed(sent)' = Elapsed(sent) /\ clock' = clock
    BY <1>1 DEF Elapsed
  <2>2. ASSUME NEW j \in Requests
        PROVE  /\ status'[j] \in {"calling", "sleeping"} => clock <= due'[j]
               /\ status'[j] = "calling" => due'[j] <= Elapsed(sent) + CallTime(attempt'[j] - 1) + RequestTimeout
               /\ status'[j] = "sleeping" => due'[j] <= Elapsed(sent) + CallTime(attempt'[j])
    <3>1. CASE j = i
      BY <3>1, <1>2
    <3>2. CASE j # i
      BY <3>2, <1>2 DEF ClientInv, TimeInv, Running
    <3> QED
      BY <3>1, <3>2
  <2>3. clock <= Elapsed(sent) + MaxCallTime
    BY DEF ClientInv, TimeInv
  <2>4. \A j \in Requests : CallTime(attempt[j])' = CallTime(attempt'[j]) /\ CallTime(attempt[j] - 1)' = CallTime(attempt'[j] - 1)
    BY DEF CallTime
  <2> QED
    BY <2>1, <2>2, <2>3, <2>4 DEF TimeInv, Running
<1> QED
  BY <1>4, <1>5, <1>6, <1>7 DEF ClientInv

\* ClientInv when an attempt fails or times out.
LEMMA FailStep ==
    ASSUME ClientInv, NEW i \in Requests, CallFails(i)
    PROVE  ClientInv'
<1> DEFINE d == clock + Backoffs[attempt[i]]
<1>1. attempt[i] \in 1 .. Len(Backoffs) /\ Backoffs[attempt[i]] \in Nat /\ clock \in Nat /\ due[i] \in Nat
  BY ClientFacts
<1>2. clock <= due[i] /\ due[i] <= Elapsed(sent) + CallTime(attempt[i] - 1) + RequestTimeout
  BY DEF CallFails, ClientInv, TimeInv, Running
<1>3. /\ CallTime(attempt[i]) = CallTime(attempt[i] - 1) + RequestTimeout + Backoffs[attempt[i]]
      /\ CallTime(attempt[i] - 1) \in Nat /\ RequestTimeout \in Nat /\ Elapsed(sent) \in Nat
  BY ClientFacts
<1>4. d \in Nat /\ clock <= d /\ d <= Elapsed(sent) + CallTime(attempt[i])
  <2>1. d \in Nat /\ clock <= d
    BY <1>1
  <2>2. ASSUME NEW c \in Nat, NEW u \in Nat, NEW e \in Nat, NEW p \in Nat, NEW r \in Nat, NEW b \in Nat,
               c <= u, u <= e + p + r
        PROVE  c + b <= e + (p + r + b)
    BY <2>2
  <2>3. d <= Elapsed(sent) + (CallTime(attempt[i] - 1) + RequestTimeout + Backoffs[attempt[i]])
    BY <1>1, <1>2, <1>3, <2>2
  <2> QED
    BY <1>3, <2>1, <2>3
<1>5. attempt' = [attempt EXCEPT ![i] = attempt[i]]
  BY DEF CallFails, ClientInv, TypeOK
<1>6. /\ Running(i)
      /\ status' = [status EXCEPT ![i] = "sleeping"] /\ due' = [due EXCEPT ![i] = d]
      /\ UNCHANGED <<clock, sent, responses, results, returned>>
  BY DEF CallFails, Running
<1> HIDE DEF d
<1> QED
  BY <1>1, <1>4, <1>5, <1>6, StillRunning

\* ClientInv when a sleep ends and the next attempt begins.
LEMMA RetryStep ==
    ASSUME ClientInv, NEW i \in Requests, Retry(i)
    PROVE  ClientInv'
<1> DEFINE a == attempt[i] + 1
<1>1. a \in 1 .. Len(Backoffs) /\ a - 1 = attempt[i]
  <2>1. attempt[i] \in 1 .. Len(Backoffs) /\ Len(Backoffs) \in Nat /\ attempt[i] < Len(Backoffs)
    BY ClientFacts, ClientAssumption DEF Retry
  <2> QED
    BY <2>1
<1>2. clock <= due[i] /\ due[i] <= Elapsed(sent) + CallTime(attempt[i])
  BY DEF Retry, ClientInv, TimeInv, Running
<1>3. /\ CallTime(attempt[i]) \in Nat /\ RequestTimeout \in Nat /\ Elapsed(sent) \in Nat
      /\ clock \in Nat /\ due[i] \in Nat
  BY ClientFacts
<1>4. Allowed \in Nat /\ clock <= Allowed /\ Allowed <= clock + RequestTimeout
  BY <1>3, AllowedBounds
<1>5. Allowed <= Elapsed(sent) + CallTime(attempt[i]) + RequestTimeout
  BY <1>2, <1>3, <1>4
<1>6. Allowed <= Elapsed(sent) + CallTime(a - 1) + RequestTimeout
  BY <1>1, <1>5
<1>7. /\ Running(i)
      /\ status' = [status EXCEPT ![i] = "calling"] /\ due' = [due EXCEPT ![i] = Allowed]
      /\ attempt' = [attempt EXCEPT ![i] = a]
      /\ UNCHANGED <<clock, sent, responses, results, returned>>
  BY DEF Retry, Running, Calling, Allowed
<1> HIDE DEF a
<1> QED
  BY <1>1, <1>4, <1>6, <1>7, StillRunning

\* A second passes: no running goroutine is past its time, so the clock is not
\* past the time of the chunk.
LEMMA SecondStep ==
    ASSUME ClientInv, Second
    PROVE  ClientInv'
<1> USE DEF Second
<1>1. TypeOK'
  BY DEF ClientInv, TypeOK, Chunk
<1>2. ChunkInv'
  BY DEF ClientInv, ChunkInv, Chunk
<1>3. ResultInv'
  BY DEF ClientInv, ResultInv
<1>4. TimeInv'
  <2>1. Elapsed(sent)' = Elapsed(sent) /\ clock' = clock + 1 /\ due' = due /\ attempt' = attempt /\ status' = status
    BY DEF Elapsed
  <2>2. \A j \in Requests : Running(j) => clock + 1 <= due[j]
    <3>1. clock \in Nat /\ \A j \in Requests : due[j] \in Nat
      BY ClientFacts
    <3> QED
      BY <3>1
  <2>3. clock + 1 <= Elapsed(sent) + MaxCallTime
    <3>1. PICK i \in Requests : Running(i)
      OBVIOUS
    <3>2. /\ clock \in Nat /\ due[i] \in Nat /\ Elapsed(sent) \in Nat /\ MaxCallTime \in Nat
          /\ CallTime(attempt[i]) \in Nat /\ CallTime(attempt[i] - 1) \in Nat
          /\ CallTime(attempt[i]) <= MaxCallTime /\ Backoffs[attempt[i]] \in Nat
          /\ RequestTimeout \in Nat
      BY ClientFacts
    <3>3. CallTime(attempt[i] - 1) + RequestTimeout <= CallTime(attempt[i])
      <4>1. CallTime(attempt[i]) = CallTime(attempt[i] - 1) + RequestTimeout + Backoffs[attempt[i]]
        BY ClientFacts
      <4> QED
        BY <3>2, <4>1
    <3>4. due[i] <= Elapsed(sent) + CallTime(attempt[i])
      <4>1. CASE status[i] = "calling"
        <5>1. due[i] <= Elapsed(sent) + CallTime(attempt[i] - 1) + RequestTimeout
          BY <4>1 DEF ClientInv, TimeInv
        <5> QED
          BY <3>2, <3>3, <5>1
      <4>2. CASE status[i] = "sleeping"
        BY <4>2 DEF ClientInv, TimeInv
      <4> QED
        BY <3>1, <4>1, <4>2 DEF Running
    <3>5. clock + 1 <= due[i]
      BY <3>1, <2>2
    <3> QED
      BY <3>2, <3>4, <3>5
  <2>4. \A j \in Requests : CallTime(attempt[j])' = CallTime(attempt[j]) /\ CallTime(attempt[j] - 1)' = CallTime(attempt[j] - 1)
    BY <2>1 DEF CallTime
  <2>5. \A j \in Requests :
          /\ status[j] = "calling" => due[j] <= Elapsed(sent) + CallTime(attempt[j] - 1) + RequestTimeout
          /\ status[j] = "sleeping" => due[j] <= Elapsed(sent) + CallTime(attempt[j])
    BY DEF ClientInv, TimeInv
  <2> QED
    BY <2>1, <2>2, <2>3, <2>4, <2>5 DEF TimeInv, Running
<1> QED
  BY <1>1, <1>2, <1>3, <1>4 DEF ClientInv

\* The results after a chunk has been collected.
LEMMA CollectedResults ==
    ASSUME ClientInv, ~returned, WaitGroupDone, NEW i \in Requests
    PROVE  Collected[i] = IF i <= sent + ChunkSize /\ status[i] = "done" THEN i ELSE NoResponse
<1>1. i \in Nat /\ sent \in Nat /\ ChunkSize \in Nat
  BY ClientFacts
<1>2. results[i] = IF i <= sent /\ status[i] = "done" THEN i ELSE NoResponse
  BY DEF ClientInv, ResultInv
<1>3. i \in responses <=> i \in Chunk(sent) /\ status[i] = "done"
  BY DEF ClientInv, ChunkInv
<1>4. i \in Chunk(sent) <=> sent < i /\ i <= sent + ChunkSize
  BY DEF Chunk
<1> QED
  BY <1>1, <1>2, <1>3, <1>4 DEF Collected

\* ClientInv when BatchCall returns.
LEMMA ReturnStep ==
    ASSUME ClientInv, Return
    PROVE  ClientInv'
<1> USE DEF Return
<1>1. \A i \in Requests : Collected[i] = IF i <= sent + ChunkSize /\ status[i] = "done" THEN i ELSE NoResponse
  BY CollectedResults
<1>2. \A i \in Requests : i <= sent + ChunkSize
  BY ClientFacts DEF Requests
<1>3. TypeOK'
  <2>1. results' \in [Requests -> Requests \cup {NoResponse}]
    BY DEF Collected, ClientInv, TypeOK
  <2> QED
    BY <2>1 DEF ClientInv, TypeOK, Chunk
<1>4. ChunkInv'
  BY DEF ClientInv, ChunkInv, Chunk
<1>5. ResultInv'
  <2>1. returned' /\ sent' = sent /\ status' = status
    OBVIOUS
  <2>2. \A i \in Requests : results'[i] = IF status[i] = "done" THEN i ELSE NoResponse
    BY <1>1, <1>2
  <2>3. WaitGroupDone' /\ sent' + ChunkSize >= N
    BY DEF WaitGroupDone, Chunk, Running
  <2> QED
    BY <2>1, <2>2, <2>3 DEF ResultInv
<1>6. TimeInv'
  BY DEF ClientInv, TimeInv, Running, Elapsed, CallTime
<1> QED
  BY <1>3, <1>4, <1>5, <1>6 DEF ClientInv

\* The next chunk starts after the last has been collected, when the clock has
\* not passed the time of the chunks so far.
LEMMA NextChunkStep ==
    ASSUME ClientInv, NextChunk
    PROVE  ClientInv'
<1> DEFINE s == sent + ChunkSize
<1>1. /\ ~returned /\ WaitGroupDone /\ s < N /\ results' = Collected /\ responses' = {} /\ sent' = s
      /\ status' = [i \in Requests |-> IF i \in Chunk(s) THEN "calling" ELSE status[i]]
      /\ due' = [i \in Requests |-> IF i \in Chunk(s) THEN Allowed ELSE due[i]]
      /\ UNCHANGED <<clock, attempt, returned>>
  BY DEF NextChunk, Allowed, Chunk
<1>2. /\ s \in Nat /\ s > sent /\ N \in Nat /\ ChunkSize \in Nat /\ ChunkSize > 0 /\ sent \in Nat
      /\ clock \in Nat /\ RequestTimeout \in Nat
      /\ \A i \in Requests : i \in Nat
  BY ClientFacts
<1>3. Elapsed(s) = Elapsed(sent) + MaxCallTime /\ Elapsed(s) \in Nat /\ MaxCallTime \in Nat
  BY <1>2, ElapsedFacts, CallTimeFacts
<1>4. Allowed \in Nat /\ clock <= Allowed /\ Allowed <= clock + RequestTimeout
  BY <1>2, AllowedBounds
<1>5. ASSUME NEW i \in Requests
      PROVE  /\ i \in Chunk(s) <=> s < i /\ i <= s + ChunkSize
             /\ i \in Chunk(sent) <=> sent < i /\ i <= s
  BY DEF Chunk
<1>6. ASSUME NEW i \in Requests, i \in Chunk(s)
      PROVE  status[i] = "idle" /\ attempt[i] = 1 /\ status'[i] = "calling" /\ due'[i] = Allowed
  <2>1. i > sent + ChunkSize
    BY <1>2, <1>5, <1>6
  <2> QED
    BY <1>1, <1>6, <2>1 DEF ClientInv, ChunkInv
<1>7. ASSUME NEW i \in Requests, i <= s
      PROVE  status[i] \in {"done", "failed"} /\ status'[i] = status[i]
  <2>1. i \notin Chunk(s)
    BY <1>2, <1>5, <1>7
  <2>2. status'[i] = status[i]
    BY <1>1, <2>1
  <2>3. CASE i <= sent
    BY <2>2, <2>3 DEF ClientInv, ChunkInv
  <2>4. CASE ~(i <= sent)
    <3>1. i \in Chunk(sent)
      BY <1>2, <1>5, <1>7, <2>4
    <3>2. status[i] # "idle" /\ ~Running(i)
      BY <1>1, <3>1 DEF ClientInv, ChunkInv, WaitGroupDone
    <3>3. status[i] \in {"idle", "calling", "sleeping", "done", "failed"}
      BY DEF ClientInv, TypeOK
    <3> QED
      BY <2>2, <3>2, <3>3 DEF Running
  <2> QED
    BY <2>3, <2>4
<1>8. ASSUME NEW i \in Requests, i > s, i \notin Chunk(s)
      PROVE  status[i] = "idle" /\ attempt[i] = 1 /\ status'[i] = "idle"
  BY <1>1, <1>8 DEF ClientInv, ChunkInv
<1> HIDE DEF s
<1>9. TypeOK'
  <2>1. results' \in [Requests -> Requests \cup {NoResponse}]
    BY <1>1 DEF Collected, ClientInv, TypeOK
  <2>2. sent' \in 0 .. N - 1
    BY <1>1, <1>2
  <2>3. status' \in [Requests -> {"idle", "calling", "sleeping", "done", "failed"}]
    BY <1>1 DEF ClientInv, TypeOK
  <2>4. due' \in [Requests -> Nat]
    BY <1>1, <1>4 DEF ClientInv, TypeOK
  <2>5. clock' \in Nat /\ attempt' \in [Requests -> 1 .. Len(Backoffs)]
    BY <1>1 DEF ClientInv, TypeOK
  <2>6. returned' \in BOOLEAN
    BY <1>1 DEF ClientInv, TypeOK
  <2>7. (responses \subseteq Chunk(sent))'
    BY <1>1
  <2> QED
    BY <2>1, <2>2, <2>3, <2>4, <2>5, <2>6, <2>7 DEF TypeOK
<1>10. ChunkInv'
  <2>1. Chunk(sent)' = Chunk(s)
    BY <1>1 DEF Chunk
  <2>2. ASSUME NEW i \in Requests
        PROVE  /\ i <= s => status'[i] \in {"done", "failed"}
               /\ i \in Chunk(s) => status'[i] # "idle"
               /\ i > s + ChunkSize => status'[i] = "idle"
               /\ status'[i] = "idle" => attempt[i] = 1
    <3>1. CASE i <= s
      <4>1. i \notin Chunk(s) /\ ~(i > s + ChunkSize)
        BY <1>2, <1>5, <3>1
      <4> QED
        BY <1>7, <3>1, <4>1
    <3>2. CASE i \in Chunk(s)
      <4>1. ~(i <= s) /\ ~(i > s + ChunkSize)
        BY <1>2, <1>5, <3>2
      <4> QED
        BY <1>6, <3>2, <4>1
    <3>3. CASE ~(i <= s) /\ i \notin Chunk(s)
      <4>1. i > s
        BY <1>2, <3>3
      <4> QED
        BY <1>8, <3>3, <4>1
    <3> QED
      BY <3>1, <3>2, <3>3
  <2>3. \A i \in Chunk(s) : status'[i] # "done"
    BY <1>6 DEF Chunk
  <2> QED
    BY <1>1, <2>1, <2>2, <2>3 DEF ChunkInv
<1>11. ResultInv'
  <2>1. ~returned' /\ sent' = s
    BY <1>1
  <2>2. ASSUME NEW i \in Requests
        PROVE  results'[i] = IF i <= s /\ status'[i] = "done" THEN i ELSE NoResponse
    <3>1. results'[i] = IF i <= s /\ status[i] = "done" THEN i ELSE NoResponse
      BY <1>1, CollectedResults DEF s
    <3> QED
      BY <1>7, <3>1
  <2> QED
    BY <2>1, <2>2 DEF ResultInv
<1>12. TimeInv'
  <2>1. Elapsed(sent)' = Elapsed(s) /\ clock' = clock /\ attempt' = attempt
    BY <1>1 DEF Elapsed
  <2>2. clock <= Elapsed(s)
    BY <1>3 DEF ClientInv, TimeInv
  <2>3. clock <= Elapsed(s) + MaxCallTime
    BY <1>2, <1>3, <2>2
  <2>4. ASSUME NEW i \in Requests, status'[i] \in {"calling", "sleeping"}
        PROVE  /\ clock <= due'[i]
               /\ status'[i] = "calling" /\ due'[i] <= Elapsed(s) + CallTime(attempt[i] - 1) + RequestTimeout
    <3>1. i \in Chunk(s)
      <4>1. ~(i <= s)
        BY <1>7, <2>4
      <4>2. i > s
        BY <1>2, <4>1
      <4> QED
        BY <1>8, <2>4, <4>2
    <3>2. attempt[i] = 1 /\ status'[i] = "calling" /\ due'[i] = Allowed
      BY <1>6, <3>1
    <3>3. attempt[i] - 1 = 0 /\ CallTime(0) = 0
      BY <3>2, CallTimeFacts
    <3>4. CallTime(attempt[i] - 1) = 0
      BY <3>3
    <3>5. Allowed <= Elapsed(s) + RequestTimeout
      BY <1>2, <1>3, <1>4, <2>2
    <3> QED
      BY <1>2, <1>3, <1>4, <3>2, <3>4, <3>5
  <2>5. \A j \in Requests : CallTime(attempt[j] - 1)' = CallTime(attempt[j] - 1)
    BY <2>1 DEF CallTime
  <2> QED
    BY <2>1, <2>3, <2>4, <2>5 DEF TimeInv, Running
<1> QED
  BY <1>9, <1>10, <1>11, <1>12 DEF ClientInv

\* ClientInv depends on the variables only.
LEMMA ClientStutter ==
    ASSUME ClientInv, UNCHANGED vars
    PROVE  ClientInv'
<1> USE DEF vars
<1>1. TypeOK'
  BY DEF ClientInv, TypeOK, Chunk
<1>2. ChunkInv'
  BY DEF ClientInv, ChunkInv, Chunk
<1>3. ResultInv'
  BY DEF ClientInv, ResultInv, WaitGroupDone, Chunk, Running
<1>4. TimeInv'
  BY DEF ClientInv, TimeInv, Running, Elapsed, CallTime
<1> QED
  BY <1>1, <1>2, <1>3, <1>4 DEF ClientInv

\* ClientInv through every step.
LEMMA ClientStep ==
    ClientInv /\ [Next]_vars => ClientInv'
<1> SUFFICES ASSUME ClientInv, [Next]_vars PROVE ClientInv'
  OBVIOUS
<1>1. ASSUME NEW i \in Requests, Goroutine(i) PROVE ClientInv'
  BY <1>1, EndStep, FailStep, RetryStep DEF Goroutine
<1>2. CASE NextChunk
  BY <1>2, NextChunkStep
<1>3. CASE Return
  BY <1>3, ReturnStep
<1>4. CASE Second
  BY <1>4, SecondStep
<1>5. CASE UNCHANGED vars
  BY <1>5, ClientStutter
<1> QED
  BY <1>1, <1>2, <1>3, <1>4, <1>5 DEF Next

-----------------------------------------------------------------------------
(* Theorems *)

\* BatchCall keeps its state well typed: an attempt always has a backoff in the
\* list of Call, so the loop of client.go:619 never indexes past it, and the
\* channel of a chunk holds answers of that chunk only.
THEOREM ClientTypeCorrect ==
    Spec => []TypeOK
<1>1. ClientInv => TypeOK
  BY DEF ClientInv
<1> QED
  BY <1>1, ClientInit, ClientStep, PTL DEF Spec

\* Whatever the order in which the goroutines of a chunk end, the answer at a
\* request's place in the results is the answer to that request (client.go:544).
THEOREM AnswersAtTheirPlace ==
    Spec => []ResultsInOrder
<1>1. ClientInv => ResultsInOrder
  BY DEF ClientInv, ResultInv, ResultsInOrder
<1> QED
  BY <1>1, ClientInit, ClientStep, PTL DEF Spec

\* There are never more than ChunkSize requests in flight: every goroutine that
\* runs belongs to the current chunk (client.go:504).
THEOREM AtMostAChunkInFlight ==
    Spec => []InFlightBounded
<1>1. ClientInv => InFlightBounded
  <2> SUFFICES ASSUME ClientInv PROVE InFlightBounded
    OBVIOUS
  <2>1. {i \in Requests : Running(i)} \subseteq Chunk(sent) /\ sent \in Nat
    BY ClientFacts
  <2>2. IsFiniteSet(Chunk(sent)) /\ Cardinality(Chunk(sent)) <= ChunkSize
    BY <2>1, ChunkFinite
  <2>3. /\ IsFiniteSet({i \in Requests : Running(i)})
        /\ Cardinality({i \in Requests : Running(i)}) <= Cardinality(Chunk(sent))
    BY <2>1, <2>2, FS_Subset
  <2>4. /\ Cardinality({i \in Requests : Running(i)}) \in Nat /\ Cardinality(Chunk(sent)) \in Nat
        /\ ChunkSize \in Nat
    BY <2>2, <2>3, FS_CardinalityType, ClientAssumption
  <2> QED
    BY <2>2, <2>3, <2>4 DEF InFlightBounded
<1> QED
  BY <1>1, ClientInit, ClientStep, PTL DEF Spec

\* When BatchCall has returned, a nil result stands for a Call that used up all
\* its retries, and for nothing else: no answer is lost on the way from the
\* channel to the results (client.go:538, 621).
THEOREM NoAnswerLost ==
    Spec => []NilMeansExhausted
<1>1. ClientInv => NilMeansExhausted
  <2> SUFFICES ASSUME ClientInv, returned, NEW i \in Requests
               PROVE  results[i] = NoResponse <=> status[i] = "failed"
    BY DEF NilMeansExhausted
  <2>1. i \in Nat /\ sent \in Nat /\ ChunkSize \in Nat /\ N \in Nat /\ i <= N
    BY ClientFacts DEF Requests
  <2>2. WaitGroupDone /\ sent + ChunkSize >= N
    BY DEF ClientInv, ResultInv
  <2>3. results[i] = IF status[i] = "done" THEN i ELSE NoResponse
    BY DEF ClientInv, ResultInv
  <2>4. status[i] \in {"done", "failed"}
    <3>1. CASE i <= sent
      BY <3>1 DEF ClientInv, ChunkInv
    <3>2. CASE i \in Chunk(sent)
      <4>1. status[i] # "idle" /\ ~Running(i)
        BY <3>2, <2>2 DEF ClientInv, ChunkInv, WaitGroupDone
      <4>2. status[i] \in {"idle", "calling", "sleeping", "done", "failed"}
        BY DEF ClientInv, TypeOK
      <4> QED
        BY <4>1, <4>2 DEF Running
    <3> QED
      BY <2>1, <2>2, <3>1, <3>2 DEF Chunk
  <2>5. i # NoResponse
    BY ClientAssumption DEF Requests
  <2> QED
    BY <2>3, <2>4, <2>5
<1> QED
  BY <1>1, ClientInit, ClientStep, PTL DEF Spec

\* The clock never passes the time that the chunks so far take when every
\* attempt of every Call times out (client.go:569, 618): the retries and their
\* sleeps, and nothing else, bound how long BatchCall takes.
THEOREM BatchCallTime ==
    Spec => []DurationBounded
<1>1. ClientInv => DurationBounded
  <2> SUFFICES ASSUME ClientInv PROVE DurationBounded
    OBVIOUS
  <2>1. clock <= Elapsed(sent) + MaxCallTime
    BY DEF ClientInv, TimeInv
  <2>2. (sent \div ChunkSize + 1) * MaxCallTime = Elapsed(sent) + MaxCallTime
    <3>1. sent \in Nat
      BY ClientFacts
    <3> QED
      BY <3>1, ElapsedFacts
  <2> QED
    BY <2>1, <2>2 DEF DurationBounded
<1> QED
  BY <1>1, ClientInit, ClientStep, PTL DEF Spec

=============================================================================
