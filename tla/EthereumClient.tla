--------------------------- MODULE EthereumClient ---------------------------
(***************************************************************************)
(* The request path of EthereumClient (clients/ethereum/client.go): Call,  *)
(* which retries one request with a fixed list of backoffs, and BatchCall, *)
(* which sends many requests in chunks, one goroutine and one Call each.   *)
(*                                                                         *)
(* Time is counted in seconds.  A response is named by the request it      *)
(* answers; what is inside it does not matter here.                        *)
(***************************************************************************)
EXTENDS Integers, Sequences, FiniteSets

CONSTANTS
    N,               \* the number of requests, numbered from 1
    ChunkSize,       \* ChunkedBatchCallSize
    Backoffs,        \* the backoffs of Call, in seconds
    RequestTimeout,  \* the timeout "call" gives each attempt
    Deadline,        \* the time at which the caller's context expires
    NoResponse       \* a nil *RPCResponse

ASSUME ClientAssumption ==
    /\ N \in Nat \ {0} /\ ChunkSize \in Nat \ {0}
    /\ Backoffs \in Seq(Nat) /\ Backoffs # <<>>
    /\ RequestTimeout \in Nat /\ Deadline \in Nat
    /\ NoResponse \notin 1 .. N

VARIABLES
    clock,      \* seconds since BatchCall was entered
    sent,       \* currentIndex: the requests before it belong to earlier chunks
    status,     \* request -> what its goroutine is doing
    attempt,    \* request -> the attempt it is at, from 1
    due,        \* request -> when its attempt times out or its sleep ends
    responses,  \* the channel of the current chunk: the requests answered in it
    results,    \* orderedRequestResponses: request -> response
    returned    \* has BatchCall returned?

vars == <<clock, sent, status, attempt, due, responses, results, returned>>

Requests == 1 .. N

Chunk(from) == {i \in Requests : from < i /\ i <= from + ChunkSize}

Running(i) == status[i] \in {"calling", "sleeping"}

Expired == clock >= Deadline

Earlier(a, b) == IF a < b THEN a ELSE b

\* Mutant: an attempt has the caller's deadline only.
CallingUntilDeadline(i) ==
    /\ status' = [status EXCEPT ![i] = "calling"]
    /\ due' = [due EXCEPT ![i] = IF Expired THEN clock ELSE Deadline]

\* An attempt begins.  Its context is the caller's with RequestTimeout on top.
Calling(i) ==
    /\ status' = [status EXCEPT ![i] = "calling"]
    /\ due' = [due EXCEPT ![i] = Earlier(clock + RequestTimeout, IF Expired THEN clock ELSE Deadline)]

-----------------------------------------------------------------------------
\* The goroutines of the first chunk have been started.
Init ==
    /\ clock = 0
    /\ sent = 0
    /\ status = [i \in Requests |-> IF i \in Chunk(0) THEN "calling" ELSE "idle"]
    /\ attempt = [i \in Requests |-> 1]
    /\ due = [i \in Requests |-> IF i \in Chunk(0) THEN Earlier(RequestTimeout, Deadline) ELSE 0]
    /\ responses = {}
    /\ results = [i \in Requests |-> NoResponse]
    /\ returned = FALSE

\* The endpoint answers; an expired context lets no answer through.
CallSucceeds(i) ==
    /\ status[i] = "calling" /\ ~Expired
    /\ status' = [status EXCEPT ![i] = "done"]
    /\ responses' = responses \cup {i}
    /\ UNCHANGED <<clock, sent, attempt, due, results, returned>>

\* The attempt fails (transport, HTTP status, JSON, an RPC error, a timeout):
\* the goroutine sleeps, whatever has become of its context and also after the
\* last attempt.
CallFails(i) ==
    /\ status[i] = "calling"
    /\ status' = [status EXCEPT ![i] = "sleeping"]
    /\ due' = [due EXCEPT ![i] = clock + Backoffs[attempt[i]]]
    /\ UNCHANGED <<clock, sent, attempt, responses, results, returned>>

\* Mutant: one attempt too many.
RetryOnceMore(i) ==
    /\ status[i] = "sleeping" /\ clock >= due[i]
    /\ attempt[i] <= Len(Backoffs)
    /\ attempt' = [attempt EXCEPT ![i] = @ + 1]
    /\ Calling(i)
    /\ UNCHANGED <<clock, sent, responses, results, returned>>

Retry(i) ==
    /\ status[i] = "sleeping" /\ clock >= due[i]
    /\ attempt[i] < Len(Backoffs)
    /\ attempt' = [attempt EXCEPT ![i] = @ + 1]
    /\ Calling(i)
    /\ UNCHANGED <<clock, sent, responses, results, returned>>

\* Mutant: the wait group is not counted down on failure.
GiveUpWithoutDone(i) ==
    /\ status[i] = "sleeping" /\ clock >= due[i]
    /\ attempt[i] = Len(Backoffs)
    /\ UNCHANGED vars

\* "exceeded retries for Call": the goroutine logs it and sends nothing.
GiveUp(i) ==
    /\ status[i] = "sleeping" /\ clock >= due[i]
    /\ attempt[i] = Len(Backoffs)
    /\ status' = [status EXCEPT ![i] = "failed"]
    /\ UNCHANGED <<clock, sent, attempt, due, responses, results, returned>>

\* Mutant: the first goroutine to finish ends the wait.
WaitGroupDoneByOne == \E i \in Chunk(sent) : ~Running(i)

WaitGroupDone == \A i \in Chunk(sent) : ~Running(i)

\* Mutant: the responses are put one after the other as they come.
CollectedPacked ==
    [i \in Requests |->
       IF \E r \in responses : Cardinality({s \in responses : s <= r}) = i - sent
         THEN CHOOSE r \in responses : Cardinality({s \in responses : s <= r}) = i - sent
         ELSE results[i]]

\* wg.Wait has returned: the responses go to their places by their index.
Collected ==
    [i \in Requests |-> IF i \in responses THEN i ELSE results[i]]

\* The next chunk is sent after the last one is complete.
NextChunk ==
    /\ ~returned /\ WaitGroupDone
    /\ sent + ChunkSize < N
    /\ results' = Collected
    /\ responses' = {}
    /\ sent' = sent + ChunkSize
    /\ status' = [i \in Requests |-> IF i \in Chunk(sent') THEN "calling" ELSE status[i]]
    /\ due' = [i \in Requests |->
                 IF i \in Chunk(sent')
                   THEN Earlier(clock + RequestTimeout, IF Expired THEN clock ELSE Deadline)
                   ELSE due[i]]
    /\ UNCHANGED <<clock, attempt, returned>>

\* allResults has one entry per request, nil where a Call failed, so its length
\* is that of the requests and the error of client.go:555 is never returned.
Return ==
    /\ ~returned /\ WaitGroupDone
    /\ sent + ChunkSize >= N
    /\ results' = Collected
    /\ returned' = TRUE
    /\ UNCHANGED <<clock, sent, status, attempt, due, responses>>

\* A second passes.  No attempt outlasts its timeout, no sleep its backoff.
Second ==
    /\ ~returned
    /\ \E i \in Requests : Running(i)
    /\ \A i \in Requests : Running(i) => clock < due[i]
    /\ clock' = clock + 1
    /\ UNCHANGED <<sent, status, attempt, due, responses, results, returned>>

Goroutine(i) == CallSucceeds(i) \/ CallFails(i) \/ Retry(i) \/ GiveUp(i)

Next == (\E i \in Requests : Goroutine(i)) \/ NextChunk \/ Return \/ Second

Spec == Init /\ [][Next]_vars

\* Time passes and the scheduler runs what can run.
FairSpec == Spec /\ WF_vars(Next)

-----------------------------------------------------------------------------
(* Properties *)

\* Every variable keeps its type: an attempt has a backoff in the list of Call
\* (client.go:619), and a chunk's channel holds answers of that chunk only.
TypeOK ==
    /\ clock \in Nat
    /\ sent \in 0 .. N - 1
    /\ status \in [Requests -> {"idle", "calling", "sleeping", "done", "failed"}]
    /\ attempt \in [Requests -> 1 .. Len(Backoffs)]
    /\ due \in [Requests -> Nat]
    /\ responses \subseteq Chunk(sent)
    /\ results \in [Requests -> Requests \cup {NoResponse}]
    /\ returned \in BOOLEAN

\* The result at a request's place is the answer to that request or nil, in
\* whatever order the goroutines of a chunk finish (client.go:544).
ResultsInOrder ==
    \A i \in Requests : results[i] \in {i, NoResponse}

\* No more than ChunkSize requests are in flight (client.go:504): a chunk waits
\* for the one before, however long its retries take.
InFlightBounded ==
    Cardinality({i \in Requests : Running(i)}) <= ChunkSize

BackoffSum[n \in 0 .. Len(Backoffs)] ==
    IF n = 0 THEN 0 ELSE BackoffSum[n - 1] + Backoffs[n]

\* The longest a Call takes: every attempt times out.
MaxCallTime == BackoffSum[Len(Backoffs)] + Len(Backoffs) * RequestTimeout

\* A Call ends within MaxCallTime, so BatchCall within that much for each of its
\* chunks (client.go:569, 618): 164 seconds a chunk with the code's values, also
\* when the caller's context expired long before.
DurationBounded ==
    clock <= (sent \div ChunkSize + 1) * MaxCallTime

\* A nil result stands for a request whose every retry was used up
\* (client.go:621): no answer that arrived is lost between the channel and the
\* result list.
NilMeansExhausted ==
    returned => \A i \in Requests : results[i] = NoResponse <=> status[i] = "failed"

\* BatchCall returns, whatever the endpoint does: a failed Call still counts
\* down the wait group (client.go:524).
BatchReturns == <>returned

=============================================================================
