------------------------------ MODULE LogFetch ------------------------------
(***************************************************************************)
(* How the poller fetches the logs of a block (evmChainPoller.go:339-453): *)
(* the interesting contracts, from the configuration and the registry, are *)
(* listed, cut into batches, asked for by one goroutine per batch, and the *)
(* answers gathered, while other goroutines change the registry.           *)
(*                                                                         *)
(* Every address has one log in the block, named by the address.           *)
(* EVMChainPoller has the same fetch with the batches as given.            *)
(***************************************************************************)
EXTENDS ContractRegistry, Integers, SequencesExt

CONSTANTS
    InterestingContracts,        \* config.InterestingContracts
    EmptyAddress,                \* the address ""
    MaxAddressesPerLogsRequest,  \* the configured size of a batch
    DefaultSize                  \* DefaultMaxAddressesPerLogsRequest

ASSUME FetchAssumption ==
    /\ IsFiniteSet(Addresses)   \* an address has 20 bytes
    /\ InterestingContracts \in Seq(Addresses)
    /\ EmptyAddress \in Addresses
    /\ MaxAddressesPerLogsRequest \in Int
    /\ DefaultSize \in Nat \ {0}

VARIABLES
    fetching,   \* is there a fetch?
    batches,    \* its address batches
    pending,    \* the batches whose goroutine has not ended
    logs,       \* logResultsChan: the addresses whose logs have arrived
    errors,     \* errorsChan: the batches that failed
    outcome,    \* of the last fetch: "none", "logs" or "error"
    steady      \* history: the addresses interesting ever since the fetch began

fetchVars == <<fetching, batches, pending, logs, errors, outcome, steady>>
vars == <<registryVars, fetchVars>>

-----------------------------------------------------------------------------
(* listAllInterestingContracts and chunkAddresses *)

\* Mutant: addresses are compared as they are spelled.
AddUnlessSeenAsSpelled(result, a) ==
    IF a \in ToSet(result) THEN result ELSE Append(result, a)

\* One turn of the first loop: "" is skipped, then "seen".
AddUnlessSeen(result, a) ==
    IF a = EmptyAddress \/ Lower[a] \in ToSet(result) THEN result ELSE Append(result, Lower[a])

\* What the first loop has listed after n turns: the contracts of the
\* configuration, in its order.
ConfiguredAfter[n \in 0 .. Len(InterestingContracts)] ==
    IF n = 0 THEN <<>> ELSE AddUnlessSeen(ConfiguredAfter[n - 1], InterestingContracts[n])

\* The lists that may come of it: after those the registered contracts that are
\* not among them, in the order of a Go map, which is any.
ListAllInterestingContracts(registered) ==
    LET configured == ConfiguredAfter[Len(InterestingContracts)]
    IN  {configured \o listed : listed \in SetToSeqs(registered \ ToSet(configured))}

Size == IF MaxAddressesPerLogsRequest <= 0 THEN DefaultSize ELSE MaxAddressesPerLogsRequest

\* Mutant: the last, short batch is forgotten.
ChunkAddressesWhole(s) ==
    [i \in 1 .. Len(s) \div Size |-> SubSeq(s, (i - 1) * Size + 1, i * Size)]

\* Mutant: a batch takes the first address of the next one with it.
ChunkAddressesOverlapping(s) ==
    [i \in 1 .. (Len(s) + Size - 1) \div Size |->
       SubSeq(s, (i - 1) * Size + 1, IF i * Size >= Len(s) THEN Len(s) ELSE i * Size + 1)]

ChunkAddresses(s) ==
    [i \in 1 .. (Len(s) + Size - 1) \div Size |->
       SubSeq(s, (i - 1) * Size + 1, IF i * Size > Len(s) THEN Len(s) ELSE i * Size)]

-----------------------------------------------------------------------------
(* fetchLogsForInterestingContractsForBlock *)

Interesting(registered) ==
    {Lower[a] : a \in ToSet(InterestingContracts) \ {EmptyAddress}} \cup registered

Init ==
    /\ New
    /\ fetching = FALSE
    /\ batches = <<>> /\ pending = {} /\ logs = <<>> /\ errors = {}
    /\ outcome = "none"
    /\ steady = {}

\* Without contracts there is no request.
Fetch ==
    /\ ~fetching
    /\ \E addresses \in ListAllInterestingContracts(contracts) :
          batches' = ChunkAddresses(addresses)
    /\ fetching' = (batches' # <<>>)
    /\ pending' = DOMAIN batches'
    /\ logs' = <<>> /\ errors' = {}
    /\ outcome' = IF batches' = <<>> THEN "logs" ELSE "none"
    /\ steady' = Interesting(contracts)
    /\ UNCHANGED registryVars

BatchReply(i) ==
    /\ fetching /\ i \in pending
    /\ pending' = pending \ {i}
    /\ logs' = logs \o batches[i]
    /\ UNCHANGED <<registryVars, fetching, batches, errors, outcome, steady>>

\* The request has failed as often as Call tries it; LogsFetchTimeout, which Call's
\* sleeps do not watch, makes the attempts after it fail at once.
BatchFails(i) ==
    /\ fetching /\ i \in pending
    /\ pending' = pending \ {i}
    /\ errors' = errors \cup {i}
    /\ UNCHANGED <<registryVars, fetching, batches, logs, outcome, steady>>

\* Mutant: an answer is waited for from every batch.
GatherAllReplies ==
    /\ fetching /\ pending = {} /\ errors = {}
    /\ fetching' = FALSE
    /\ outcome' = "logs"
    /\ UNCHANGED <<registryVars, batches, pending, logs, errors, steady>>

\* wg.Wait is over: one error and there are no logs.
Gather ==
    /\ fetching /\ pending = {}
    /\ fetching' = FALSE
    /\ outcome' = IF errors = {} THEN "logs" ELSE "error"
    /\ UNCHANGED <<registryVars, batches, pending, logs, errors, steady>>

\* A writer of the registry takes a step, whatever the fetch is doing.
RegistryStep ==
    /\ Write
    /\ steady' = steady \cap Interesting(contracts')
    /\ UNCHANGED <<fetching, batches, pending, logs, errors, outcome>>

Goroutine(i) == BatchReply(i) \/ BatchFails(i)

Next == Fetch \/ (\E i \in pending : Goroutine(i)) \/ Gather \/ RegistryStep

Spec == Init /\ [][Next]_vars

\* The goroutines of a fetch are scheduled and every request ends, when the
\* retries of Call are used up at the latest.
FairSpec == Spec /\ WF_vars((\E i \in pending : Goroutine(i)) \/ Gather)

-----------------------------------------------------------------------------
(* Properties *)

\* Every variable keeps its type; a batch is never empty and never longer than a
\* request may be (evmChainPoller.go:363).
TypeOK ==
    /\ RegistryTypeOK
    /\ fetching \in BOOLEAN
    /\ \A i \in DOMAIN batches :
          /\ ToSet(batches[i]) \subseteq Lowered(Addresses)
          /\ Len(batches[i]) \in 1 .. Size
    /\ pending \subseteq DOMAIN batches /\ errors \subseteq DOMAIN batches
    /\ ToSet(logs) \subseteq Lowered(Addresses)
    /\ outcome \in {"none", "logs", "error"}
    /\ steady \subseteq Lowered(Addresses)

\* A fetch that returns logs has those of every contract that was interesting from
\* its beginning to its end, however the registry changed meanwhile and in whatever
\* order the batches were answered (evmChainPoller.go:438, 443).
NothingMissed == outcome = "logs" => steady \subseteq ToSet(logs)

\* No log is fetched, and so handled, twice: contracts that are both configured and
\* registered, or spelled in two ways, are asked for once (evmChainPoller.go:347).
NothingTwice ==
    \A i, j \in DOMAIN logs : Lower[logs[i]] = Lower[logs[j]] => i = j

\* A fetch ends, also when batches fail (evmChainPoller.go:401).
FetchReturns == fetching ~> ~fetching

=============================================================================
