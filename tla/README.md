# Verification of chain-indexer

TLA+ modules, TLC configurations and TLAPS proofs for
[chain-indexer](../src/README.md), a Go library that polls EVM chains, notices
reorganisations and hands blocks and decoded logs to an application. Paths below
are relative to `src/pkg/`; `poller` is `chainPollers/evm/evmChainPoller.go`,
`store` is `chainPollers/persistence/memory/memory.go`, `client` is
`clients/ethereum/client.go`.

## The system

| Part | State | Operations | Correct means |
|---|---|---|---|
| Chain poller (`poller`) | one goroutine's locals; everything else is in the store | `Start`, `pollForBlocks`, `processNextBlock`, `processBlockLogs`, `reconcileReorg`, `findOrphanedBlocks` | the records are one chain; the application is told of every block, and undone blocks are retracted before their replacements come; it catches up |
| Block store (`store`) | `closed`, `lastProcessedBlocks`, `blocks` | `GetLastProcessedBlock`, `SaveBlock`, `GetBlock`, `DeleteBlock`, `Close` | chains do not disturb each other; a deletion never revives an older record |
| Ethereum client (`client`) | a request's attempt and backoff; a batch's chunks and channel | `Call`, `BatchCall`, the getters | results in their places, bounded time and load, errors not lost |
| Contract registry (`chainPollers/contractRegistry`) | an atomically replaced list of addresses | `RegisterContracts`, `UnregisterContracts`, `ListContracts` | readers see one of the written lists, no update is lost |
| Contract store (`contractStore`) | a list of contracts | `AddContract`, `OverrideContract`, lookups; the ABI a contract's versions combine to | an address of a chain names one contract; what was looked up stays what it was |
| Log parser (`transactionLogParser`) | none | `DecodeLog` | every parameter has the value it was emitted with; a log it cannot read does not stop the indexer for good |
| Block handler | the application's | `HandleBlock`, `HandleLog`, `HandleReorgBlock` | (external) |
| `util`, `logger`, `config`, `mocks` | none | helpers, generated code | not modelled |

The poller asks the client for the head and for blocks by number, compares the
parent hash of each block with the hash of the record before it, hands the block
to the handler, fetches its logs in parallel batches of addresses, hands over the
decoded logs, saves a record and prunes an old one. When the parent hash differs
it searches downwards for a common ancestor, rewinds the last processed block to
it, and then, for each orphan from the top, tells the handler and deletes the
record. There are no transactions: the store, the handler and the chain are three
places that change one after the other.

What is hard: the chain moves between any two requests; every call may fail, and
the failures are treated in three different ways (return, warn, ignore); the
context may be cancelled and the process may die anywhere, while a persistent
store (the README's "Pluggable Persistence") survives; depth, history and uint64
bounds meet at the edges of the search; the contract store changes while logs are
decoded with it, and nothing keeps two poll loops from running at once. The list of hazards in `PROJECT.json`
names each at its line.

## Modules

| Module | Models | Remarks |
|---|---|---|
| `ChainPersistence` | `store` | every method holds the mutex from first to last line, so each is one step; a read is the set of records it returns, empty for an error |
| `EVMChainPoller` | `poller`, composed with the store (`Store == INSTANCE ChainPersistence`), the endpoint seen through the client, and the handler | see below |
| `IndexedChain` | the promise of the poller: what is indexed is a piece of one chain, extended at its tip, cut back from the top | abstract specification |
| `EVMChainPollerProofs`, `IndexedChainProofs`, `FinalityProofs` | | theorems about `EVMChainPoller`; the second has the refinement of the index, the third those that need blocks to become final, and the one about `OverlappingLoops` |
| `ChainPersistenceProofs`, `EthereumClientProofs`, `LogFetchProofs`, `LogParserProofs` | | theorems about the modules they are named after; `LogFetchProofs` has the registry's too |
| `NaturalLemmas` | | induction over an interval of naturals, and functions defined by recursion over one |
| `MCEVMChainPoller` | | trees of blocks and moves between chains for TLC |
| `EthereumClient` | `Call`, `call`, `chunkedBatchCall` of `client` | time in seconds |
| `MCEthereumClient` | | a list of backoffs for TLC |
| `ContractRegistry` | `chainPollers/contractRegistry/inMemory.go` | a writer is two steps, the load and the store, with the mutex held between |
| `LogFetch` | `listAllInterestingContracts`, `chunkAddresses` and the parallel fetch of `poller`, composed with the registry | `EVMChainPoller` has the same fetch with its batches given |
| `MCLogFetch` | | spellings of addresses for TLC |
| `ContractStore` | `contractStore/inMemoryContractStore`, `contracts/contracts.go`, `Find` of `util` | every method holds the mutex throughout, so each is one step |
| `LogParser` | `transactionLogParser`, composed with the contract store, the application that changes it and the poller's loop over the logs | |
| `MCLogParser` | | contracts, events and ABI versions for TLC |
| `OverlappingLoops` | two loops of `poller` on one store (`EVMChainPoller` extended, and instantiated again for the second loop's locals) | |
| `MCOverlappingLoops` | | a chain that grows, for TLC |

Definitions named like `SaveBlockAppends` or `InLongerSearch` and marked
*Mutant* are wrong versions of the definition that follows. No specification
uses them: they are put in the place of the right one to see that a property
notices.

### EVMChainPoller

A step of the poller runs from one point where the world may change (a request, a
write to the store, a callback) to the next. `pc` says where it is:

| `pc` | The code is | Leaves by |
|---|---|---|
| `stopped` | not running | `StartResume`, `StartFresh` |
| `starting` | in `Start`, fetching the start block (line 138) | `StartAnchor`, `StartFails` |
| `waiting` | at the `select` (173) | `Tick`, `TickSkips`, `LoopExits` |
| `fetching` | before `GetBlockByNumber` (217) | `FetchAccept`, `FetchReorg`, `FetchFails` |
| `logs` | in `processBlockLogs` up to the save | `BatchReply`, `BatchFails`, `HandleLog`, three failures, `SaveProcessed`, `SaveProcessedFails` |
| `pruning` | between the save and the prune (322) | `Prune`, `PruneSkips` |
| `walking` | at the head of the search loop (483) | `WalkOrphan`, `WalkMatch`, `WalkMissing`, `WalkExhausted`, `WalkFails` |
| `settling` | at the `SaveBlock` that ends the search (536, 541) | `Settle`, `SettleFails` |
| `undoing` | in the loop over the orphans, before `HandleReorgBlock` (467) | `Report` |
| `deleting` | between that callback and `DeleteBlock` (469) | `Undo`, `UndoFails` |

Between these, `ChainMoves`, `CloseStore`, `Cancel` and `Crash` may happen. The
locals of a call are reset when it returns, which keeps the state space small and
makes it plain that only the store carries over.

What the model keeps of the data: a block is its number, hash and parent hash, and
a chain is a sequence of hashes that determine their ancestors (`ChainAssumption`).
A number above the head is answered by the zero block, which is what the parser
makes of a JSON `null`. `ClientChainId` is the chain id of a block that comes from
the client; JSON fills no such field, so with `EthereumClient` it is 0. `MaxReorgDepth`
is what line 483 makes of the configured one: converted to uint64, a negative number
is a very large one. A batch of
addresses brings one log, named by the block it was emitted in. `Undecodable` is
the set of blocks with a log the parser rejects. `view` and `logged` are what the
handler was told and not told to drop; `anchor` is a history variable, the number
at which the present chain of records begins.

Choices: the read of the store and the request that follows it are one step, as
only the poller and `Close` change the store; a request succeeds only with a live
context, while log requests have a context of their own (line 379) and survive a
cancellation; a restart happens only after the old loop has ended (two loops at
once are in `OverlappingLoops`).

### EthereumClient

One `BatchCall` of `N` requests. Each request of the current chunk is a goroutine
in `Call`: an attempt with a timeout, then a sleep, which the code takes also
after the last attempt and whatever has become of the context. `Second` lets time
pass only if no attempt or sleep is overdue.

### ContractRegistry and LogFetch

A fetch lists the contracts (the configured ones without empty entries, lower-cased
and without repetition, then the registered ones not among them, in any order),
cuts the list into batches and starts a goroutine for each. `BatchReply` and
`BatchFails` end a goroutine, `Gather` is what follows `wg.Wait`. Writers of the
registry step in between. `steady` is a history variable, the addresses that were
interesting from the beginning of the fetch until now.

### ContractStore and LogParser

A contract is its name, address, chain and ABI versions; a version is the sequence
of its entries: events, and the functions `receive` and `fallback`, of which
go-ethereum's ABI reader takes one each. `GetAbi` has the outcomes of
`combineAbis` and `unmarshalJsonToAbi`: an error for a version that is too short or
not JSON, or for an empty one among others (the brackets are cut off and the rest
joined with commas), and otherwise the entries up to a second special function,
where the reader stops with an error that is ignored.

`DecodeLog` is two steps, with the application's changes of the store between them:
`LookUp` calls `GetContractByAddress` and panics on its nil, `DecodeLog` or
`DecodeFails` goes on with the contract that was found. An event is its id and
inputs. The id stands for the hash of name and types, so two versions may declare
one id with different indexed inputs, and the library's map gives either. A value
in a log is the input it was emitted for: `Arguments` and `UnpackIntoMap` then show
where each value ends up. A failed decoding keeps the log: the block has no record,
and the next poll meets the log again. A log has no more topics than its event has
inputs: the event was found by the id, which stands for all of its types.

The store starts with any list of `Loaded`, unchecked, as the constructor takes it;
`AddContract` alone compares addresses. The application has the poller watch any
address it configures or registers (`WatchAddress`), whether the store knows it or
not, or what it finds in the store (`WatchListed`, `WatchNamed`). Three history
variables say how an address came to be what it is: `movedFrom` are those an override
took off the list, `unlisted` those that were not on it when the poller was told of
them, `unchecked` those that came on it by the constructor's list twice or by an
override.

### OverlappingLoops

`Start` begins a goroutine and keeps no trace of it, so a second call, or a restart
before the old loop has seen its context, makes two loops that share the store and
the handler. `Loop` and `OtherLoop` interleave the actions of `EVMChainPoller` for
two sets of locals, in any order: nothing is assumed of their scheduling. The process
dies with both (`BothCrash`), and either may be cancelled and started again.

Little of what holds for one loop holds for two. A loop that is held up while the other
processes `BlockHistorySize` blocks saves its block below what the other has, and so sets
the last processed block back to it; the other then prunes that very record. Every poll
of both now returns at line 186 until a `Start` finds no last processed block and begins
at the start block again. `LastExists` fails in this way, and with it `CatchesUp`, without
any fault and with a chain that only grows. A loop held up before its prune deletes a
record next to others that no prune will meet again, which is the end of
`HistoryBounded`. What is left, and what the run and the
theorem are about, is that nothing is lost by it: `NothingSkipped`.

## Runs

| Run | Configuration | What it shows |
|---|---|---|
| `store` | 2 chains, 2 numbers, 2 hashes | `LastChangesOnlyBySave`, `RecordsStayPut` for every sequence of calls |
| `reorg` | heights to 5, forks above 2 and 3, any move between chains (also to a shorter one) that leaves final blocks in place, depth and history 3, requests and block handlers that fail, cancellations, closing | `ViewIsChain`, `ViewMatchesRecords`, `LastExists`, `HistoryBounded` |
| `recovery` | heights to 4, forks above 0 and 1, depth and history 2, a durable store, crashes, restarts, closing, failing requests and log handlers, an undecodable log | `RecordsLinked`, its inductive strengthening `LinkedInv`, `ImplementsIndexedChain` |
| `faulty` | the same tree, every call may fail | `RewindBounded` |
| `live` | a fork above 1, reorgs within the depth to forks that do not return, two address batches, a durable store; requests, log requests and log handlers that fail, cancellations, crashes | `LogsMatchBlock`, `CommittedDelivered`, and `CatchesUp` under `FairSpec` |
| `batch` | 5 requests in chunks of 2, two backoffs, a context that expires under way | `ResultsInOrder`, `InFlightBounded`, `NilMeansExhausted`, `DurationBounded`, `BatchReturns` |
| `log_fetch` | five spellings of four addresses (one empty), two writers, batches of two | `NothingMissed`, `NothingTwice`, `NoUpdateLost`, `FetchReturns` |
| `contracts` | five spellings, two chains, six contracts of which two at a time are in the store, any list of at most two of them to begin with, addresses watched that are on the list and that are not, an event with its indexed input first, one with it last, one without topics; ABIs too short, not JSON, empty in one version, with two receive functions, with one id declared twice | `IndexedFirstInPlace`, `OwnContract`, `ListedIsFound`, `AddRepeatsNothing`, and `RepairUnblocks` under `FairSpec`; a panic ends the process, so deadlock is not checked |
| `overlap` | a chain that grows to height 4, history 2, a durable store that may fail or be closed, two loops in any order, requests, log requests and log handlers that fail, cancellations, crashes | `NothingSkipped` |

Why the bounds are enough. A reorg needs a fork, an old branch and a longer new
one; the trees have forks at two heights and three branches, so reorgs of one and
two blocks, a reorg during the reconciliation of another, and a fork of a fork all
occur. Depth and history are set below (deep tree) and above (shallow tree) the
height of the longest reorg, so a search can end in each of its four ways, and
records are pruned within the run. `MaxUint64` is 15: large enough for all heights,
small enough for the wrap-around of line 483 to be seen. Two batches are enough for
one to be answered before and one after a move of the chain. Five requests in
chunks of two make three chunks, the last one short; two of the seven backoffs are
enough for a retry and a last attempt, and the bound of `DurationBounded` is stated
for any list (164 s a chunk with the code's). With the contracts configured and
registered a fetch has up to four addresses, so one or two batches, the last one
full or short. Two contracts in the store are enough for one to be overridden onto
the other's address, for a duplicate, and for a lookup that finds the other chain's
contract first. A line of five blocks with a history of two lets both loops prune, and
one of them prune the block that the other has just made the last one, after which both
begin again.

`MCEVMChainPoller` and `MCOverlappingLoops` assume the settings of the theorems for the
trees of `reorg`, `live` and `overlap` (`ShallowSetting`, `LowSetting`, `LineSetting`): TLC
evaluates them, so there are blocks, moves and configurations that satisfy what the
theorems ask for.

The runs differ in their faults because the code promises different things under
different ones. `ViewIsChain` and `ViewMatchesRecords` do not hold when a call to
the handler is lost with the process (the rewind of line 536 is saved before any
orphan is reported) or when logs fail: a block is handed over, its
logs cannot be fetched, a reorg replaces it before the next poll, and as it has no
record no `HandleReorgBlock` is sent for it; the records stay sound in all
of these, which `recovery` shows. They and `LastExists` ask that a block becomes final
before it is `MaxReorgDepth` below the head (`ShallowFinal`), as `deep_reorg` shows what
happens otherwise. So does `CommittedDelivered`: when a search is exhausted, its lowest
orphan is made the last processed block (541), and a crash after that orphan is reported
(467) and before its record is deleted (469) leaves a committed block the handler
has dropped. It also asks that `HandleBlock` does not fail, as the poller only warns of
that, so `live` has no such failures; they change nothing but what the handler holds, and
`LogsMatchBlock` and `CatchesUp` lose nothing by it. `live` has only moves to longer chains:
a reorg that leaves the head at the same height is not noticed by line 197 until the next
block comes. `LogsMatchBlock` does not hold when a fork that
was left becomes canonical again: logs of the other fork, fetched in between, then
stay. `HistoryBounded` does not hold with crashes: a crash between save and prune
leaves one record, which the TODO at line 328 accepts.

### Fairness

`FairSpec` of the poller is weak fairness of `Progress`: the ticker fires, the
goroutine is scheduled, the application starts the poller again after a crash or a
cancellation, and a request that is not made to fail is answered. It does not
include `TickSkips` or any failure, except those a cancelled context forces. A
failure may still happen at any time: `CatchesUp` asks for the head only if, from
some point on, no request, callback or process fails (`Interruption`). The chain
needs no such clause, as it moves to longer chains of a finite tree. `FairSpec` of
the client is weak fairness of `Next`: time passes and runnable goroutines run. That
of `LogFetch` is weak fairness of the goroutines of a fetch, whose requests end when
the retries of `Call` are used up at the latest (`LogsFetchTimeout` is not that
bound, as `Call` sleeps on after it); writers of the registry get none. `LogParser`
has weak fairness of the decoding of a log in hand, as the poll loop comes back to
it, and none of the application. `BothSpec` has none.

### Disagreements between the code and what it says

Three runs expect a violation.

- `deep_reorg`: a reorg of exactly `MaxReorgDepth` blocks. The search ends with its
  lowest orphan, saves it as the last processed block (line 541), and the caller
  deletes it (469). The chain then has no last processed block, every poll returns
  at line 186, and a restart begins afresh. The code's own words are "last
  processed block must exist" (158).
- `start_reorg`: a reorg that reaches the block the poller started at. The parent
  is not in the store, "Save the block from canonical chain to storage since it was
  missing" (509), but is saved under chain 0 (507): `MissingBlockSaved` fails.
- `decode_args`: topics after the first are given to the event's inputs by position
  (`transactionLogParser.go:121`), but only indexed inputs have topics. With an input
  in the data before an indexed one, the value lands at the wrong argument, or is
  rejected as a bool and lost, where `log/types.go:28` says "Value is the actual
  parameter value". `IndexedFirstInPlace` shows that all is well for events that
  declare their indexed inputs first.

What the model also shows, of which the repository says nothing clear enough to
check against:

- A log without topics, or with an event the ABI does not have, makes `DecodeLog`
  fail at every poll, and the poller stays at its block. `RepairUnblocks` says how it
  gets on: when the store is given an ABI that declares the event. For a log without
  topics there is none.
- A second `receive` or `fallback` function in the combined ABI cuts it short, so
  that events declared in later versions are unknown; `RepairUnblocks` excludes it.
- Two versions that declare one id with different indexed inputs are told apart by
  chance; the properties of decoded logs speak of events declared once.
- `GetContractByAddress` does not know the chain, and a log may be decoded with the
  contract of another chain that has the same address.
- An override for several chains of which only some are found leaves out the others,
  and compares names as they are spelled where the lookups do not.
- The poller never asks the contract store about an address it watches. A log of one
  the store does not have gets the nil of `GetContractByAddress` without an error, and
  `DecodeLog` calls `GetAbi` on it: the process ends. `ListedIsFound` says which addresses
  are safe from it.
- Two overlapping loops may both stop at line 186, as said above. With a reorg it
  is worse: one loop's deletion of an orphan may meet the record the other has just saved at
  that number. `overlap` therefore has a chain that only grows.

One more was met while modelling the client: `chunkedBatchCall` means to return
"failed to fetch results for all requests" (`client` 555), but compares two lengths
that are always equal, so a failed request is a nil entry and no error. The model
has that behaviour, and `NilMeansExhausted` says that the nils are exactly the
requests that failed.

## Proofs

Every theorem is about all values of the constants that satisfy the `ASSUME` of
its module, where the runs are about one. What a theorem needs beyond that stands
in its statement.

| Theorem | Of | States |
|---|---|---|
| `TypeCorrect` | `EVMChainPoller` | `TypeOK`, under every set of faults |
| `RecordsStayLinked`, `LocalsMatchStore` | | `RecordsLinked`, `LinkedInv`; `PlainSetting` |
| `RewindsAreBounded` | | `RewindBounded`; `ClientChainId # ChainId`, every call may fail |
| `PollerImplementsIndexedChain` | | `ImplementsIndexedChain`; `PlainSetting` |
| `LastBlockExists` | | `LastExists`; `FinalSetting` |
| `HistoryStaysBounded` | | `HistoryBounded`; `FinalSetting`, `HistorySetting` |
| `HandlerHoldsAChain`, `HandlerAgreesWithRecords` | | `ViewIsChain`, `ViewMatchesRecords`; `FinalSetting`, `ViewSetting` |
| `CommittedBlocksDelivered` | | `CommittedDelivered`; `FinalSetting`, `DeliverySetting` |
| `LogsOfTheirBlocks` | | `LogsMatchBlock`; `FinalSetting`, `NoReturn` |
| `TwoLoopsSkipNothing` | `OverlappingLoops` | `NothingSkipped`; `GrowingSetting` |
| `StoreTypeCorrect`, `LastMovesOnlyBySave`, `RecordsAreStable` | `ChainPersistence` | `TypeOK`, `LastChangesOnlyBySave`, `RecordsStayPut` |
| `ClientTypeCorrect`, `AnswersAtTheirPlace`, `AtMostAChunkInFlight`, `NoAnswerLost`, `BatchCallTime` | `EthereumClient` | `TypeOK`, `ResultsInOrder`, `InFlightBounded`, `NilMeansExhausted`, `DurationBounded` |
| `RegistryLosesNothing` | `ContractRegistry` in `LogFetch` | `NoUpdateLost` |
| `FetchTypeCorrect`, `FetchMissesNothing`, `FetchRepeatsNothing` | `LogFetch` | `TypeOK`, `NothingMissed`, `NothingTwice` |
| `AddedContractsDiffer`, `ListedContractsFound` | `ContractStore` in `LogParser` | `AddRepeatsNothing`, `ListedIsFound` |
| `DecodedWithOwnContract`, `DecodedValuesInPlace` | `LogParser` | `OwnContract`, `IndexedFirstInPlace` |

`PlainSetting` says that the store fails only when closed, as the in-memory one
does; that a client block does not carry the poller's chain id, as
`EthereumClient`'s do not; and that the start block exists when it is asked for
(otherwise the zero block is recorded). `DeliverySetting` is that `HandleBlock`
does not fail, because the poller only warns of its error and goes on. The run
`recovery` satisfies the first, `live` both.

### The poller

`TypeInv` adds to `TypeOK` that there are orphans while they are undone. The
store's part, one record per key, is carried by lemmas on `SaveBlock` and
`DeleteBlock`.

`RecordsLinked` alone is not inductive: that a block may be saved depends on what
was compared two requests earlier. `LinkedInv` says what the locals know of the
store: while fetching and handling logs, `last` is the last processed record
(`ParentInv`); the block in hand is its child (`BlockInv`); the search is at or
below the last processed block, and what it found is still stored (`WalkInv`); no
record of the chain is that of a null answer (`StoreInv`). A rewind keeps
`RecordsLinked` since it only lowers the upper end of `Index`; a save keeps it
since it replaces whatever was stale at its height.

`RewindBounded` is proved without `PlainSetting`, so null answers may be stored
and writes may fail. `RewindInv` is the weaker thing that is left then: a record
without a hash is at height 0; the parent a block is compared with is not below the
last processed block, and the block is one above it unless the parent is such a
record (`LeadInv`, `HandInv`); a search begins below the block in hand, or at the
top of uint64 when that is block 0, and what it finds is less than `MaxReorgDepth`
below the last processed block (`DepthInv`).

For the refinement, `IndexInv` adds that the index does not begin above its end
(`AnchorInv`), that what is stored was on some chain (`TrueInv`), and that the
orphans lie at consecutive heights from the last processed block down, with nothing
above them once the search is over (`OrphanInv`): without it the deletion of an
orphan might take a record from the middle of the index. Each group of actions then
maps to `Anchor`, `Extend`, `Rollback`, `Forget`, `Lose` or to no change.

### Blocks that become final

`FinalSetting(final)` is `PlainSetting` and what an operator relies on when choosing
`MaxReorgDepth`: each chain the endpoint shows has a height `final[c]`, less than
`MaxReorgDepth` below its head, up to which every later chain agrees with it. Above that
height the endpoint may do anything: fork, lag behind, return to a fork it left, move
between any two requests. The start block is configured and final from the beginning
(otherwise the search may pass the first record, as in `start_reorg`), and the history
is no shorter than the depth (otherwise the search may meet a record that was pruned).
Nothing else is assumed of the tree, and every fault but a failing open store is allowed.

What makes the theorems hard is that the records need not be on the chain the endpoint
shows, nor on any single chain it has shown while they were fetched. The invariant
therefore asks for a witness: there is a chain `c` that was shown before (`Precedes`: what
is final on it is final now) on which all records of the index lie, with none missing
from `final[c]` up, and on which the block in hand is the next one (`RecordsOn`). A block
that is accepted extends the tip, so the chain it was fetched from has all of the index
below it and becomes the witness, its final height having only risen. A search compares
records with blocks of the present chain, which agrees with `c` up to `final[c]`: it
cannot pass `final[c]`, and `SearchInv` counts the orphans to show that its depth reaches
that far. So a search ends at a record, which the rewind of line 536 makes the last processed block, and the
orphans deleted afterwards are all above it: `LastExists`, as part of `BottomInv`. The
null answer of an endpoint that lags behind is the other case of `SearchInv`: its parent
number wraps around, nothing is found there, and without orphans the call ends.

`CommittedDelivered` rests on `DeliveryInv`, which follows a batch of logs from its
request to the handler: it is awaited, has failed, waits to be handled, or has been. A
save requires that none is left in the first three. The other half is that no block of
the index is retracted. The handler is told of an orphan one step before its
record goes, and a crash may keep that record: it must then lie above the last processed
block. That is so because a search that ends at a record rewinds below all its
orphans, and with final blocks every search does.

`HistoryBounded` adds `HistInv`: every record is at most at `Top` and less than
`BlockHistorySize` below it, with one more while the prune of that block is due, where
`Top` is the last processed block, or the first orphan while orphans are undone. It is
needed that all orphans go before the next block is fetched. `HistorySetting` excludes a
durable store with crashes: the rewind is saved first, a crash leaves orphans above it,
and a crash between save and prune leaves a record below.

`ViewOn(c)` says that the handler's blocks lie on one chain too, at most as high as the
block in hand, or, while orphans are undone, as the first orphan that is left.
`ViewSetting` leaves out the failures after which the code does not retract a block it handed over: the process
dies, or the logs cannot be fetched, decoded or handled.

For `LogsMatchBlock`, `LogInv` says that a log the handler holds for a block, or an answer
that waits to be handled, is of that very block, or that the block has left the chain
since (`FromBlock`). `NoReturn(left)` then gives that such a block is not recorded when the
poller is at the head: `left[c]` are the blocks that were shown and left before `c`.

### Two loops

`GrowingSetting` has a configured start block that exists, a handler that takes every
block, and a chain that only grows, so every record is on it and no loop ever searches
(`HereMoves`, `ThereMoves`). Faults, the store's failures included, are not restricted.
`NothingSkipped` speaks of the last processed number alone, which a loop takes from its
block in hand and another loop from a record. `SkipInv` therefore says the same
of all of them: every block up to a record, up to the last processed number (`KeptInv`) and
below the block a loop has in hand (`CallInv`) has been handed over with its logs; of the
block in hand every batch is asked for, has come, has been handed over, or one
of them has failed. None of it speaks of how the loops stand to each other, and what was
handed over stays handed over when the chain grows (`HandedStays`, `SkipGrows`): so a step of
one loop cannot disturb what is said of the other, and records that are pruned or set
back do no harm. Each loop's actions are first reduced to nine kinds of step (`LoopMoves`) on
its locals, the records and the handler, so that the argument is made once for both.

### The other components

The store's three properties need only `TypeOK`, but for every pair of chains and
every method.

`ClientInv` is `TypeOK` with `ChunkInv` (requests before the chunk are finished,
those after it have not begun, the channel holds the chunk's answers), `ResultInv`
(the results are what became of the requests collected so far) and `TimeInv` (an
attempt ends within the time of the chunks before it and of its own attempts and
sleeps). `DurationBounded` needs the last: that no clock tick overruns says nothing
of how often the clock may tick. The deadline of the context is any number, so the
bound holds whether or not it expires under way.

`RegistryInv` says that a writer in a call holds the mutex and that the list is the
one it loaded. `FetchInv` adds that the batches are disjoint and hold what was
interesting throughout (`BatchInv`), and that the logs are those of the answered
batches (`ReplyInv`). It rests on lemmas about the algorithms: the list of
configured contracts has each address once in whatever spellings they come
(`ConfiguredFacts`), the registered ones are appended without repetition
(`ListFacts`), and the batches cut the list without gap or overlap (`ChunkFacts`).
`FetchAssumption` asks for finitely many addresses: an address has 20 bytes.

For the contract store, `WatchInv` says that a watched address is on the list, was
taken off it by an override, or was not on it when the poller was told of it. For decoding, `HeldInv` says that the contract in
hand was found for the log in hand, and `EmittedInv` that the log is one that was
emitted. The values then follow from lemmas on the operators: the entries of the
combined ABI are those of its versions (`FlattenedEntries`, `AbiDeclared`), and with
the indexed inputs first, topic and input have the same place (`IndexedAtPlace`).

Induction. The library states induction with an operator as its parameter, which
the provers at hand do not instantiate. `NaturalLemmas` therefore has it with sets:
`IntervalInduction` speaks of the set of numbers for which something holds, and
`RecursiveFunction` of functions, from the least-number principle. The definitions
that are proved about are recursive functions (`ConfiguredAfter`, `InputsOf`), as the library's `SelectSeq` and folds are closed to the provers.

### Checked by TLC only

- Liveness, out of the prover's reach: `CatchesUp`, `BatchReturns`,
  `FetchReturns`, `RepairUnblocks`.

Every invariant and every other action property of a passing run is a theorem.

## Not modelled

The native JSON-RPC batch of `client` (`batchCall`, `chunkedNativeBatchCall`, marked
unused). The websocket listener, which nothing in the library calls and whose
behaviour is that of go-ethereum's subscription. The getters the poller does not
use, each a `Call` and a parser. The types of transactions and receipts, which are
data layout. `Map`, `Filter` and `Flatten` of `util`, `logger`, the generated mocks.
`DecodeLog` with an ABI supplied, which the poller never does. Timestamps and polling
intervals. What is left of the ABI library: types of more than one word, decoding
errors in the data other than too little of it.

## Plan

What remains would need the code to promise more, or tools beyond these: two loops with
reorgs (the code does not keep a second loop out), an abstract specification of what the
handler sees when the process dies between the rewind and the reports (the handler would
have to be asked what it holds), and the liveness properties for every instance.
