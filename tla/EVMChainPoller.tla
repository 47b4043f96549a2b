--------------------------- MODULE EVMChainPoller ---------------------------
(***************************************************************************)
(* The poller of one EVM chain (chainPollers/evm/evmChainPoller.go) with   *)
(* its block store (ChainPersistence), the chain an RPC endpoint shows     *)
(* through the Ethereum client, and what the application's block handler   *)
(* has been told.                                                          *)
(*                                                                         *)
(* The poller is one goroutine.  A step of it runs from one point where    *)
(* the world may change (an RPC request, a write to the store, a callback) *)
(* to the next; between its steps the chain may grow or be reorganised,    *)
(* the store may be closed, the context cancelled, the process killed.     *)
(*                                                                         *)
(* Abstractions: a block is its number, its hash and its parent's hash; an *)
(* address batch of eth_getLogs brings one log; timestamps, logging and    *)
(* the polling interval are left out.                                      *)
(***************************************************************************)
EXTENDS Integers, Sequences

CONSTANTS
    ChainIds,            \* the chain ids that share the store
    ChainId,             \* config.ChainId
    ClientChainId,       \* the ChainId of a block the client returns: JSON fills no
                         \* such field, so it is 0 with EthereumClient
    Hash,                \* hashes of real blocks
    NoHash,              \* the empty hash of a zero-valued block
    ZeroHash,            \* the parent hash of block 0
    Chains,              \* the chains an endpoint may show: Seq(Hash), block n at n+1
    Moves,               \* the pairs of chains it may show one after the other
    MaxReorgDepth,       \* uint64(config.MaxReorgDepth): a negative one is a very large one
    BlockHistorySize,    \* config.BlockHistorySize; the constructor turns 0 into 100, so 0
                         \* stands for a negative one here: every record is kept
    GenesisBlockNumber,  \* config.GenesisBlockNumber, 0 means "start at the head"
    MaxUint64,           \* the largest uint64
    Batches,             \* the address batches of a log request, {}: no contracts
    Undecodable,         \* blocks with a log that DecodeLog cannot decode
    Faults,              \* the failures that may happen
    Durable              \* does the store outlive the process?

AllFaults == {"rpc", "logs", "blockHandler", "logHandler", "store", "close", "cancel", "crash"}

ASSUME ConfigAssumption ==
    /\ ChainId \in ChainIds /\ ClientChainId \in ChainIds
    /\ MaxReorgDepth \in Nat \ {0}
    /\ BlockHistorySize \in Nat
    /\ MaxUint64 \in Nat
    /\ GenesisBlockNumber \in 0 .. MaxUint64
    /\ Faults \subseteq AllFaults
    /\ Durable \in BOOLEAN

\* A hash determines its block and so its ancestors.
ASSUME ChainAssumption ==
    /\ NoHash \notin Hash /\ ZeroHash \notin Hash /\ NoHash # ZeroHash
    /\ \A c \in Chains : c \in Seq(Hash) /\ Len(c) \in 1 .. MaxUint64
    /\ \A c, d \in Chains : \A m \in 1 .. Len(c), n \in 1 .. Len(d) :
          c[m] = d[n] => m = n /\ (m > 1 => c[m - 1] = d[n - 1])
    /\ Moves \subseteq Chains \X Chains
    /\ Undecodable \subseteq Hash

VARIABLES
    canon,      \* the chain the endpoint shows now
    \* the store
    closed, lastProcessedBlocks, blocks,
    \* the control of Start, pollForBlocks and what they call
    pc, cancelled,
    \* processNextBlock: latestBlockRecord, latestBlockNum, blockNum, newCanonBlock
    last, target, blockNum, block,
    \* fetchLogs...: batches not answered, answers not handled, has one failed?
    pending, replies, fetchErr,
    \* findOrphanedBlocks: parentBlockNum, parentBlockRecord ({} is nil), orphans
    parentNum, parentRec, orphans,
    \* what the block handler has been told and not told to invalidate
    view, logged,
    \* history: the number at which the records' present chain begins
    anchor

storeVars == <<closed, lastProcessedBlocks, blocks>>
loopVars == <<last, target, blockNum, block>>
logVars == <<pending, replies, fetchErr>>
walkVars == <<parentNum, parentRec, orphans>>
handlerVars == <<view, logged>>

vars == <<canon, storeVars, pc, cancelled, loopVars, logVars, walkVars, handlerVars, anchor>>

-----------------------------------------------------------------------------
(* Types *)

Uint64 == 0 .. MaxUint64
AnyHash == Hash \cup {NoHash, ZeroHash}

Store == INSTANCE ChainPersistence WITH Numbers <- Uint64, Hashes <- AnyHash

Block == [number : Uint64, hash : AnyHash, parentHash : AnyHash]
BlockRecord == [chainId : ChainIds, number : Uint64, hash : AnyHash, parentHash : AnyHash]

RecordOf(b, c) ==
    [chainId |-> c, number |-> b.number, hash |-> b.hash, parentHash |-> b.parentHash]

\* What the response parser makes of a JSON null.
NullBlock == [number |-> 0, hash |-> NoHash, parentHash |-> NoHash]
NullRecord == RecordOf(NullBlock, ChainId)

PcStates == {"stopped", "starting", "waiting", "fetching", "logs", "pruning",
             "walking", "settling", "undoing", "deleting"}

\* Mutant: subtraction of unbounded integers.
SubUnbounded(a, b) == a - b

\* uint64 subtraction wraps.
Sub(a, b) == IF a >= b THEN a - b ELSE a - b + MaxUint64 + 1

-----------------------------------------------------------------------------
(* The endpoint through the client, and its failures *)

GetLatestBlock == Len(canon) - 1

\* A number above the head is answered by null, which is no error.
GetBlockByNumber(n) ==
    IF n < Len(canon)
      THEN [number |-> n, hash |-> canon[n + 1],
            parentHash |-> IF n = 0 THEN ZeroHash ELSE canon[n]]
      ELSE NullBlock

\* eth_getLogs is asked by number: the logs are those of the block that has the
\* number when the request is answered, or none.
LogsAt(n) == IF n < Len(canon) THEN canon[n + 1] ELSE NoHash

Fails(fault) == fault \in Faults
RpcFails == cancelled \/ Fails("rpc")
StoreFails == closed \/ Fails("store")

LastRecord == Store!GetLastProcessedBlock(ChainId)

-----------------------------------------------------------------------------
Init ==
    /\ canon \in Chains
    /\ Store!New
    /\ pc = "stopped" /\ cancelled = FALSE
    /\ last = NullRecord /\ target = 0 /\ blockNum = 0 /\ block = NullBlock
    /\ pending = {} /\ replies = {} /\ fetchErr = FALSE
    /\ parentNum = 0 /\ parentRec = {} /\ orphans = <<>>
    /\ view = {} /\ logged = {}
    /\ anchor = 0

\* The locals of a call that has returned are gone.
LocalsDropped ==
    /\ last' = NullRecord /\ target' = 0 /\ blockNum' = 0 /\ block' = NullBlock
    /\ pending' = {} /\ replies' = {} /\ fetchErr' = FALSE
    /\ parentNum' = 0 /\ parentRec' = {} /\ orphans' = <<>>

\* processNextBlock returns and the loop waits for the next tick.
Return == pc' = "waiting" /\ LocalsDropped

-----------------------------------------------------------------------------
(* The environment *)

ChainMoves ==
    /\ \E c \in Chains : <<canon, c>> \in Moves /\ canon' = c
    /\ UNCHANGED <<storeVars, pc, cancelled, loopVars, logVars, walkVars, handlerVars, anchor>>

CloseStore ==
    /\ Fails("close")
    /\ Store!Close
    /\ UNCHANGED <<canon, pc, cancelled, loopVars, logVars, walkVars, handlerVars, anchor>>

Cancel ==
    /\ Fails("cancel")
    /\ pc # "stopped" /\ ~cancelled
    /\ cancelled' = TRUE
    /\ UNCHANGED <<canon, storeVars, pc, loopVars, logVars, walkVars, handlerVars, anchor>>

\* The process dies.  A durable store opens again as it was; the in-memory one
\* is gone, as is a closed one.
Crash ==
    /\ Fails("crash")
    /\ pc # "stopped"
    /\ pc' = "stopped" /\ cancelled' = FALSE
    /\ LocalsDropped
    /\ IF Durable /\ ~closed
         THEN UNCHANGED storeVars
         ELSE /\ closed' = FALSE
              /\ lastProcessedBlocks' = [c \in ChainIds |-> Store!NoBlock]
              /\ blocks' = {}
    /\ UNCHANGED <<canon, handlerVars, anchor>>

-----------------------------------------------------------------------------
(* Start *)

\* There is a last processed block: the loop goes on from it.
StartResume ==
    /\ pc = "stopped"
    /\ LastRecord # {}
    /\ pc' = "waiting" /\ cancelled' = FALSE
    /\ UNCHANGED <<canon, storeVars, loopVars, logVars, walkVars, handlerVars, anchor>>

\* Any error of the store, not only ErrNotFound, means a fresh start.
StartFresh ==
    /\ pc = "stopped"
    /\ LastRecord = {} \/ StoreFails
    /\ pc' = "starting" /\ cancelled' = FALSE
    /\ blockNum' = IF GenesisBlockNumber > 0 THEN GenesisBlockNumber ELSE GetLatestBlock
    /\ UNCHANGED <<canon, storeVars, last, target, block, logVars, walkVars, handlerVars, anchor>>

\* The start block is saved as processed.  It is not handed to the handler.
StartAnchor ==
    /\ pc = "starting" /\ ~cancelled
    /\ LET start == RecordOf(GetBlockByNumber(blockNum), ChainId)
       IN  /\ Store!SaveBlock(start)
           /\ anchor' = start.number
    /\ Return
    /\ UNCHANGED <<canon, cancelled, handlerVars>>

StartFails ==
    /\ pc = "starting"
    /\ RpcFails \/ StoreFails
    /\ pc' = "stopped" /\ LocalsDropped
    /\ UNCHANGED <<canon, storeVars, cancelled, handlerVars, anchor>>

-----------------------------------------------------------------------------
(* pollForBlocks and the loop of processNextBlock *)

LoopExits ==
    /\ pc = "waiting" /\ cancelled
    /\ pc' = "stopped"
    /\ UNCHANGED <<canon, storeVars, cancelled, loopVars, logVars, walkVars, handlerVars, anchor>>

\* A tick that finds something to fetch.
Tick ==
    /\ pc = "waiting" /\ ~cancelled
    /\ \E r \in LastRecord :
          /\ GetLatestBlock > r.number
          /\ last' = r
          /\ target' = GetLatestBlock
          /\ blockNum' = r.number + 1
    /\ pc' = "fetching"
    /\ UNCHANGED <<canon, storeVars, cancelled, block, logVars, walkVars, handlerVars, anchor>>

\* A tick that returns early: a failed read, or nothing above the last block.
TickSkips ==
    /\ pc = "waiting"
    /\ RpcFails \/ StoreFails \/ \A r \in LastRecord : GetLatestBlock <= r.number
    /\ UNCHANGED vars

FetchFails ==
    /\ pc = "fetching" /\ RpcFails
    /\ Return
    /\ UNCHANGED <<canon, storeVars, cancelled, handlerVars, anchor>>

\* The fetched block does not extend the last one: reconcileReorg.
FetchReorg ==
    /\ pc = "fetching" /\ ~cancelled
    /\ LET new == GetBlockByNumber(blockNum)
       IN  /\ new.parentHash # last.hash
           /\ block' = new
           /\ parentNum' = Sub(new.number, 1)
    /\ pc' = "walking"
    /\ UNCHANGED <<canon, storeVars, cancelled, last, target, blockNum, logVars, parentRec,
                   orphans, handlerVars, anchor>>

\* Mutant: the parent hash is not compared.
FetchAcceptUnchecked ==
    /\ pc = "fetching" /\ ~cancelled
    /\ block' = GetBlockByNumber(blockNum)
    /\ view' = view \cup {GetBlockByNumber(blockNum)}
    /\ pending' = Batches
    /\ pc' = "logs"
    /\ UNCHANGED <<canon, storeVars, cancelled, last, target, blockNum, replies, fetchErr,
                   walkVars, logged, anchor>>

\* The fetched block extends the last one and is handed to HandleBlock, whose
\* error is only logged; then its logs are requested, one goroutine per batch.
FetchAccept ==
    /\ pc = "fetching" /\ ~cancelled
    /\ LET new == GetBlockByNumber(blockNum)
       IN  /\ new.parentHash = last.hash
           /\ block' = new
           /\ \/ view' = view \cup {new}
              \/ Fails("blockHandler") /\ UNCHANGED view
    /\ pending' = Batches
    /\ pc' = "logs"
    /\ UNCHANGED <<canon, storeVars, cancelled, last, target, blockNum, replies, fetchErr,
                   walkVars, logged, anchor>>

-----------------------------------------------------------------------------
(* processBlockLogs *)

\* The request's context does not descend from the poller's: a cancellation
\* does not reach it.
BatchReply(b) ==
    /\ pc = "logs" /\ b \in pending
    /\ pending' = pending \ {b}
    /\ replies' = replies \cup {[batch |-> b, from |-> LogsAt(block.number)]}
    /\ UNCHANGED <<canon, storeVars, pc, cancelled, loopVars, fetchErr, walkVars, handlerVars, anchor>>

BatchFails(b) ==
    /\ pc = "logs" /\ b \in pending
    /\ Fails("logs")
    /\ pending' = pending \ {b}
    /\ fetchErr' = TRUE
    /\ UNCHANGED <<canon, storeVars, pc, cancelled, loopVars, replies, walkVars, handlerVars, anchor>>

\* The answers are concatenated in the order they arrived, any order of batches.
HandleLog(reply) ==
    /\ pc = "logs" /\ pending = {} /\ ~fetchErr
    /\ reply \in replies
    /\ reply.from \notin Undecodable
    /\ logged' = logged \cup {[block |-> block, batch |-> reply.batch, from |-> reply.from]}
    /\ replies' = replies \ {reply}
    /\ UNCHANGED <<canon, storeVars, pc, cancelled, loopVars, pending, fetchErr, walkVars, view, anchor>>

\* Each of three failures ends the call after the block, and perhaps some of its
\* logs, were handed over; nothing is saved, and the next tick begins with the
\* same block number again.  A batch failed:
LogsFetchFails ==
    /\ pc = "logs" /\ pending = {} /\ fetchErr
    /\ Return
    /\ UNCHANGED <<canon, storeVars, cancelled, handlerVars, anchor>>

\* a log cannot be decoded:
DecodeFails ==
    /\ pc = "logs" /\ pending = {} /\ ~fetchErr
    /\ \E reply \in replies : reply.from \in Undecodable
    /\ Return
    /\ UNCHANGED <<canon, storeVars, cancelled, handlerVars, anchor>>

\* HandleLog returns an error:
HandleLogFails ==
    /\ pc = "logs" /\ pending = {} /\ ~fetchErr
    /\ Fails("logHandler")
    /\ \E reply \in replies : reply.from \notin Undecodable
    /\ Return
    /\ UNCHANGED <<canon, storeVars, cancelled, handlerVars, anchor>>

\* Mutant: a block is saved while logs of it are left.
LogsHandledEarly == pc = "logs" /\ pending = {} /\ ~fetchErr

LogsHandled == pc = "logs" /\ pending = {} /\ ~fetchErr /\ replies = {}

SaveProcessed ==
    /\ LogsHandled
    /\ Store!SaveBlock(RecordOf(block, ChainId))
    /\ pc' = "pruning"
    /\ UNCHANGED <<canon, cancelled, loopVars, logVars, walkVars, handlerVars, anchor>>

\* A failed save is only logged.
SaveProcessedFails ==
    /\ LogsHandled
    /\ StoreFails
    /\ pc' = "pruning"
    /\ UNCHANGED <<canon, storeVars, cancelled, loopVars, logVars, walkVars, handlerVars, anchor>>

\* Mutant: one off at the lowest block.
PruneDueLate == BlockHistorySize > 0 /\ block.number > BlockHistorySize + 1

PruneDue == BlockHistorySize > 0 /\ block.number > BlockHistorySize

\* Mutant: the next block is compared with the same parent again.
AdvanceStale ==
    IF blockNum < target
      THEN /\ blockNum' = blockNum + 1
           /\ block' = NullBlock
           /\ pc' = "fetching"
           /\ UNCHANGED <<last, target, logVars, walkVars>>
      ELSE Return

\* The record built from the block is the next parent; the loop goes on or ends.
Advance ==
    IF blockNum < target
      THEN /\ last' = RecordOf(block, ChainId)
           /\ blockNum' = blockNum + 1
           /\ block' = NullBlock
           /\ pc' = "fetching"
           /\ UNCHANGED <<target, logVars, walkVars>>
      ELSE Return

Prune ==
    /\ pc = "pruning" /\ PruneDue
    /\ Store!DeleteBlock(ChainId, block.number - BlockHistorySize)
    /\ Advance
    /\ UNCHANGED <<canon, cancelled, handlerVars, anchor>>

\* Nothing to prune, nothing there, or a failure that is only logged.
PruneSkips ==
    /\ pc = "pruning"
    /\ \/ ~PruneDue
       \/ Store!GetBlock(ChainId, block.number - BlockHistorySize) = {}
       \/ StoreFails
    /\ Advance
    /\ UNCHANGED <<canon, storeVars, cancelled, handlerVars, anchor>>

-----------------------------------------------------------------------------
(* findOrphanedBlocks: from the parent of the fetched block downwards *)

\* Mutants: one block less, one block more than MaxReorgDepth.
InShorterSearch == Sub(block.number, parentNum) < MaxReorgDepth /\ parentNum > 0
InLongerSearch == Sub(block.number, parentNum) <= MaxReorgDepth + 1 /\ parentNum > 0

InSearch == Sub(block.number, parentNum) <= MaxReorgDepth /\ parentNum > 0

Stored == Store!GetBlock(ChainId, parentNum)

WalkFails ==
    /\ pc = "walking" /\ InSearch
    /\ RpcFails \/ StoreFails
    /\ Return
    /\ UNCHANGED <<canon, storeVars, cancelled, handlerVars, anchor>>

\* The record differs from the canonical block: an orphan, look further down.
WalkOrphan ==
    /\ pc = "walking" /\ InSearch /\ ~cancelled
    /\ \E r \in Stored :
          /\ r.hash # GetBlockByNumber(parentNum).hash
          /\ orphans' = Append(orphans, r)
          /\ parentRec' = {r}
    /\ parentNum' = parentNum - 1
    /\ UNCHANGED <<canon, storeVars, pc, cancelled, loopVars, logVars, handlerVars, anchor>>

\* The record is the canonical block: the common ancestor.
WalkMatch ==
    /\ pc = "walking" /\ InSearch /\ ~cancelled
    /\ \E r \in Stored :
          /\ r.hash = GetBlockByNumber(parentNum).hash
          /\ parentRec' = {r}
    /\ pc' = "settling"
    /\ UNCHANGED <<canon, storeVars, cancelled, loopVars, logVars, parentNum, orphans,
                   handlerVars, anchor>>

\* A record saved below the first one moves the beginning of the chain down.
AnchorAt(r) ==
    anchor' = IF r.chainId = ChainId /\ r.number < anchor THEN r.number ELSE anchor

\* There is no record: one is made of the canonical block, with the chain id
\* the client gave it, and saved; it then counts as the common ancestor.
WalkMissing ==
    /\ pc = "walking" /\ InSearch /\ ~cancelled
    /\ ~closed /\ Stored = {}
    /\ LET found == RecordOf(GetBlockByNumber(parentNum), ClientChainId)
       IN  /\ parentRec' = {found}
           /\ \/ Store!SaveBlock(found) /\ AnchorAt(found)
              \/ Fails("store") /\ UNCHANGED <<storeVars, anchor>>
    /\ pc' = "settling"
    /\ UNCHANGED <<canon, cancelled, loopVars, logVars, parentNum, orphans, handlerVars>>

\* The search ends at its depth or at block 0, with the lowest orphan, if any,
\* in parentBlockRecord.
WalkExhausted ==
    /\ pc = "walking" /\ ~InSearch
    /\ pc' = "settling"
    /\ UNCHANGED <<canon, storeVars, cancelled, loopVars, logVars, walkVars, handlerVars, anchor>>

\* Mutant: the ancestor is found but not saved as the last processed block.
SettleWithoutSave ==
    /\ pc = "settling" /\ ~closed /\ parentRec # {}
    /\ IF orphans = <<>>
         THEN Return
         ELSE pc' = "undoing" /\ UNCHANGED <<loopVars, logVars, walkVars>>
    /\ UNCHANGED <<canon, storeVars, cancelled, handlerVars, anchor>>

\* SaveBlock(parentBlockRecord) rewinds the last processed block before any
\* orphan is undone.  Without orphans reconcileReorg is an error.
Settle ==
    /\ pc = "settling"
    /\ \E r \in parentRec : Store!SaveBlock(r) /\ AnchorAt(r)
    /\ IF orphans = <<>>
         THEN Return
         ELSE pc' = "undoing" /\ UNCHANGED <<loopVars, logVars, walkVars>>
    /\ UNCHANGED <<canon, cancelled, handlerVars>>

\* The save fails, for a nil record always.
SettleFails ==
    /\ pc = "settling"
    /\ parentRec = {} \/ StoreFails
    /\ Return
    /\ UNCHANGED <<canon, storeVars, cancelled, handlerVars, anchor>>

-----------------------------------------------------------------------------
(* reconcileReorg: the orphans, highest first *)

\* HandleReorgBlock has the handler drop what it holds of a number.
HandleReorgBlock(n) ==
    /\ view' = {b \in view : b.number # n}
    /\ logged' = {l \in logged : l.block.number # n}

\* Mutant: the handler is not told.
ReportNothing ==
    /\ pc = "undoing"
    /\ pc' = "deleting"
    /\ UNCHANGED <<canon, storeVars, cancelled, loopVars, logVars, walkVars, handlerVars, anchor>>

\* The next orphan is reported; its record is still there.
Report ==
    /\ pc = "undoing"
    /\ HandleReorgBlock(Head(orphans).number)
    /\ pc' = "deleting"
    /\ UNCHANGED <<canon, storeVars, cancelled, loopVars, logVars, walkVars, anchor>>

\* Mutant: only the highest orphan is undone.
UndoneAfterOne == Return

Undone ==
    IF Len(orphans) = 1
      THEN Return
      ELSE /\ orphans' = Tail(orphans)
           /\ pc' = "undoing"
           /\ UNCHANGED <<loopVars, logVars, parentNum, parentRec>>

\* DeleteBlock; that the record is not there is no error here.
Undo ==
    /\ pc = "deleting" /\ ~closed
    /\ blocks' = blocks \ Store!GetBlock(Head(orphans).chainId, Head(orphans).number)
    /\ Undone
    /\ UNCHANGED <<canon, closed, lastProcessedBlocks, cancelled, handlerVars, anchor>>

\* The deletion fails: the remaining orphans are neither reported nor deleted.
UndoFails ==
    /\ pc = "deleting" /\ StoreFails
    /\ Return
    /\ UNCHANGED <<canon, storeVars, cancelled, handlerVars, anchor>>

-----------------------------------------------------------------------------
Start == StartResume \/ StartFresh \/ StartAnchor \/ StartFails

ProcessNextBlock == LoopExits \/ Tick \/ TickSkips \/ FetchFails \/ FetchReorg \/ FetchAccept

ProcessBlockLogs ==
    \/ \E b \in Batches : BatchReply(b) \/ BatchFails(b)
    \/ \E reply \in replies : HandleLog(reply)
    \/ LogsFetchFails \/ DecodeFails \/ HandleLogFails
    \/ SaveProcessed \/ SaveProcessedFails \/ Prune \/ PruneSkips

ReconcileReorg ==
    \/ WalkFails \/ WalkOrphan \/ WalkMatch \/ WalkMissing \/ WalkExhausted
    \/ Settle \/ SettleFails \/ Report \/ Undo \/ UndoFails

Environment == ChainMoves \/ CloseStore \/ Cancel \/ Crash

Next == Environment \/ Start \/ ProcessNextBlock \/ ProcessBlockLogs \/ ReconcileReorg

Spec == Init /\ [][Next]_vars

-----------------------------------------------------------------------------
(* Fairness: the application starts the poller again when it has stopped, the *)
(* ticker fires, and the goroutine is scheduled as long as it can take a step *)
(* that is not a failure, or that is one because its context was cancelled.   *)

CallFails == StartFails \/ FetchFails \/ WalkFails

Progress ==
    \/ StartResume \/ StartFresh \/ StartAnchor
    \/ LoopExits \/ Tick \/ FetchReorg \/ FetchAccept
    \/ \E b \in Batches : BatchReply(b)
    \/ \E reply \in replies : HandleLog(reply)
    \/ LogsFetchFails \/ DecodeFails \/ SaveProcessed \/ Prune \/ PruneSkips
    \/ WalkOrphan \/ WalkMatch \/ WalkMissing \/ WalkExhausted
    \/ Settle \/ SettleFails \/ Report \/ Undo
    \/ cancelled /\ CallFails

FairSpec == Spec /\ WF_vars(Progress)

\* A request, a callback or the process is made to fail.
Interruption ==
    \/ ~cancelled /\ CallFails
    \/ \E b \in Batches : BatchFails(b)
    \/ HandleLogFails \/ Cancel \/ Crash

-----------------------------------------------------------------------------
(* Properties *)

\* Every variable keeps its type; the store's part of it is the store's own.
TypeOK ==
    /\ canon \in Chains
    /\ Store!TypeOK
    /\ pc \in PcStates
    /\ cancelled \in BOOLEAN
    /\ last \in BlockRecord
    /\ target \in Uint64 /\ blockNum \in Uint64
    /\ block \in Block
    /\ pending \subseteq Batches
    /\ replies \subseteq [batch : Batches, from : AnyHash]
    /\ fetchErr \in BOOLEAN
    /\ parentNum \in Uint64
    /\ parentRec \subseteq BlockRecord
    /\ orphans \in Seq(BlockRecord)
    /\ view \subseteq Block
    /\ logged \subseteq [block : Block, batch : Batches, from : AnyHash]
    /\ anchor \in Uint64

\* The records the poller goes by: its chain's, from the one the chain was
\* anchored at up to the last processed one.
Index ==
    {r \in blocks : /\ r.chainId = ChainId
                    /\ anchor <= r.number
                    /\ r.number <= lastProcessedBlocks[ChainId]}

\* The records of the blocks that are on some chain, and of a null answer.
TrueRecords ==
    {NullRecord} \cup
    UNION {{[chainId |-> ChainId, number |-> n - 1, hash |-> c[n],
             parentHash |-> IF n = 1 THEN ZeroHash ELSE c[n - 1]] : n \in 1 .. Len(c)} :
           c \in Chains}

Abstract == INSTANCE IndexedChain WITH Block <- TrueRecords, index <- Index

\* The poller implements IndexedChain: across restarts, crashes and reorgs the
\* records it goes by grow only by true blocks that extend the last one, and
\* shrink only from the top, by pruning or with the store
\* (evmChainPoller.go:316, 323, 469, 536).
ImplementsIndexedChain == Abstract!Spec

\* Records at adjacent heights up to the last processed block are parent and
\* child, whatever reorgs, restarts and failed calls came before: the parent
\* check of processNextBlock (evmChainPoller.go:226) compares against a record
\* it read before the fetch, and rewinds leave stale records above.
RecordsLinked ==
    \A r, s \in Index : s.number = r.number + 1 => s.parentHash = r.hash

\* A block recorded as processed has been handed to HandleBlock and all its log
\* batches to HandleLog, and neither has been invalidated since
\* (evmChainPoller.go:239, 300, 316): no crash, retry or reorg leaves a committed
\* block that the application does not hold, as long as no search ends without an
\* ancestor.  (One that does makes an orphan the last processed block, line 541; a
\* crash after that orphan was reported, line 467, and before it is deleted, line
\* 469, leaves it committed.)
CommittedDelivered ==
    \A r \in Index :
       r.number > anchor =>
          /\ [number |-> r.number, hash |-> r.hash, parentHash |-> r.parentHash] \in view
          /\ \A b \in Batches :
                \E l \in logged : /\ l.block.number = r.number
                                  /\ l.block.hash = r.hash
                                  /\ l.batch = b

\* What the handler holds is one chain at every moment, also half way through a
\* reorg: no two blocks of one height, neighbours are parent and child
\* (evmChainPoller.go:233, 466: orphans are reported, highest first, before the
\* blocks that replace them).
ViewIsChain ==
    \A b, d \in view :
       /\ b.number = d.number => b = d
       /\ d.number = b.number + 1 => d.parentHash = b.hash

\* Between two polls the handler holds nothing above the last processed block
\* and agrees with every record: each retracted block was reported through
\* HandleReorgBlock (evmChainPoller.go:467).
ViewMatchesRecords ==
    pc = "waiting" /\ ~closed =>
       \A b \in view :
          /\ b.number <= lastProcessedBlocks[ChainId]
          /\ \A r \in Index : r.number = b.number => r.hash = b.hash

\* Once a block has been processed there is a last processed block to go on
\* from, "last processed block must exist" (evmChainPoller.go:158): no reorg
\* deletes the record that lastProcessedBlocks names.
LastExists ==
    lastProcessedBlocks[ChainId] # Store!NoBlock => LastRecord # {}

\* "Save the block from canonical chain to storage since it was missing"
\* (evmChainPoller.go:509): when the search ends at a height that had no record,
\* the poller's chain has one there now.
MissingBlockSaved == pc = "settling" /\ InSearch /\ ~closed => Stored # {}

\* One reorg rewinds the last processed block by less than MaxReorgDepth, up to
\* uint64 wrap-around in the search (evmChainPoller.go:483): no failure of the
\* endpoint, the store or the handler rewinds it further; only Start, a crash or
\* Close may.
RewindBounded ==
    [][pc \notin {"stopped", "starting"} /\ pc' # "stopped" /\ ~closed' =>
          lastProcessedBlocks'[ChainId] > lastProcessedBlocks[ChainId] - MaxReorgDepth]_vars

\* BlockHistorySize bounds the records kept (evmChainPoller.go:322), one more
\* between a save and its prune: a rewind and the blocks that follow it do not
\* leave records the pruning no longer meets.
HistoryBounded ==
    LET kept == {r.number : r \in {s \in blocks : s.chainId = ChainId}}
    IN  \A m, n \in kept :
           n - m < BlockHistorySize + (IF pc = "pruning" THEN 1 ELSE 0)

\* The last processed block is the head of the canonical chain.
CaughtUp == \E r \in LastRecord : r.hash = canon[Len(canon)]

\* When the poller is idle at the head, the logs the handler holds for a recorded
\* block are that block's: logs asked for by number while the chain moved on
\* (evmChainPoller.go:409) were handed over for a block that was undone since, and
\* a block that is handed over again after a failure takes no logs of another.
LogsMatchBlock ==
    pc = "waiting" /\ CaughtUp =>
       \A l \in logged : RecordOf(l.block, ChainId) \in Index => l.from = l.block.hash

\* When the chain comes to rest and interruptions cease, the poller reaches the
\* head and stays there, whatever state they left it in: every reorg is detected,
\* searched, undone and replayed (evmChainPoller.go:183).
CatchesUp == <>[][~Interruption]_vars => <>[]CaughtUp

-----------------------------------------------------------------------------
(* Why RecordsLinked is kept by every step: what the locals know of the store *)

\* The start block exists when it is asked for.
StartBlockExists ==
    /\ GenesisBlockNumber > 0 => \A c \in Chains : GenesisBlockNumber < Len(c)
    /\ GenesisBlockNumber = 0 => \A m \in Moves : Len(m[1]) <= Len(m[2])

\* An open store does not fail, and the blocks of the client carry no chain id
\* of their own, as EthereumClient's do not.
PlainSetting ==
    /\ "store" \notin Faults
    /\ ClientChainId # ChainId
    /\ StartBlockExists

\* Blocks become final: up to the height final[c], at or above the start block and
\* less than MaxReorgDepth below the head of c, no later chain differs from c, and
\* no later chain has a lower one.
Finality(final) ==
    /\ \A c \in Chains : /\ final[c] \in GenesisBlockNumber .. Len(c) - 1
                         /\ Len(c) - 1 < final[c] + MaxReorgDepth
    /\ \A m \in Moves : /\ final[m[1]] <= final[m[2]]
                        /\ \A n \in 1 .. final[m[1]] + 1 : m[1][n] = m[2][n]

\* The records that are kept reach as far down as the search, and the start block
\* is configured.
FinalSetting(final) ==
    /\ PlainSetting
    /\ Finality(final)
    /\ GenesisBlockNumber > 0
    /\ BlockHistorySize = 0 \/ BlockHistorySize >= MaxReorgDepth

\* Records are pruned, and the process does not end half way through a reorg with a
\* store that outlives it.
HistorySetting == BlockHistorySize > 0 /\ ("crash" \in Faults => ~Durable)

\* No call of HandleBlock fails.
DeliverySetting == "blockHandler" \notin Faults

\* The process lives on, and every block that is handed over is recorded.
ViewSetting ==
    /\ Faults \subseteq {"rpc", "blockHandler", "close", "cancel"}
    /\ Undecodable = {}

HashesOf(c) == {c[n] : n \in 1 .. Len(c)}

\* A block that has left the chain does not come back: left[c] are the blocks the
\* endpoint has shown, and shown no more, before it shows c.
NoReturn(left) ==
    /\ \A c \in Chains : left[c] \cap HashesOf(c) = {}
    /\ \A m \in Moves : left[m[1]] \cup (HashesOf(m[1]) \ HashesOf(m[2])) \subseteq left[m[2]]

TypeInv ==
    /\ TypeOK
    /\ pc \in {"undoing", "deleting"} => orphans # <<>>

Processed == lastProcessedBlocks[ChainId]

\* A closed store is empty, and no record is that of a null answer.
StoreInv ==
    /\ closed => blocks = {}
    /\ \A r \in blocks : r.chainId = ChainId => r.hash # NoHash /\ r.number < MaxUint64
    /\ pc = "starting" =>
          /\ blockNum < Len(canon)
          /\ GenesisBlockNumber > 0 => blockNum = GenesisBlockNumber

\* The parent a block is compared with is the last processed record.
ParentInv ==
    pc \in {"fetching", "logs"} =>
       /\ last.chainId = ChainId /\ last.hash # NoHash /\ blockNum = last.number + 1
       /\ ~closed => last \in blocks /\ last.number = Processed

\* The block in hand follows that parent, and once saved is the last processed one.
BlockInv ==
    /\ pc \in {"logs", "pruning"} =>
          block.hash # NoHash /\ block.number = blockNum /\ block.number < MaxUint64
    /\ pc = "logs" => block.parentHash = last.hash
    /\ pc = "pruning" /\ ~closed =>
          RecordOf(block, ChainId) \in blocks /\ block.number = Processed

\* The search looks at or below the last processed block, or, for a null block,
\* at the number the wrap-around gives; what it found is still stored.
WalkInv ==
    /\ pc \notin {"walking", "settling", "undoing", "deleting"} => parentRec = {}
    /\ pc = "walking" /\ ~closed => parentNum <= Processed \/ parentNum = MaxUint64
    /\ pc \in {"walking", "settling"} /\ ~closed =>
          \A r \in parentRec : r.chainId = ChainId => r \in blocks /\ r.number <= Processed

LinkedInv == TypeInv /\ StoreInv /\ ParentInv /\ BlockInv /\ WalkInv /\ RecordsLinked

=============================================================================
