------------------------ MODULE EVMChainPollerProofs ------------------------
(***************************************************************************)
(* Theorems about EVMChainPoller, for every set of chains, every move of   *)
(* the endpoint between them and every configuration of the poller.        *)
(***************************************************************************)
EXTENDS EVMChainPoller, TLAPS

-----------------------------------------------------------------------------
(* The operators the actions are built from *)

\* GetBlockByNumber answers every request with a block, a null one if need be.
LEMMA FetchedBlock ==
    ASSUME canon \in Chains, NEW n \in Uint64
    PROVE  GetBlockByNumber(n) \in Block
<1>1. canon \in Seq(Hash) /\ Len(canon) \in 1 .. MaxUint64
  BY ChainAssumption
<1>2. MaxUint64 \in Nat
  BY ConfigAssumption
<1>3. CASE n < Len(canon)
  <2>1. canon[n + 1] \in Hash
    BY <1>1, <1>3 DEF Uint64
  <2>2. n # 0 => canon[n] \in Hash
    BY <1>1, <1>3 DEF Uint64
  <2> QED
    BY <1>3, <2>1, <2>2 DEF GetBlockByNumber, Block, AnyHash
<1>4. CASE ~(n < Len(canon))
  BY <1>2, <1>4 DEF GetBlockByNumber, NullBlock, Block, AnyHash, Uint64
<1> QED
  BY <1>3, <1>4

\* The number of the head is a uint64.
LEMMA LatestBlock ==
    ASSUME canon \in Chains
    PROVE  GetLatestBlock \in Uint64
BY ChainAssumption, ConfigAssumption DEF GetLatestBlock, Uint64

\* A block with a chain id is a record.
LEMMA RecordOfBlock ==
    ASSUME NEW b \in Block, NEW c \in ChainIds
    PROVE  RecordOf(b, c) \in BlockRecord
BY DEF RecordOf, Block, BlockRecord

\* What a JSON null becomes is a block and a record.
LEMMA NullBlockType == NullBlock \in Block /\ NullRecord \in BlockRecord
BY ConfigAssumption DEF NullBlock, NullRecord, RecordOf, Block, BlockRecord, AnyHash, Uint64

\* Saving a record keeps the store well-formed.
LEMMA SaveBlockType ==
    ASSUME Store!TypeOK, NEW b \in BlockRecord, Store!SaveBlock(b)
    PROVE  Store!TypeOK'
BY DEF Store!TypeOK, Store!SaveBlock, Store!GetBlock, Store!HasKey, Store!BlockRecord,
       BlockRecord

\* Deleting a record keeps the store well-formed.
LEMMA DeleteBlockType ==
    ASSUME Store!TypeOK, NEW c, NEW n, Store!DeleteBlock(c, n)
    PROVE  Store!TypeOK'
BY DEF Store!TypeOK, Store!DeleteBlock, Store!GetBlock, Store!HasKey

-----------------------------------------------------------------------------
(* Type correctness *)

\* The locals of a finished call have their types.
LEMMA LocalsDroppedType ==
    ASSUME LocalsDropped
    PROVE  /\ last' \in BlockRecord /\ block' \in Block
           /\ target' \in Uint64 /\ blockNum' \in Uint64 /\ parentNum' \in Uint64
           /\ pending' = {} /\ replies' = {} /\ fetchErr' = FALSE
           /\ parentRec' = {} /\ orphans' = <<>>
BY NullBlockType, ConfigAssumption DEF LocalsDropped, Uint64

\* Types before anything has run.
LEMMA TypeInit == Init => TypeInv
<1> SUFFICES ASSUME Init PROVE TypeInv
  OBVIOUS
<1>1. Store!TypeOK
  BY DEF Init, Store!New, Store!TypeOK
<1>2. 0 \in Uint64
  BY ConfigAssumption DEF Uint64
<1>3. orphans \in Seq(BlockRecord)
  BY DEF Init
<1>4. cancelled \in BOOLEAN /\ fetchErr \in BOOLEAN
  BY Zenon DEF Init
<1>5. pc \in PcStates /\ pc \notin {"undoing", "deleting"}
  BY DEF Init, PcStates
<1> QED
  BY <1>1, <1>2, <1>3, <1>4, <1>5, NullBlockType DEF Init, TypeInv, TypeOK

\* Types while the world moves.
LEMMA TypeEnvironment ==
    ASSUME TypeInv, Environment
    PROVE  TypeInv'
<1> USE DEF TypeInv, TypeOK
<1>1. CASE ChainMoves
  BY <1>1 DEF ChainMoves, storeVars, loopVars, logVars, walkVars, handlerVars, Store!TypeOK
<1>2. CASE CloseStore
  <2>1. Store!TypeOK'
    BY <1>2 DEF CloseStore, Store!Close, Store!TypeOK
  <2> QED
    BY <1>2, <2>1 DEF CloseStore, loopVars, logVars, walkVars, handlerVars
<1>3. CASE Cancel
  BY <1>3 DEF Cancel, storeVars, loopVars, logVars, walkVars, handlerVars, Store!TypeOK
<1>4. CASE Crash
  <2>1. Store!TypeOK'
    BY <1>4 DEF Crash, storeVars, Store!TypeOK
  <2>2. LocalsDropped
    BY <1>4 DEF Crash
  <2>3. /\ cancelled' \in BOOLEAN /\ pc' = "stopped" /\ canon' = canon
        /\ view' = view /\ logged' = logged /\ anchor' = anchor
    BY <1>4 DEF Crash, handlerVars
  <2> QED
    BY <2>1, <2>2, <2>3, LocalsDroppedType DEF PcStates
<1> QED
  BY <1>1, <1>2, <1>3, <1>4 DEF Environment

\* Types through Start.
LEMMA TypeStart ==
    ASSUME TypeInv, Start
    PROVE  TypeInv'
<1> USE DEF TypeInv, TypeOK
<1>1. CASE StartResume
  BY <1>1 DEF StartResume, storeVars, loopVars, logVars, walkVars, handlerVars,
              Store!TypeOK, PcStates
<1>2. CASE StartFresh
  <2>1. blockNum' \in Uint64
    BY <1>2, LatestBlock, ConfigAssumption DEF StartFresh, Uint64
  <2> QED
    BY <1>2, <2>1 DEF StartFresh, storeVars, logVars, walkVars, handlerVars,
                      Store!TypeOK, PcStates
<1>3. CASE StartAnchor
  <2> DEFINE start == RecordOf(GetBlockByNumber(blockNum), ChainId)
  <2>1. start \in BlockRecord
    BY FetchedBlock, RecordOfBlock, ConfigAssumption
  <2>2. Store!SaveBlock(start) /\ anchor' = start.number /\ Return
    BY <1>3 DEF StartAnchor
  <2>3. Store!TypeOK' /\ anchor' \in Uint64
    BY <2>1, <2>2, SaveBlockType DEF BlockRecord
  <2>4. LocalsDropped
    BY <2>2 DEF Return
  <2> QED
    BY <1>3, <2>2, <2>3, <2>4, LocalsDroppedType DEF StartAnchor, Return, handlerVars, PcStates
<1>4. CASE StartFails
  <2>1. LocalsDropped
    BY <1>4 DEF StartFails
  <2> QED
    BY <1>4, <2>1, LocalsDroppedType DEF StartFails, storeVars, handlerVars, Store!TypeOK, PcStates
<1> QED
  BY <1>1, <1>2, <1>3, <1>4 DEF Start

\* A call that returns and leaves the store well-formed keeps the types.
LEMMA TypeReturn ==
    ASSUME TypeInv, Return, Store!TypeOK', canon' = canon, cancelled' = cancelled,
           view' \subseteq view, logged' \subseteq logged, anchor' \in Uint64
    PROVE  TypeInv'
<1>1. LocalsDropped
  BY DEF Return
<1> QED
  BY <1>1, LocalsDroppedType DEF Return, TypeInv, TypeOK, PcStates

\* The same for one that leaves the store alone.
LEMMA TypeReturnQuietly ==
    ASSUME TypeInv, Return, UNCHANGED <<canon, storeVars, cancelled, handlerVars, anchor>>
    PROVE  TypeInv'
<1>1. Store!TypeOK'
  BY DEF TypeInv, TypeOK, Store!TypeOK, storeVars
<1> QED
  BY <1>1, TypeReturn DEF TypeInv, TypeOK, handlerVars

\* Types through the poll loop and processNextBlock.
LEMMA TypeProcessNextBlock ==
    ASSUME TypeInv, ProcessNextBlock
    PROVE  TypeInv'
<1> USE DEF TypeInv, TypeOK
<1>1. CASE LoopExits
  BY <1>1 DEF LoopExits, storeVars, loopVars, logVars, walkVars, handlerVars,
              Store!TypeOK, PcStates
<1>2. CASE Tick
  <2>1. PICK r \in LastRecord :
           /\ GetLatestBlock > r.number
           /\ last' = r /\ target' = GetLatestBlock /\ blockNum' = r.number + 1
    BY <1>2 DEF Tick
  <2>2. r \in BlockRecord
    BY <2>1 DEF LastRecord, Store!GetLastProcessedBlock, Store!GetBlock, Store!TypeOK,
                Store!BlockRecord, BlockRecord
  <2>3. last' \in BlockRecord /\ target' \in Uint64 /\ blockNum' \in Uint64
    BY <2>1, <2>2, LatestBlock, ConfigAssumption DEF BlockRecord, Uint64
  <2> QED
    BY <1>2, <2>3 DEF Tick, storeVars, logVars, walkVars, handlerVars, Store!TypeOK, PcStates
<1>3. CASE TickSkips
  BY <1>3 DEF TickSkips, vars, storeVars, loopVars, logVars, walkVars, handlerVars, Store!TypeOK
<1>4. CASE FetchFails
  BY <1>4, TypeReturnQuietly DEF FetchFails
<1>5. CASE FetchReorg
  <2>1. block' \in Block /\ parentNum' = Sub(block'.number, 1)
    BY <1>5, FetchedBlock DEF FetchReorg
  <2>2. parentNum' \in Uint64
    BY <2>1, ConfigAssumption DEF Sub, Block, Uint64
  <2> QED
    BY <1>5, <2>1, <2>2 DEF FetchReorg, storeVars, logVars, handlerVars, Store!TypeOK, PcStates
<1>6. CASE FetchAccept
  <2>1. block' \in Block /\ view' \subseteq Block
    BY <1>6, FetchedBlock DEF FetchAccept
  <2> QED
    BY <1>6, <2>1 DEF FetchAccept, storeVars, walkVars, Store!TypeOK, PcStates
<1> QED
  BY <1>1, <1>2, <1>3, <1>4, <1>5, <1>6 DEF ProcessNextBlock

\* The end of an iteration keeps the types.
LEMMA TypeAdvance ==
    ASSUME TypeInv, Advance, Store!TypeOK', UNCHANGED <<canon, cancelled, handlerVars, anchor>>
    PROVE  TypeInv'
<1>1. CASE blockNum < target
  <2>1. last' \in BlockRecord /\ blockNum' \in Uint64 /\ block' \in Block
    BY <1>1, RecordOfBlock, NullBlockType, ConfigAssumption
       DEF Advance, TypeInv, TypeOK, Uint64
  <2> QED
    BY <1>1, <2>1 DEF Advance, TypeInv, TypeOK, logVars, walkVars, handlerVars, PcStates
<1>2. CASE ~(blockNum < target)
  BY <1>2, TypeReturn DEF Advance, TypeInv, TypeOK, handlerVars
<1> QED
  BY <1>1, <1>2

\* Types through processBlockLogs.
LEMMA TypeProcessBlockLogs ==
    ASSUME TypeInv, ProcessBlockLogs
    PROVE  TypeInv'
<1> USE DEF TypeInv, TypeOK
<1>1. ASSUME NEW b \in Batches, BatchReply(b)
      PROVE  TypeInv'
  <2>1. LogsAt(block.number) \in AnyHash
    BY ChainAssumption, ConfigAssumption DEF LogsAt, AnyHash, Block, Uint64
  <2> QED
    BY <1>1, <2>1 DEF BatchReply, storeVars, loopVars, walkVars, handlerVars, Store!TypeOK
<1>2. ASSUME NEW b \in Batches, BatchFails(b)
      PROVE  TypeInv'
  BY <1>2 DEF BatchFails, storeVars, loopVars, walkVars, handlerVars, Store!TypeOK
<1>3. ASSUME NEW reply \in replies, HandleLog(reply)
      PROVE  TypeInv'
  BY <1>3 DEF HandleLog, storeVars, loopVars, walkVars, Store!TypeOK
<1>4. CASE LogsFetchFails \/ DecodeFails \/ HandleLogFails
  BY <1>4, TypeReturnQuietly DEF LogsFetchFails, DecodeFails, HandleLogFails
<1>5. CASE SaveProcessed
  <2>1. Store!TypeOK'
    BY <1>5, RecordOfBlock, SaveBlockType, ConfigAssumption DEF SaveProcessed
  <2> QED
    BY <1>5, <2>1 DEF SaveProcessed, loopVars, logVars, walkVars, handlerVars, PcStates
<1>6. CASE SaveProcessedFails
  BY <1>6 DEF SaveProcessedFails, storeVars, loopVars, logVars, walkVars, handlerVars,
              Store!TypeOK, PcStates
<1>7. CASE Prune
  BY <1>7, DeleteBlockType, TypeAdvance DEF Prune
<1>8. CASE PruneSkips
  <2>1. Store!TypeOK'
    BY <1>8 DEF PruneSkips, storeVars, Store!TypeOK
  <2> QED
    BY <1>8, <2>1, TypeAdvance DEF PruneSkips
<1> QED
  BY <1>1, <1>2, <1>3, <1>4, <1>5, <1>6, <1>7, <1>8 DEF ProcessBlockLogs

\* Types through the search and the undoing.
LEMMA TypeReconcileReorg ==
    ASSUME TypeInv, ReconcileReorg
    PROVE  TypeInv'
<1> USE DEF TypeInv, TypeOK
<1>1. CASE WalkFails
  BY <1>1, TypeReturnQuietly DEF WalkFails
<1>2. Stored \subseteq BlockRecord
  BY DEF Stored, Store!GetBlock, Store!TypeOK, Store!BlockRecord, BlockRecord
<1>3. CASE WalkOrphan
  <2>1. PICK r \in Stored : orphans' = Append(orphans, r) /\ parentRec' = {r}
    BY <1>3 DEF WalkOrphan
  <2>2. orphans' \in Seq(BlockRecord) /\ parentRec' \subseteq BlockRecord
    BY <1>2, <2>1
  <2>3. parentNum' \in Uint64
    BY <1>3, ConfigAssumption DEF WalkOrphan, InSearch, Uint64
  <2> QED
    BY <1>3, <2>2, <2>3 DEF WalkOrphan, storeVars, loopVars, logVars, handlerVars, Store!TypeOK
<1>4. CASE WalkMatch
  BY <1>2, <1>4 DEF WalkMatch, storeVars, loopVars, logVars, handlerVars, Store!TypeOK, PcStates
<1>5. CASE WalkMissing
  <2> DEFINE found == RecordOf(GetBlockByNumber(parentNum), ClientChainId)
  <2>1. found \in BlockRecord
    BY FetchedBlock, RecordOfBlock, ConfigAssumption
  <2>2. CASE Store!SaveBlock(found) /\ AnchorAt(found)
    <3>1. Store!TypeOK' /\ anchor' \in Uint64
      BY <2>1, <2>2, SaveBlockType DEF AnchorAt, BlockRecord
    <3> QED
      BY <1>5, <2>1, <3>1 DEF WalkMissing, loopVars, logVars, handlerVars, PcStates
  <2>3. CASE UNCHANGED <<storeVars, anchor>>
    <3>1. Store!TypeOK' /\ anchor' \in Uint64
      BY <2>3 DEF storeVars, Store!TypeOK
    <3> QED
      BY <1>5, <2>1, <3>1 DEF WalkMissing, loopVars, logVars, handlerVars, PcStates
  <2> QED
    BY <1>5, <2>2, <2>3 DEF WalkMissing
<1>6. CASE WalkExhausted
  BY <1>6 DEF WalkExhausted, storeVars, loopVars, logVars, walkVars, handlerVars,
              Store!TypeOK, PcStates
<1>7. CASE Settle
  <2>1. PICK r \in parentRec : Store!SaveBlock(r) /\ AnchorAt(r)
    BY <1>7 DEF Settle
  <2>2. Store!TypeOK' /\ anchor' \in Uint64
    BY <2>1, SaveBlockType DEF AnchorAt, BlockRecord
  <2>3. CASE orphans = <<>>
    BY <1>7, <2>2, <2>3, TypeReturn DEF Settle, handlerVars
  <2>4. CASE orphans # <<>>
    BY <1>7, <2>2, <2>4 DEF Settle, loopVars, logVars, walkVars, handlerVars, PcStates
  <2> QED
    BY <2>3, <2>4
<1>8. CASE SettleFails
  BY <1>8, TypeReturnQuietly DEF SettleFails
<1>9. CASE Undo
  <2>1. Store!TypeOK'
    BY <1>9 DEF Undo, Store!TypeOK
  <2>2. view' \subseteq view /\ logged' \subseteq logged
    BY <1>9 DEF Undo, handlerVars
  <2>3. CASE Len(orphans) = 1
    BY <1>9, <2>1, <2>2, <2>3, TypeReturn DEF Undo, Undone
  <2>4. CASE Len(orphans) # 1
    <3>1. /\ orphans' = Tail(orphans) /\ pc' = "undoing"
          /\ UNCHANGED <<loopVars, logVars, parentNum, parentRec>>
      BY <1>9, <2>4 DEF Undo, Undone
    <3>2. orphans \in Seq(BlockRecord) /\ orphans # <<>>
      BY <1>9 DEF Undo
    <3>3. Len(orphans) \in Nat /\ Len(orphans) # 0
      BY <3>2
    <3>4. Tail(orphans) \in Seq(BlockRecord) /\ Len(Tail(orphans)) = Len(orphans) - 1
      BY <3>2, <3>3
    <3>5. Tail(orphans) # <<>>
      BY <2>4, <3>3, <3>4
    <3> QED
      BY <1>9, <2>1, <2>2, <3>1, <3>4, <3>5 DEF Undo, loopVars, logVars, PcStates
  <2> QED
    BY <2>3, <2>4
<1>10. CASE UndoFails
  BY <1>10, TypeReturnQuietly DEF UndoFails
<1>11. CASE Report
  <2>1. Store!TypeOK'
    BY <1>11 DEF Report, storeVars, Store!TypeOK
  <2>2. view' \subseteq view /\ logged' \subseteq logged
    BY <1>11 DEF Report, HandleReorgBlock
  <2> QED
    BY <1>11, <2>1, <2>2 DEF Report, loopVars, logVars, walkVars, PcStates
<1> QED
  BY <1>1, <1>3, <1>4, <1>5, <1>6, <1>7, <1>8, <1>9, <1>10, <1>11 DEF ReconcileReorg

\* Types through every step.
LEMMA TypeStep ==
    ASSUME TypeInv, [Next]_vars
    PROVE  TypeInv'
<1>1. CASE Next
  BY <1>1, TypeEnvironment, TypeStart, TypeProcessNextBlock, TypeProcessBlockLogs,
     TypeReconcileReorg DEF Next
<1>2. CASE UNCHANGED vars
  BY <1>2 DEF vars, storeVars, loopVars, logVars, walkVars, handlerVars, TypeInv, TypeOK,
              Store!TypeOK
<1> QED
  BY <1>1, <1>2

\* Every reachable state is well-typed, whatever fails: the wrapped uint64
\* arithmetic of the search stays in range, the store never holds two records of
\* one height, and reconcileReorg never takes the head of an empty list.
THEOREM TypeCorrect == Spec => []TypeOK
<1>1. TypeInv => TypeOK
  BY DEF TypeInv
<1> QED
  BY <1>1, TypeInit, TypeStep, PTL DEF Spec

-----------------------------------------------------------------------------
(* Records stay linked *)

\* LinkedInv without the types.
LinkInv == StoreInv /\ ParentInv /\ BlockInv /\ WalkInv /\ RecordsLinked

\* A smaller index is linked if a larger one was.
LEMMA LinkedShrinks ==
    ASSUME RecordsLinked, Index' \subseteq Index
    PROVE  RecordsLinked'
BY DEF RecordsLinked

\* A record keeps its key for itself.
LEMMA KeyUnique ==
    ASSUME TypeInv, NEW r \in blocks, NEW s \in blocks,
           r.chainId = s.chainId, r.number = s.number
    PROVE  r = s
BY DEF TypeInv, TypeOK, Store!TypeOK, Store!HasKey

\* A block of the endpoint that is not null has the number it was asked by, and
\* neither it nor its parent hash is empty.
LEMMA FetchedReal ==
    ASSUME canon \in Chains, NEW n \in Uint64
    PROVE  \/ /\ n < Len(canon)
              /\ GetBlockByNumber(n).number = n /\ n < MaxUint64
              /\ GetBlockByNumber(n).hash # NoHash
              /\ GetBlockByNumber(n).parentHash # NoHash
           \/ ~(n < Len(canon)) /\ GetBlockByNumber(n) = NullBlock
<1>1. canon \in Seq(Hash) /\ Len(canon) \in 1 .. MaxUint64 /\ MaxUint64 \in Nat
  BY ChainAssumption, ConfigAssumption
<1>2. CASE n < Len(canon)
  <2>1. canon[n + 1] \in Hash
    BY <1>1, <1>2 DEF Uint64
  <2>2. n # 0 => canon[n] \in Hash
    BY <1>1, <1>2 DEF Uint64
  <2>3. n < MaxUint64
    BY <1>1, <1>2 DEF Uint64
  <2> QED
    BY <1>2, <2>1, <2>2, <2>3, ChainAssumption DEF GetBlockByNumber
<1>3. CASE ~(n < Len(canon))
  BY <1>3 DEF GetBlockByNumber
<1> QED
  BY <1>2, <1>3

\* A step that leaves the store alone and drops what it knew of it.
LEMMA LinkIdle ==
    ASSUME LinkInv, pc' \in {"stopped", "waiting"}, parentRec' = {},
           UNCHANGED <<storeVars, anchor>>
    PROVE  LinkInv'
<1>1. Index' = Index
  BY DEF Index, storeVars
<1>2. RecordsLinked'
  BY <1>1, LinkedShrinks DEF LinkInv
<1>3. StoreInv'
  BY DEF LinkInv, StoreInv, storeVars
<1> QED
  BY <1>2, <1>3 DEF LinkInv, ParentInv, BlockInv, WalkInv

\* Nothing is stored, so nothing is unlinked.
LEMMA LinkInit == Init => LinkInv
BY DEF Init, Store!New, LinkInv, StoreInv, ParentInv, BlockInv, WalkInv, RecordsLinked, Index

\* LinkInv while the world moves.
LEMMA LinkEnvironment ==
    ASSUME PlainSetting, TypeInv, LinkInv, Environment
    PROVE  LinkInv'
<1>1. CASE ChainMoves
  <2>1. Index' = Index
    BY <1>1 DEF ChainMoves, Index, storeVars
  <2>2. RecordsLinked'
    BY <2>1, LinkedShrinks DEF LinkInv
  <2>3. ASSUME pc = "starting"
        PROVE  blockNum < Len(canon')
    <3>1. PICK c \in Chains : <<canon, c>> \in Moves /\ canon' = c
      BY <1>1 DEF ChainMoves
    <3>2. blockNum \in Nat /\ Len(canon) \in Nat /\ Len(c) \in Nat /\ GenesisBlockNumber \in Nat
      BY <3>1, ChainAssumption, ConfigAssumption DEF TypeInv, TypeOK, Uint64
    <3>3. CASE GenesisBlockNumber > 0
      BY <2>3, <3>1, <3>3 DEF PlainSetting, StartBlockExists, LinkInv, StoreInv
    <3>4. CASE GenesisBlockNumber = 0
      <4>1. Len(<<canon, c>>[1]) <= Len(<<canon, c>>[2])
        BY <3>1, <3>4 DEF PlainSetting, StartBlockExists
      <4> QED
        BY <2>3, <3>1, <3>2, <4>1 DEF LinkInv, StoreInv
    <3> QED
      BY <3>2, <3>3, <3>4
  <2>4. StoreInv'
    BY <1>1, <2>3 DEF ChainMoves, LinkInv, StoreInv, storeVars, loopVars
  <2> QED
    BY <1>1, <2>2, <2>4 DEF ChainMoves, LinkInv, ParentInv, BlockInv, WalkInv, Processed,
                            storeVars, loopVars, walkVars, RecordOf
<1>2. CASE CloseStore
  <2>1. closed' /\ blocks' = {}
    BY <1>2 DEF CloseStore, Store!Close
  <2>2. RecordsLinked'
    BY <2>1 DEF RecordsLinked, Index
  <2> QED
    BY <1>2, <2>1, <2>2 DEF CloseStore, LinkInv, StoreInv, ParentInv, BlockInv, WalkInv,
                            loopVars, walkVars
<1>3. CASE Cancel
  <2>1. Index' = Index
    BY <1>3 DEF Cancel, Index, storeVars
  <2>2. RecordsLinked'
    BY <2>1, LinkedShrinks DEF LinkInv
  <2> QED
    BY <1>3, <2>2 DEF Cancel, LinkInv, StoreInv, ParentInv, BlockInv, WalkInv, Processed,
                      storeVars, loopVars, walkVars, RecordOf
<1>4. CASE Crash
  <2>1. CASE UNCHANGED storeVars
    BY <1>4, <2>1, LinkIdle DEF Crash, LocalsDropped
  <2>2. CASE blocks' = {}
    <3>1. RecordsLinked'
      BY <2>2 DEF RecordsLinked, Index
    <3> QED
      BY <1>4, <2>2, <3>1 DEF Crash, LocalsDropped, LinkInv, StoreInv, ParentInv, BlockInv, WalkInv
  <2> QED
    BY <1>4, <2>1, <2>2 DEF Crash
<1> QED
  BY <1>1, <1>2, <1>3, <1>4 DEF Environment

\* Saving a record at a number n of the poller's chain makes n the processed one
\* and leaves the other records of the chain alone.
LEMMA SavedHere ==
    ASSUME TypeInv, NEW b \in BlockRecord, b.chainId = ChainId, Store!SaveBlock(b)
    PROVE  /\ ~closed /\ ~closed'
           /\ Processed' = b.number
           /\ b \in blocks'
           /\ \A r \in blocks' : r = b \/ r \in blocks
           /\ \A r \in blocks' : r.chainId = ChainId /\ r.number = b.number => r = b
BY ConfigAssumption
   DEF Store!SaveBlock, Store!GetBlock, Store!HasKey, TypeInv, TypeOK, Store!TypeOK,
       Processed

\* LinkInv through Start.
LEMMA LinkStart ==
    ASSUME PlainSetting, TypeInv, LinkInv, Start
    PROVE  LinkInv'
<1>1. CASE StartResume
  BY <1>1, LinkIdle DEF StartResume, LinkInv, WalkInv, walkVars
<1>2. CASE StartFresh
  <2>1. Index' = Index
    BY <1>2 DEF StartFresh, Index, storeVars
  <2>2. RecordsLinked'
    BY <2>1, LinkedShrinks DEF LinkInv
  <2>3. /\ blockNum' < Len(canon)
        /\ GenesisBlockNumber > 0 => blockNum' = GenesisBlockNumber
    BY <1>2, ChainAssumption, ConfigAssumption
       DEF StartFresh, PlainSetting, StartBlockExists, TypeInv, TypeOK, GetLatestBlock
  <2> QED
    BY <1>2, <2>2, <2>3 DEF StartFresh, LinkInv, StoreInv, ParentInv, BlockInv, WalkInv,
                            storeVars, walkVars
<1>3. CASE StartAnchor
  <2> DEFINE start == RecordOf(GetBlockByNumber(blockNum), ChainId)
  <2>1. /\ Store!SaveBlock(start) /\ anchor' = start.number /\ pc' = "waiting" /\ pc = "starting"
        /\ parentRec' = {}
    BY <1>3 DEF StartAnchor, Return, LocalsDropped
  <2>2. start \in BlockRecord /\ start.chainId = ChainId
    BY FetchedBlock, RecordOfBlock, ConfigAssumption DEF TypeInv, TypeOK, RecordOf
  <2>3. start.hash # NoHash /\ start.number < MaxUint64
    BY <2>1, FetchedReal DEF LinkInv, StoreInv, TypeInv, TypeOK, RecordOf
  <2> HIDE DEF start
  <2>4. StoreInv'
    BY <2>1, <2>2, <2>3, SavedHere DEF LinkInv, StoreInv
  <2>5. \A r \in Index' : r.number = start.number
    <3> SUFFICES ASSUME NEW r \in Index'
                 PROVE  r.number = start.number
      OBVIOUS
    <3>1. r \in blocks' /\ start.number <= r.number /\ r.number <= Processed'
      BY <2>1 DEF Index, Processed
    <3>2. r.number \in Nat /\ start.number \in Nat
      BY <2>2, <3>1, SaveBlockType, <2>1
         DEF TypeInv, TypeOK, Store!TypeOK, Store!BlockRecord, BlockRecord, Uint64
    <3> QED
      BY <2>1, <2>2, <3>1, <3>2, SavedHere
  <2>6. start.number \in Nat
    BY <2>2 DEF BlockRecord, Uint64
  <2>7. RecordsLinked'
    BY <2>5, <2>6 DEF RecordsLinked
  <2> QED
    BY <2>1, <2>4, <2>7 DEF LinkInv, ParentInv, BlockInv, WalkInv
<1>4. CASE StartFails
  BY <1>4, LinkIdle DEF StartFails, LocalsDropped
<1> QED
  BY <1>1, <1>2, <1>3, <1>4 DEF Start

\* A call that returns without touching the store.
LEMMA LinkReturn ==
    ASSUME LinkInv, Return, UNCHANGED <<storeVars, anchor>>
    PROVE  LinkInv'
BY LinkIdle DEF Return, LocalsDropped

\* LinkInv through the poll loop and processNextBlock.
LEMMA LinkProcessNextBlock ==
    ASSUME PlainSetting, TypeInv, LinkInv, ProcessNextBlock
    PROVE  LinkInv'
<1>0. ASSUME UNCHANGED <<storeVars, anchor>>
      PROVE  RecordsLinked'
  <2>1. Index' = Index
    BY <1>0 DEF Index, storeVars
  <2> QED
    BY <2>1, LinkedShrinks DEF LinkInv
<1>1. CASE LoopExits
  BY <1>1, LinkIdle DEF LoopExits, LinkInv, WalkInv, walkVars
<1>2. CASE Tick
  <2>1. PICK r \in LastRecord : last' = r /\ blockNum' = r.number + 1
    BY <1>2 DEF Tick
  <2>2. r \in blocks /\ r.chainId = ChainId /\ r.number = Processed
    BY <2>1 DEF LastRecord, Store!GetLastProcessedBlock, Store!GetBlock, Store!HasKey, Processed
  <2>3. r.hash # NoHash
    BY <2>2 DEF LinkInv, StoreInv
  <2>4. UNCHANGED <<storeVars, anchor, parentRec>> /\ pc = "waiting" /\ pc' = "fetching"
    BY <1>2 DEF Tick, walkVars
  <2>5. ParentInv'
    BY <2>1, <2>2, <2>3, <2>4 DEF ParentInv, Processed, storeVars
  <2>6. StoreInv' /\ BlockInv' /\ WalkInv'
    BY <2>4 DEF LinkInv, StoreInv, BlockInv, WalkInv, storeVars
  <2> QED
    BY <1>0, <2>4, <2>5, <2>6 DEF LinkInv
<1>3. CASE TickSkips
  BY <1>3, LinkIdle DEF TickSkips, vars, walkVars, storeVars, LinkInv, WalkInv
<1>4. CASE FetchFails
  BY <1>4, LinkReturn DEF FetchFails
<1>5. CASE FetchReorg
  <2> DEFINE new == GetBlockByNumber(blockNum)
  <2>1. /\ UNCHANGED <<storeVars, anchor, parentRec>> /\ pc = "fetching" /\ pc' = "walking"
        /\ parentNum' = Sub(new.number, 1)
    BY <1>5 DEF FetchReorg
  <2>2. \/ blockNum < MaxUint64 /\ new.number = blockNum
        \/ new = NullBlock
    BY FetchedReal DEF TypeInv, TypeOK
  <2>3. blockNum = last.number + 1 /\ (~closed => last.number = Processed)
    BY <2>1 DEF LinkInv, ParentInv
  <2>4. last.number \in Nat /\ MaxUint64 \in Nat
    BY ConfigAssumption DEF TypeInv, TypeOK, BlockRecord, Uint64
  <2>5. parentNum' = last.number \/ parentNum' = MaxUint64
    BY <2>1, <2>2, <2>3, <2>4 DEF Sub, NullBlock
  <2>6. WalkInv'
    BY <2>1, <2>3, <2>4, <2>5 DEF LinkInv, WalkInv, Processed, storeVars
  <2>7. StoreInv' /\ ParentInv' /\ BlockInv'
    BY <2>1 DEF LinkInv, StoreInv, ParentInv, BlockInv, storeVars
  <2> QED
    BY <1>0, <2>1, <2>6, <2>7 DEF LinkInv
<1>6. CASE FetchAccept
  <2> DEFINE new == GetBlockByNumber(blockNum)
  <2>1. /\ UNCHANGED <<storeVars, anchor, parentRec, last, blockNum>>
        /\ pc = "fetching" /\ pc' = "logs"
        /\ new.parentHash = last.hash /\ block' = new
    BY <1>6 DEF FetchAccept, walkVars
  <2>2. last.hash # NoHash
    BY <2>1 DEF LinkInv, ParentInv
  <2>3. new.hash # NoHash /\ new.number = blockNum /\ new.number < MaxUint64
    BY <2>1, <2>2, FetchedReal DEF TypeInv, TypeOK, NullBlock
  <2> HIDE DEF new
  <2>4. BlockInv'
    BY <2>1, <2>3 DEF BlockInv
  <2>5. StoreInv' /\ ParentInv' /\ WalkInv'
    BY <2>1 DEF LinkInv, StoreInv, ParentInv, WalkInv, Processed, storeVars
  <2> QED
    BY <1>0, <2>1, <2>4, <2>5 DEF LinkInv
<1> QED
  BY <1>1, <1>2, <1>3, <1>4, <1>5, <1>6 DEF ProcessNextBlock

\* A step that touches neither the store nor what the poller knows of it.
LEMMA LinkUntouched ==
    ASSUME LinkInv, UNCHANGED <<canon, storeVars, anchor, pc, loopVars, walkVars>>
    PROVE  LinkInv'
<1>1. Index' = Index
  BY DEF Index, storeVars
<1>2. RecordsLinked'
  BY <1>1, LinkedShrinks DEF LinkInv
<1> QED
  BY <1>2 DEF LinkInv, StoreInv, ParentInv, BlockInv, WalkInv, Processed, RecordOf,
              storeVars, loopVars, walkVars

\* The end of an iteration: the block in hand, still stored, is the next parent.
LEMMA LinkAdvance ==
    ASSUME TypeInv, LinkInv, Advance, pc = "pruning",
           blocks' \subseteq blocks, UNCHANGED <<closed, lastProcessedBlocks, anchor>>,
           ~closed => RecordOf(block, ChainId) \in blocks'
    PROVE  LinkInv'
<1>1. Index' \subseteq Index
  BY DEF Index
<1>2. RecordsLinked'
  BY <1>1, LinkedShrinks DEF LinkInv
<1>3. CASE blockNum < target
  <2>1. /\ last' = RecordOf(block, ChainId) /\ blockNum' = blockNum + 1
        /\ pc' = "fetching" /\ parentRec' = parentRec
    BY <1>3 DEF Advance, walkVars
  <2>2. ParentInv'
    BY <2>1 DEF LinkInv, ParentInv, BlockInv, RecordOf, Processed
  <2> QED
    BY <1>2, <2>1, <2>2 DEF LinkInv, StoreInv, BlockInv, WalkInv
<1>4. CASE ~(blockNum < target)
  <2>1. pc' = "waiting" /\ parentRec' = {}
    BY <1>4 DEF Advance, Return, LocalsDropped
  <2> QED
    BY <1>2, <2>1 DEF LinkInv, StoreInv, ParentInv, BlockInv, WalkInv
<1> QED
  BY <1>3, <1>4

\* The step that counts: a block is saved on top of its parent.
LEMMA LinkSaveProcessed ==
    ASSUME TypeInv, LinkInv, SaveProcessed
    PROVE  LinkInv'
<1> DEFINE rec == RecordOf(block, ChainId)
<1>1. /\ Store!SaveBlock(rec) /\ pc = "logs" /\ pc' = "pruning"
      /\ UNCHANGED <<last, blockNum, block, parentRec, anchor>>
  BY DEF SaveProcessed, LogsHandled, loopVars, walkVars
<1>2. /\ rec \in BlockRecord /\ rec.chainId = ChainId /\ rec.number = block.number
      /\ rec.hash = block.hash /\ rec.parentHash = block.parentHash
  BY RecordOfBlock, ConfigAssumption DEF TypeInv, TypeOK, RecordOf
<1>3. /\ last \in blocks /\ last.chainId = ChainId /\ last.number = Processed
      /\ rec.number = last.number + 1 /\ rec.parentHash = last.hash
      /\ rec.hash # NoHash /\ rec.number < MaxUint64
  BY <1>1, <1>2 DEF LinkInv, ParentInv, BlockInv, Store!SaveBlock
<1>4. /\ rec \in blocks' /\ ~closed' /\ Processed' = rec.number
      /\ \A r \in blocks' : r = rec \/ r \in blocks
      /\ \A r \in blocks' : r.chainId = ChainId /\ r.number = rec.number => r = rec
  BY <1>1, <1>2, SavedHere
<1>5. \A r \in blocks : r.number \in Nat
  BY DEF TypeInv, TypeOK, Store!TypeOK, Store!BlockRecord, Uint64
<1>6. \A r \in Index' : r = rec \/ r \in Index
  BY <1>1, <1>3, <1>4, <1>5 DEF Index, Processed
<1>7. \A r \in Index : r.number <= last.number /\ (r.number = last.number => r = last)
  BY <1>3, KeyUnique DEF Index, Processed
<1>8. RecordsLinked'
  <2> SUFFICES ASSUME NEW r \in Index', NEW s \in Index', s.number = r.number + 1
               PROVE  s.parentHash = r.hash
    BY DEF RecordsLinked
  <2>1. last.number \in Nat /\ \A a \in Index : a.number \in Nat
    BY <1>3, <1>5 DEF Index
  <2>2. CASE s = rec
    BY <1>3, <1>6, <1>7, <2>1, <2>2
  <2>3. CASE s # rec /\ r = rec
    BY <1>3, <1>6, <1>7, <2>1, <2>3
  <2>4. CASE s # rec /\ r # rec
    BY <1>6, <2>4 DEF LinkInv, RecordsLinked
  <2> QED
    BY <2>2, <2>3, <2>4
<1>9. StoreInv'
  BY <1>1, <1>3, <1>4 DEF LinkInv, StoreInv
<1>10. BlockInv'
  BY <1>1, <1>2, <1>4 DEF LinkInv, BlockInv, RecordOf
<1> QED
  BY <1>1, <1>8, <1>9, <1>10 DEF LinkInv, ParentInv, WalkInv

\* LinkInv through processBlockLogs: the save and the prune.
LEMMA LinkProcessBlockLogs ==
    ASSUME PlainSetting, TypeInv, LinkInv, ProcessBlockLogs
    PROVE  LinkInv'
<1>1. ASSUME NEW b \in Batches, BatchReply(b) \/ BatchFails(b)
      PROVE  LinkInv'
  BY <1>1, LinkUntouched DEF BatchReply, BatchFails
<1>2. ASSUME NEW reply \in replies, HandleLog(reply)
      PROVE  LinkInv'
  BY <1>2, LinkUntouched DEF HandleLog
<1>3. CASE LogsFetchFails \/ DecodeFails \/ HandleLogFails
  BY <1>3, LinkReturn DEF LogsFetchFails, DecodeFails, HandleLogFails
<1>4. CASE SaveProcessed
  BY <1>4, LinkSaveProcessed
<1>5. CASE SaveProcessedFails
  <2>1. /\ closed /\ pc = "logs" /\ pc' = "pruning"
        /\ UNCHANGED <<canon, storeVars, anchor, loopVars, walkVars>>
    BY <1>5 DEF SaveProcessedFails, LogsHandled, StoreFails, Fails, PlainSetting
  <2>2. Index' = Index
    BY <2>1 DEF Index, storeVars
  <2>3. RecordsLinked'
    BY <2>2, LinkedShrinks DEF LinkInv
  <2> QED
    BY <2>1, <2>3 DEF LinkInv, StoreInv, ParentInv, BlockInv, WalkInv, storeVars, loopVars, walkVars
<1>6. CASE Prune
  <2>1. /\ pc = "pruning" /\ Advance /\ UNCHANGED <<closed, lastProcessedBlocks, anchor>>
        /\ blocks' = blocks \ Store!GetBlock(ChainId, block.number - BlockHistorySize)
        /\ BlockHistorySize > 0
    BY <1>6 DEF Prune, PruneDue, Store!DeleteBlock
  <2>2. block.number \in Nat /\ BlockHistorySize \in Nat
    BY ConfigAssumption DEF TypeInv, TypeOK, Block, Uint64
  <2>3. ~closed => RecordOf(block, ChainId) \in blocks'
    BY <2>1, <2>2 DEF LinkInv, BlockInv, Store!GetBlock, Store!HasKey, RecordOf
  <2> QED
    BY <2>1, <2>3, LinkAdvance
<1>7. CASE PruneSkips
  <2>1. pc = "pruning" /\ Advance /\ UNCHANGED <<storeVars, anchor>>
    BY <1>7 DEF PruneSkips
  <2>2. ~closed => RecordOf(block, ChainId) \in blocks'
    BY <2>1 DEF LinkInv, BlockInv, storeVars
  <2> QED
    BY <2>1, <2>2, LinkAdvance DEF storeVars
<1> QED
  BY <1>1, <1>2, <1>3, <1>4, <1>5, <1>6, <1>7 DEF ProcessBlockLogs

\* Saving a record of another chain, as the search does with a missing one,
\* changes nothing the poller goes by.
LEMMA SavedElsewhere ==
    ASSUME TypeInv, LinkInv, NEW b \in BlockRecord, b.chainId # ChainId,
           Store!SaveBlock(b), AnchorAt(b)
    PROVE  /\ ~closed /\ ~closed'
           /\ \A r : r.chainId = ChainId => (r \in blocks' <=> r \in blocks)
           /\ Processed' = Processed
           /\ RecordsLinked'
<1>1. /\ ~closed /\ ~closed'
      /\ \A r : r.chainId = ChainId => (r \in blocks' <=> r \in blocks)
  BY DEF Store!SaveBlock, Store!GetBlock, Store!HasKey
<1>2. Processed' = Processed /\ anchor' = anchor
  BY ConfigAssumption
     DEF Store!SaveBlock, AnchorAt, Processed, TypeInv, TypeOK, Store!TypeOK, BlockRecord
<1>3. Index' \subseteq Index
  BY <1>1, <1>2 DEF Index, Processed
<1> QED
  BY <1>1, <1>2, <1>3, LinkedShrinks DEF LinkInv

\* LinkInv through the save that ends the search.
LEMMA LinkSettle ==
    ASSUME TypeInv, LinkInv, Settle
    PROVE  LinkInv'
<1>1. PICK r \in parentRec : Store!SaveBlock(r) /\ AnchorAt(r)
  BY DEF Settle
<1>2. /\ pc = "settling"
      /\ pc' = "undoing" \/ (pc' = "waiting" /\ parentRec' = {})
  BY DEF Settle, Return, LocalsDropped
<1>3. r \in BlockRecord /\ ~closed
  BY <1>1 DEF TypeInv, TypeOK, Store!SaveBlock
<1>4. CASE r.chainId = ChainId
  <2>1. r \in blocks /\ r.number <= Processed
    BY <1>1, <1>2, <1>3, <1>4 DEF LinkInv, WalkInv
  <2>2. ~closed' /\ Processed' = r.number /\ blocks' \subseteq blocks
    BY <1>1, <1>3, <1>4, <2>1, SavedHere
  <2>3. /\ \A s \in blocks : s.number \in Nat
        /\ anchor \in Nat /\ Processed \in Int
    BY ConfigAssumption
       DEF TypeInv, TypeOK, Store!TypeOK, Store!BlockRecord, Store!NoBlock, Processed, Uint64
  <2>4. CASE r.number < anchor
    <3>1. anchor' = r.number
      BY <1>1, <1>4, <2>4 DEF AnchorAt
    <3>2. \A s \in Index' : s.number = r.number
      BY <2>1, <2>2, <2>3, <3>1 DEF Index, Processed
    <3>3. r.number \in Nat
      BY <2>1, <2>3
    <3> QED
      BY <1>2, <2>2, <3>2, <3>3
         DEF LinkInv, StoreInv, ParentInv, BlockInv, WalkInv, RecordsLinked
  <2>5. CASE ~(r.number < anchor)
    <3>1. anchor' = anchor
      BY <1>1, <2>5 DEF AnchorAt
    <3>2. Index' \subseteq Index
      BY <2>1, <2>2, <2>3, <3>1 DEF Index, Processed
    <3>3. RecordsLinked'
      BY <3>2, LinkedShrinks DEF LinkInv
    <3> QED
      BY <1>2, <2>2, <3>3 DEF LinkInv, StoreInv, ParentInv, BlockInv, WalkInv
  <2> QED
    BY <2>4, <2>5
<1>5. CASE r.chainId # ChainId
  <2>1. /\ ~closed' /\ RecordsLinked'
        /\ \A s : s.chainId = ChainId => (s \in blocks' <=> s \in blocks)
    BY <1>1, <1>3, <1>5, SavedElsewhere
  <2> QED
    BY <1>2, <2>1 DEF LinkInv, StoreInv, ParentInv, BlockInv, WalkInv
<1> QED
  BY <1>4, <1>5

\* LinkInv through the search and the undoing.
LEMMA LinkReconcileReorg ==
    ASSUME PlainSetting, TypeInv, LinkInv, ReconcileReorg
    PROVE  LinkInv'
<1>0. ASSUME UNCHANGED <<storeVars, anchor>>
      PROVE  RecordsLinked'
  <2>1. Index' = Index
    BY <1>0 DEF Index, storeVars
  <2> QED
    BY <2>1, LinkedShrinks DEF LinkInv
<1>1. CASE WalkFails
  BY <1>1, LinkReturn DEF WalkFails
<1>2. ASSUME NEW r \in Stored, pc = "walking"
      PROVE  /\ r \in blocks /\ ~closed /\ r.number = parentNum /\ parentNum <= Processed
             /\ r.number <= Processed
  <2>1. r \in blocks /\ r.chainId = ChainId /\ r.number = parentNum
    BY <1>2 DEF Stored, Store!GetBlock, Store!HasKey
  <2>2. ~closed /\ parentNum < MaxUint64
    BY <2>1 DEF LinkInv, StoreInv
  <2>3. parentNum \in Nat /\ MaxUint64 \in Nat
    BY ConfigAssumption DEF TypeInv, TypeOK, Uint64
  <2> QED
    BY <1>2, <2>1, <2>2, <2>3 DEF LinkInv, WalkInv
<1>3. CASE WalkOrphan
  <2>1. /\ pc = "walking" /\ pc' = pc /\ UNCHANGED <<storeVars, anchor>>
        /\ parentNum' = parentNum - 1
    BY <1>3 DEF WalkOrphan
  <2>2. PICK r \in Stored : parentRec' = {r}
    BY <1>3 DEF WalkOrphan
  <2>3. Processed \in Int /\ parentNum \in Int
    BY ConfigAssumption
       DEF TypeInv, TypeOK, Store!TypeOK, Store!NoBlock, Processed, Uint64
  <2>4. WalkInv'
    BY <1>2, <2>1, <2>2, <2>3 DEF WalkInv, Processed, storeVars
  <2> QED
    BY <1>0, <2>1, <2>4 DEF LinkInv, StoreInv, ParentInv, BlockInv, storeVars
<1>4. CASE WalkMatch
  <2>1. pc = "walking" /\ pc' = "settling" /\ UNCHANGED <<storeVars, anchor>>
    BY <1>4 DEF WalkMatch
  <2>2. PICK r \in Stored : parentRec' = {r}
    BY <1>4 DEF WalkMatch
  <2>3. WalkInv'
    BY <1>2, <2>1, <2>2 DEF WalkInv, Processed, storeVars
  <2> QED
    BY <1>0, <2>1, <2>3 DEF LinkInv, StoreInv, ParentInv, BlockInv, storeVars
<1>5. CASE WalkMissing
  <2> DEFINE found == RecordOf(GetBlockByNumber(parentNum), ClientChainId)
  <2>1. /\ Store!SaveBlock(found) /\ AnchorAt(found)
        /\ parentRec' = {found} /\ pc = "walking" /\ pc' = "settling"
    BY <1>5 DEF WalkMissing, Fails, PlainSetting
  <2>2. found \in BlockRecord /\ found.chainId # ChainId
    BY FetchedBlock, RecordOfBlock, ConfigAssumption
       DEF TypeInv, TypeOK, PlainSetting, RecordOf
  <2> HIDE DEF found
  <2>3. /\ ~closed' /\ RecordsLinked'
        /\ \A s : s.chainId = ChainId => (s \in blocks' <=> s \in blocks)
    BY <2>1, <2>2, SavedElsewhere
  <2> QED
    BY <2>1, <2>2, <2>3 DEF LinkInv, StoreInv, ParentInv, BlockInv, WalkInv
<1>6. CASE WalkExhausted
  <2>1. pc = "walking" /\ pc' = "settling" /\ UNCHANGED <<storeVars, anchor, walkVars>>
    BY <1>6 DEF WalkExhausted
  <2> QED
    BY <1>0, <2>1 DEF LinkInv, StoreInv, ParentInv, BlockInv, WalkInv, Processed, storeVars, walkVars
<1>7. CASE Settle
  BY <1>7, LinkSettle
<1>8. CASE SettleFails
  BY <1>8, LinkReturn DEF SettleFails
<1>9. CASE Undo
  <2>1. /\ blocks' \subseteq blocks /\ UNCHANGED <<closed, lastProcessedBlocks, anchor>>
        /\ pc' = "undoing" \/ (pc' = "waiting" /\ parentRec' = {})
    BY <1>9 DEF Undo, Undone, Return, LocalsDropped
  <2>2. Index' \subseteq Index
    BY <2>1 DEF Index
  <2>3. RecordsLinked'
    BY <2>2, LinkedShrinks DEF LinkInv
  <2> QED
    BY <2>1, <2>3 DEF LinkInv, StoreInv, ParentInv, BlockInv, WalkInv
<1>10. CASE UndoFails
  BY <1>10, LinkReturn DEF UndoFails
<1>11. CASE Report
  <2>1. pc = "undoing" /\ pc' = "deleting" /\ UNCHANGED <<storeVars, anchor, walkVars>>
    BY <1>11 DEF Report
  <2>2. RecordsLinked'
    BY <2>1 DEF LinkInv, RecordsLinked, Index, storeVars
  <2> QED
    BY <2>1, <2>2 DEF LinkInv, StoreInv, ParentInv, BlockInv, WalkInv, storeVars, walkVars
<1> QED
  BY <1>1, <1>3, <1>4, <1>5, <1>6, <1>7, <1>8, <1>9, <1>10, <1>11 DEF ReconcileReorg

\* LinkInv through every step.
LEMMA LinkStep ==
    ASSUME PlainSetting, TypeInv, LinkInv, [Next]_vars
    PROVE  LinkInv'
<1>1. CASE Next
  BY <1>1, LinkEnvironment, LinkStart, LinkProcessNextBlock, LinkProcessBlockLogs,
     LinkReconcileReorg DEF Next
<1>2. CASE UNCHANGED vars
  BY <1>2, LinkUntouched DEF vars
<1> QED
  BY <1>1, <1>2

\* With a store that does not fail while it is open, RecordsLinked holds for any
\* tree of blocks, any way the endpoint moves in it, any depth and history, and
\* any number of failed requests, cancellations, crashes and restarts, provided
\* the start block existed when it was asked for.
THEOREM RecordsStayLinked ==
    ASSUME PlainSetting
    PROVE  Spec => []RecordsLinked
<1>1. Init => TypeInv /\ LinkInv
  BY TypeInit, LinkInit
<1>2. TypeInv /\ LinkInv /\ [Next]_vars => (TypeInv /\ LinkInv)'
  BY TypeStep, LinkStep
<1>3. LinkInv => RecordsLinked
  BY DEF LinkInv
<1> QED
  BY <1>1, <1>2, <1>3, PTL DEF Spec

\* In the same setting the parent a fetched block is compared with is always the
\* last processed record itself, although it was read before the fetch, a saved
\* block is the one that was compared, and what the search found is still in the
\* store when it is saved again (evmChainPoller.go:226, 316, 533).
THEOREM LocalsMatchStore ==
    ASSUME PlainSetting
    PROVE  Spec => []LinkedInv
<1>1. Init => TypeInv /\ LinkInv
  BY TypeInit, LinkInit
<1>2. TypeInv /\ LinkInv /\ [Next]_vars => (TypeInv /\ LinkInv)'
  BY TypeStep, LinkStep
<1>3. TypeInv /\ LinkInv => LinkedInv
  BY DEF LinkInv, LinkedInv
<1> QED
  BY <1>1, <1>2, <1>3, PTL DEF Spec

-----------------------------------------------------------------------------
(* How far a reorg rewinds, whatever fails *)

\* Of the poller's own chain, only the record of a null answer has no hash.
NullAtZero(r) == r.chainId = ChainId /\ r.hash = NoHash => r.number = 0

\* The parent a block is compared with is not below the last processed block;
\* unless it is the record of a null answer, the block is the next one up.
LeadInv ==
    pc \in {"fetching", "logs"} =>
       /\ last.hash = NoHash => last.number = 0
       /\ last.hash # NoHash => blockNum = last.number + 1
       /\ ~closed => Processed <= last.number

\* Neither is the block in hand.
HandInv ==
    /\ pc \in {"logs", "pruning"} =>
          IF block.hash = NoHash THEN block.number = 0 ELSE block.number = blockNum
    /\ pc = "logs" => (block.hash = NoHash <=> last.hash = NoHash)
    /\ pc = "pruning" /\ ~closed => Processed <= block.number

\* The search begins at the parent of a block above the last processed one, or
\* at the top of uint64, and what it finds is less than MaxReorgDepth below.
DepthInv ==
    /\ pc \notin {"walking", "settling", "undoing", "deleting"} => parentRec = {}
    /\ pc = "walking" /\ ~closed =>
          /\ block.number = 0 \/ Processed <= 0 \/ Processed < block.number
          /\ block.number > 0 => parentNum < block.number
    /\ pc \in {"walking", "settling"} /\ ~closed =>
          \A r \in parentRec :
             r.chainId = ChainId => NullAtZero(r) /\ Processed - MaxReorgDepth < r.number

RewindInv == (\A r \in blocks : NullAtZero(r)) /\ LeadInv /\ HandInv /\ DepthInv

\* What the arithmetic of the search needs of the types.
LEMMA RewindTypes ==
    ASSUME TypeInv
    PROVE  /\ MaxReorgDepth \in Nat /\ MaxReorgDepth > 0 /\ MaxUint64 \in Nat
           /\ Processed \in Int /\ Processed <= MaxUint64
           /\ last.number \in Nat /\ blockNum \in Nat
           /\ block.number \in Nat /\ parentNum \in Nat /\ parentNum <= MaxUint64
BY ConfigAssumption
   DEF TypeInv, TypeOK, Store!TypeOK, Store!NoBlock, Processed, Block, BlockRecord, Uint64

\* RewindInv before anything has run.
LEMMA RewindInit == Init => RewindInv
BY DEF Init, Store!New, RewindInv, LeadInv, HandInv, DepthInv

\* A step that keeps no more records and ends, or stays out of, a call.
LEMMA RewindIdle ==
    ASSUME RewindInv, blocks' \subseteq blocks,
           pc' \in {"stopped", "starting", "waiting"}, parentRec' = {}
    PROVE  RewindInv'
BY DEF RewindInv, LeadInv, HandInv, DepthInv, NullAtZero

\* A step that touches neither the store nor the locals RewindInv is about.
LEMMA RewindUntouched ==
    ASSUME RewindInv, UNCHANGED <<storeVars, pc, loopVars, walkVars>>
    PROVE  RewindInv'
BY DEF RewindInv, LeadInv, HandInv, DepthInv, NullAtZero, Processed, storeVars, loopVars, walkVars

\* RewindInv while the world moves.
LEMMA RewindEnvironment ==
    ASSUME RewindInv, Environment
    PROVE  RewindInv'
<1>1. CASE ChainMoves \/ Cancel
  BY <1>1, RewindUntouched DEF ChainMoves, Cancel
<1>2. CASE CloseStore
  <2>1. closed' /\ blocks' = {} /\ UNCHANGED <<pc, loopVars, walkVars>>
    BY <1>2 DEF CloseStore, Store!Close
  <2> QED
    BY <2>1 DEF RewindInv, LeadInv, HandInv, DepthInv, loopVars, walkVars
<1>3. CASE Crash
  <2>1. blocks' \subseteq blocks /\ pc' = "stopped" /\ parentRec' = {}
    BY <1>3 DEF Crash, LocalsDropped, storeVars
  <2> QED
    BY <2>1, RewindIdle
<1> QED
  BY <1>1, <1>2, <1>3 DEF Environment

\* A block of the endpoint is null at 0.
LEMMA FetchedAtZero ==
    ASSUME canon \in Chains, NEW n \in Uint64
    PROVE  NullAtZero(RecordOf(GetBlockByNumber(n), ChainId))
BY FetchedReal DEF NullAtZero, RecordOf, NullBlock

\* Saving a record of the poller's chain.
LEMMA NullAtZeroSaved ==
    ASSUME TypeInv, RewindInv, NEW b \in BlockRecord, NullAtZero(b), Store!SaveBlock(b)
    PROVE  \A r \in blocks' : NullAtZero(r)
<1>1. \A r \in blocks' : r = b \/ r \in blocks
  BY DEF Store!SaveBlock
<1> QED
  BY <1>1 DEF RewindInv

\* RewindInv through Start.
LEMMA RewindStart ==
    ASSUME TypeInv, RewindInv, Start
    PROVE  RewindInv'
<1>1. CASE StartResume \/ StartFresh
  <2>1. /\ pc = "stopped" /\ parentRec' = parentRec /\ blocks' = blocks
        /\ pc' \in {"starting", "waiting"}
    BY <1>1 DEF StartResume, StartFresh, walkVars, storeVars
  <2>2. parentRec' = {}
    BY <2>1 DEF RewindInv, DepthInv
  <2> QED
    BY <2>1, <2>2, RewindIdle
<1>2. CASE StartAnchor
  <2> DEFINE start == RecordOf(GetBlockByNumber(blockNum), ChainId)
  <2>1. Store!SaveBlock(start) /\ pc' = "waiting" /\ parentRec' = {}
    BY <1>2 DEF StartAnchor, Return, LocalsDropped
  <2>2. start \in BlockRecord /\ NullAtZero(start)
    BY FetchedBlock, RecordOfBlock, FetchedAtZero, ConfigAssumption DEF TypeInv, TypeOK
  <2> HIDE DEF start
  <2>3. \A r \in blocks' : NullAtZero(r)
    BY <2>1, <2>2, NullAtZeroSaved
  <2> QED
    BY <2>1, <2>3 DEF RewindInv, LeadInv, HandInv, DepthInv, NullAtZero
<1>3. CASE StartFails
  BY <1>3, RewindIdle DEF StartFails, LocalsDropped, storeVars
<1> QED
  BY <1>1, <1>2, <1>3 DEF Start

\* A call that returns without touching the store.
LEMMA RewindReturn ==
    ASSUME RewindInv, Return, UNCHANGED storeVars
    PROVE  RewindInv'
BY RewindIdle DEF Return, LocalsDropped, storeVars

\* RewindInv through the poll loop and processNextBlock.
LEMMA RewindProcessNextBlock ==
    ASSUME TypeInv, RewindInv, ProcessNextBlock
    PROVE  RewindInv'
<1>1. CASE LoopExits
  <2>1. pc = "waiting" /\ pc' = "stopped" /\ parentRec' = parentRec /\ blocks' = blocks
    BY <1>1 DEF LoopExits, walkVars, storeVars
  <2>2. parentRec' = {}
    BY <2>1 DEF RewindInv, DepthInv
  <2> QED
    BY <2>1, <2>2, RewindIdle
<1>2. CASE Tick
  <2>1. PICK r \in LastRecord : last' = r /\ blockNum' = r.number + 1
    BY <1>2 DEF Tick
  <2>2. r \in blocks /\ r.chainId = ChainId /\ r.number = Processed
    BY <2>1 DEF LastRecord, Store!GetLastProcessedBlock, Store!GetBlock, Store!HasKey, Processed
  <2>3. r.hash = NoHash => r.number = 0
    BY <2>2 DEF RewindInv, NullAtZero
  <2>4. UNCHANGED <<storeVars, parentRec>> /\ pc = "waiting" /\ pc' = "fetching"
    BY <1>2 DEF Tick, walkVars
  <2>5. Processed' = Processed /\ Processed \in Int
    BY <2>4, RewindTypes DEF Processed, storeVars
  <2>6. LeadInv'
    BY <2>1, <2>2, <2>3, <2>4, <2>5 DEF LeadInv
  <2>7. HandInv' /\ DepthInv' /\ \A s \in blocks' : NullAtZero(s)
    BY <2>4 DEF RewindInv, HandInv, DepthInv, NullAtZero, storeVars
  <2> QED
    BY <2>6, <2>7 DEF RewindInv, NullAtZero
<1>3. CASE TickSkips
  BY <1>3, RewindUntouched DEF TickSkips, vars
<1>4. CASE FetchFails
  BY <1>4, RewindReturn DEF FetchFails
<1>5. CASE FetchReorg \/ FetchAccept
  <2> DEFINE new == GetBlockByNumber(blockNum)
  <2>1. /\ UNCHANGED <<storeVars, parentRec, last, blockNum>> /\ pc = "fetching"
        /\ block' = new
        /\ \/ pc' = "walking" /\ parentNum' = Sub(new.number, 1)
           \/ pc' = "logs" /\ new.parentHash = last.hash
    BY <1>5 DEF FetchReorg, FetchAccept, walkVars
  <2>2. \/ new.number = blockNum /\ new.hash # NoHash /\ new.parentHash # NoHash
        \/ new = NullBlock
    BY FetchedReal DEF TypeInv, TypeOK
  <2>3. new = NullBlock => new.number = 0 /\ new.hash = NoHash /\ new.parentHash = NoHash
    BY DEF NullBlock
  <2> HIDE DEF new
  <2>4. Processed' = Processed /\ closed' = closed /\ blocks' = blocks
    BY <2>1 DEF Processed, storeVars
  <2>5. parentRec' = {}
    BY <2>1 DEF RewindInv, DepthInv
  <2>6. /\ last.hash = NoHash => last.number = 0
        /\ last.hash # NoHash => blockNum = last.number + 1
        /\ ~closed => Processed <= last.number
    BY <2>1 DEF RewindInv, LeadInv
  <2>7. LeadInv'
    BY <2>1, <2>4, <2>6 DEF LeadInv
  <2>8. HandInv'
    BY <2>1, <2>2, <2>3 DEF HandInv
  <2>9. DepthInv'
    <3>1. ASSUME pc' = "walking", ~closed
          PROVE  /\ new.number = 0 \/ Processed <= 0 \/ Processed < new.number
                 /\ new.number > 0 => parentNum' < new.number
      <4>1. new.number = 0 \/ new.number = blockNum
        BY <2>2, <2>3
      <4>2. parentNum' = Sub(new.number, 1)
        BY <2>1, <3>1
      <4>3. new.number > 0 => parentNum' < new.number
        BY <4>1, <4>2, RewindTypes DEF Sub
      <4>4. new.number = 0 \/ Processed <= 0 \/ Processed < new.number
        BY <2>6, <3>1, <4>1, RewindTypes
      <4> QED
        BY <4>3, <4>4
    <3> QED
      BY <2>1, <2>4, <2>5, <3>1 DEF DepthInv
  <2> QED
    BY <2>4, <2>7, <2>8, <2>9 DEF RewindInv, NullAtZero
<1> QED
  BY <1>1, <1>2, <1>3, <1>4, <1>5 DEF ProcessNextBlock

\* RewindInv through processBlockLogs.
LEMMA RewindProcessBlockLogs ==
    ASSUME TypeInv, RewindInv, ProcessBlockLogs
    PROVE  RewindInv'
<1>1. CASE \/ \E b \in Batches : BatchReply(b) \/ BatchFails(b)
           \/ \E reply \in replies : HandleLog(reply)
  <2>1. UNCHANGED <<storeVars, pc, loopVars, walkVars>>
    BY <1>1 DEF BatchReply, BatchFails, HandleLog
  <2> QED
    BY <2>1, RewindUntouched
<1>2. CASE LogsFetchFails \/ DecodeFails \/ HandleLogFails
  BY <1>2, RewindReturn DEF LogsFetchFails, DecodeFails, HandleLogFails
<1>3. CASE SaveProcessed \/ SaveProcessedFails
  <2> DEFINE rec == RecordOf(block, ChainId)
  <2>1. /\ pc = "logs" /\ pc' = "pruning" /\ UNCHANGED <<loopVars, walkVars>>
        /\ Store!SaveBlock(rec) \/ UNCHANGED storeVars
    BY <1>3 DEF SaveProcessed, SaveProcessedFails, LogsHandled
  <2>2. rec \in BlockRecord /\ rec.chainId = ChainId /\ rec.number = block.number /\ rec.hash = block.hash
    BY RecordOfBlock, ConfigAssumption DEF TypeInv, TypeOK, RecordOf
  <2>3. NullAtZero(rec)
    BY <2>1, <2>2 DEF RewindInv, HandInv, NullAtZero
  <2> HIDE DEF rec
  <2>4. \A r \in blocks' : NullAtZero(r)
    BY <2>1, <2>2, <2>3, NullAtZeroSaved DEF RewindInv, storeVars
  <2>5. ~closed' => Processed' <= block.number
    <3>1. CASE Store!SaveBlock(rec)
      BY <2>2, <3>1, SavedHere, RewindTypes
    <3>2. CASE UNCHANGED storeVars
      <4>1. /\ ~closed => Processed <= last.number
            /\ last.hash = NoHash => last.number = 0
            /\ last.hash # NoHash => blockNum = last.number + 1
            /\ block.hash = NoHash <=> last.hash = NoHash
            /\ IF block.hash = NoHash THEN block.number = 0 ELSE block.number = blockNum
        BY <2>1 DEF RewindInv, LeadInv, HandInv
      <4>2. last.number <= block.number
        BY <4>1, RewindTypes
      <4>3. Processed' = Processed /\ closed' = closed
        BY <3>2 DEF Processed, storeVars
      <4> QED
        BY <4>1, <4>2, <4>3, RewindTypes
    <3> QED
      BY <2>1, <3>1, <3>2
  <2>6. HandInv'
    BY <2>1, <2>5 DEF RewindInv, HandInv, loopVars
  <2>7. LeadInv' /\ DepthInv'
    BY <2>1 DEF RewindInv, LeadInv, DepthInv, walkVars
  <2> QED
    BY <2>4, <2>6, <2>7 DEF RewindInv, NullAtZero
<1>4. CASE Prune \/ PruneSkips
  <2>1. /\ pc = "pruning" /\ Advance /\ blocks' \subseteq blocks
        /\ UNCHANGED <<closed, lastProcessedBlocks>>
    BY <1>4 DEF Prune, PruneSkips, Store!DeleteBlock, storeVars
  <2>2. CASE blockNum < target
    <3>1. /\ last' = RecordOf(block, ChainId) /\ blockNum' = blockNum + 1
          /\ pc' = "fetching" /\ parentRec' = parentRec
      BY <2>1, <2>2 DEF Advance, walkVars
    <3>2. last'.hash = block.hash /\ last'.number = block.number
      BY <3>1 DEF RecordOf
    <3>3. /\ IF block.hash = NoHash THEN block.number = 0 ELSE block.number = blockNum
          /\ ~closed => Processed <= block.number
      BY <2>1 DEF RewindInv, HandInv
    <3>4. LeadInv'
      BY <2>1, <3>1, <3>2, <3>3 DEF LeadInv, Processed
    <3>5. HandInv' /\ DepthInv'
      BY <2>1, <3>1 DEF RewindInv, HandInv, DepthInv
    <3> QED
      BY <2>1, <3>4, <3>5 DEF RewindInv, NullAtZero
  <2>3. CASE ~(blockNum < target)
    <3>1. pc' = "waiting" /\ parentRec' = {}
      BY <2>1, <2>3 DEF Advance, Return, LocalsDropped
    <3> QED
      BY <2>1, <3>1, RewindIdle
  <2> QED
    BY <2>2, <2>3
<1> QED
  BY <1>1, <1>2, <1>3, <1>4 DEF ProcessBlockLogs

\* A record the search looks at is less than MaxReorgDepth below the last
\* processed block, also when the number of a null block has wrapped around.
LEMMA SearchDepth ==
    ASSUME TypeInv, RewindInv, pc = "walking", InSearch, ~closed
    PROVE  Processed - MaxReorgDepth < parentNum
<1>1. /\ Sub(block.number, parentNum) <= MaxReorgDepth /\ parentNum > 0
      /\ block.number = 0 \/ Processed <= 0 \/ Processed < block.number
      /\ block.number > 0 => parentNum < block.number
  BY DEF InSearch, RewindInv, DepthInv
<1>2. CASE block.number = 0
  BY <1>1, <1>2, RewindTypes DEF Sub
<1>3. CASE block.number # 0
  BY <1>1, <1>3, RewindTypes DEF Sub
<1> QED
  BY <1>2, <1>3

\* Saving a record of another chain leaves the last processed block where it is.
LEMMA ProcessedElsewhere ==
    ASSUME TypeInv, NEW b \in BlockRecord, b.chainId # ChainId, Store!SaveBlock(b)
    PROVE  Processed' = Processed /\ ~closed /\ ~closed' /\ \A r \in blocks' : r = b \/ r \in blocks
BY ConfigAssumption DEF Store!SaveBlock, Processed, TypeInv, TypeOK, Store!TypeOK, BlockRecord

\* RewindInv through the search and the undoing.
LEMMA RewindReconcileReorg ==
    ASSUME ClientChainId # ChainId, TypeInv, RewindInv, ReconcileReorg
    PROVE  RewindInv'
<1>1. CASE WalkFails \/ SettleFails \/ UndoFails
  BY <1>1, RewindReturn DEF WalkFails, SettleFails, UndoFails
<1>2. CASE WalkOrphan \/ WalkMatch
  <2>1. /\ pc = "walking" /\ pc' \in {"walking", "settling"} /\ UNCHANGED <<storeVars, loopVars>>
        /\ InSearch
        /\ pc' = "walking" => parentNum' = parentNum - 1
    BY <1>2 DEF WalkOrphan, WalkMatch
  <2>2. PICK r \in Stored : parentRec' = {r}
    BY <1>2 DEF WalkOrphan, WalkMatch
  <2>3. r \in blocks /\ r.number = parentNum
    BY <2>2 DEF Stored, Store!GetBlock, Store!HasKey
  <2>4. Processed' = Processed /\ closed' = closed /\ blocks' = blocks
    BY <2>1 DEF Processed, storeVars
  <2>5. ~closed => Processed - MaxReorgDepth < r.number
    BY <2>1, <2>3, SearchDepth
  <2>6. NullAtZero(r)
    BY <2>3 DEF RewindInv
  <2>7. ASSUME pc' = "walking", ~closed'
        PROVE  /\ block.number = 0 \/ Processed <= 0 \/ Processed < block.number
               /\ block.number > 0 => parentNum' < block.number
    <3>1. /\ block.number = 0 \/ Processed <= 0 \/ Processed < block.number
          /\ block.number > 0 => parentNum < block.number
      BY <2>1, <2>4, <2>7 DEF RewindInv, DepthInv
    <3>2. parentNum' = parentNum - 1
      BY <2>1, <2>7
    <3> QED
      BY <3>1, <3>2, RewindTypes
  <2>8. DepthInv'
    <3>1. pc' \in {"walking", "settling"} /\ block' = block
      BY <2>1 DEF loopVars
    <3> QED
      BY <2>2, <2>4, <2>5, <2>6, <2>7, <3>1 DEF DepthInv, NullAtZero
  <2>9. LeadInv' /\ HandInv'
    BY <2>1 DEF LeadInv, HandInv
  <2> QED
    BY <2>4, <2>8, <2>9 DEF RewindInv, NullAtZero
<1>3. CASE WalkMissing
  <2> DEFINE found == RecordOf(GetBlockByNumber(parentNum), ClientChainId)
  <2>1. /\ Store!SaveBlock(found) \/ UNCHANGED storeVars
        /\ parentRec' = {found} /\ pc' = "settling"
    BY <1>3 DEF WalkMissing
  <2>2. found \in BlockRecord /\ found.chainId # ChainId
    BY FetchedBlock, RecordOfBlock, ConfigAssumption DEF TypeInv, TypeOK, RecordOf
  <2> HIDE DEF found
  <2>3. \A r \in blocks' : NullAtZero(r)
    BY <2>1, <2>2, NullAtZeroSaved DEF NullAtZero, RewindInv, storeVars
  <2> QED
    BY <2>1, <2>2, <2>3 DEF RewindInv, LeadInv, HandInv, DepthInv, NullAtZero
<1>4. CASE WalkExhausted
  <2>1. pc = "walking" /\ pc' = "settling" /\ UNCHANGED <<storeVars, parentRec>>
    BY <1>4 DEF WalkExhausted, walkVars
  <2>2. Processed' = Processed /\ closed' = closed /\ blocks' = blocks
    BY <2>1 DEF Processed, storeVars
  <2> QED
    BY <2>1, <2>2 DEF RewindInv, LeadInv, HandInv, DepthInv, NullAtZero
<1>5. CASE Settle
  <2>1. PICK r \in parentRec : Store!SaveBlock(r)
    BY <1>5 DEF Settle
  <2>2. pc = "settling" /\ (pc' = "undoing" \/ (pc' = "waiting" /\ parentRec' = {})) /\ ~closed
    BY <1>5, <2>1 DEF Settle, Return, LocalsDropped, Store!SaveBlock
  <2>3. r \in BlockRecord
    BY <2>1 DEF TypeInv, TypeOK
  <2>4. NullAtZero(r)
    BY <2>1, <2>2 DEF RewindInv, DepthInv, NullAtZero
  <2>5. \A s \in blocks' : NullAtZero(s)
    BY <2>1, <2>3, <2>4, NullAtZeroSaved
  <2> QED
    BY <2>2, <2>5 DEF RewindInv, LeadInv, HandInv, DepthInv, NullAtZero
<1>6. CASE Undo
  <2>1. blocks' \subseteq blocks /\ (pc' = "undoing" \/ (pc' = "waiting" /\ parentRec' = {}))
    BY <1>6 DEF Undo, Undone, Return, LocalsDropped
  <2> QED
    BY <2>1 DEF RewindInv, LeadInv, HandInv, DepthInv, NullAtZero
<1>7. CASE Report
  <2>1. pc' = "deleting" /\ blocks' = blocks
    BY <1>7 DEF Report, storeVars
  <2> QED
    BY <2>1 DEF RewindInv, LeadInv, HandInv, DepthInv, NullAtZero
<1> QED
  BY <1>1, <1>2, <1>3, <1>4, <1>5, <1>6, <1>7 DEF ReconcileReorg

\* RewindInv through every step.
LEMMA RewindStep ==
    ASSUME ClientChainId # ChainId, TypeInv, RewindInv, [Next]_vars
    PROVE  RewindInv'
<1>1. CASE Next
  BY <1>1, RewindEnvironment, RewindStart, RewindProcessNextBlock, RewindProcessBlockLogs,
     RewindReconcileReorg DEF Next
<1>2. CASE UNCHANGED vars
  BY <1>2, RewindUntouched DEF vars
<1> QED
  BY <1>1, <1>2

\* Within a poll, one step rewinds the last processed block by less than
\* MaxReorgDepth.
LEMMA OneStepRewind ==
    ASSUME ClientChainId # ChainId, TypeInv, RewindInv, Next,
           pc \notin {"stopped", "starting"}, pc' # "stopped", ~closed'
    PROVE  Processed' > Processed - MaxReorgDepth
<1>1. ASSUME Processed' = Processed
      PROVE  Processed' > Processed - MaxReorgDepth
  BY <1>1, RewindTypes
<1>2. CASE Environment
  <2>1. ChainMoves \/ Cancel
    BY <1>2 DEF Environment, CloseStore, Store!Close, Crash
  <2> QED
    BY <1>1, <2>1 DEF ChainMoves, Cancel, storeVars, Processed
<1>3. CASE Start
  BY <1>3 DEF Start, StartResume, StartFresh, StartAnchor, StartFails
<1>4. CASE ProcessNextBlock
  BY <1>1, <1>4 DEF ProcessNextBlock, LoopExits, Tick, TickSkips, FetchFails, FetchReorg,
                    FetchAccept, vars, storeVars, Processed
<1>5. CASE ProcessBlockLogs
  <2>1. CASE SaveProcessed
    <3> DEFINE rec == RecordOf(block, ChainId)
    <3>1. Store!SaveBlock(rec) /\ pc = "logs" /\ ~closed
      BY <2>1 DEF SaveProcessed, LogsHandled, Store!SaveBlock
    <3>2. rec \in BlockRecord /\ rec.chainId = ChainId /\ rec.number = block.number
      BY RecordOfBlock, ConfigAssumption DEF TypeInv, TypeOK, RecordOf
    <3> HIDE DEF rec
    <3>3. Processed' = block.number
      BY <3>1, <3>2, SavedHere
    <3>4. /\ Processed <= last.number
          /\ last.hash = NoHash => last.number = 0
          /\ last.hash # NoHash => blockNum = last.number + 1
          /\ block.hash = NoHash <=> last.hash = NoHash
          /\ IF block.hash = NoHash THEN block.number = 0 ELSE block.number = blockNum
      BY <3>1 DEF RewindInv, LeadInv, HandInv
    <3>5. last.number <= block.number
      BY <3>4, RewindTypes
    <3> QED
      BY <3>3, <3>4, <3>5, RewindTypes
  <2>2. CASE ~SaveProcessed
    BY <1>1, <1>5, <2>2
       DEF ProcessBlockLogs, BatchReply, BatchFails, HandleLog, LogsFetchFails, DecodeFails,
           HandleLogFails, SaveProcessedFails, Prune, PruneSkips, Store!DeleteBlock, storeVars,
           Processed
  <2> QED
    BY <2>1, <2>2
<1>6. CASE ReconcileReorg
  <2>1. CASE WalkMissing
    <3> DEFINE found == RecordOf(GetBlockByNumber(parentNum), ClientChainId)
    <3>1. Store!SaveBlock(found) \/ UNCHANGED storeVars
      BY <2>1 DEF WalkMissing
    <3>2. found \in BlockRecord /\ found.chainId # ChainId
      BY FetchedBlock, RecordOfBlock, ConfigAssumption DEF TypeInv, TypeOK, RecordOf
    <3> HIDE DEF found
    <3>3. Processed' = Processed
      BY <3>1, <3>2, ProcessedElsewhere DEF Processed, storeVars
    <3> QED
      BY <1>1, <3>3
  <2>2. CASE Settle
    <3>1. PICK r \in parentRec : Store!SaveBlock(r)
      BY <2>2 DEF Settle
    <3>2. pc = "settling" /\ ~closed /\ r \in BlockRecord
      BY <2>2, <3>1 DEF Settle, Store!SaveBlock, TypeInv, TypeOK
    <3>3. CASE r.chainId = ChainId
      <4>1. Processed' = r.number
        BY <3>1, <3>2, <3>3, SavedHere
      <4>2. Processed - MaxReorgDepth < r.number
        BY <3>1, <3>2, <3>3 DEF RewindInv, DepthInv
      <4>3. r.number \in Nat
        BY <3>2, ConfigAssumption DEF BlockRecord, Uint64
      <4> QED
        BY <4>1, <4>2, <4>3, RewindTypes
    <3>4. CASE r.chainId # ChainId
      BY <1>1, <3>1, <3>2, <3>4, ProcessedElsewhere
    <3> QED
      BY <3>3, <3>4
  <2>3. CASE ~WalkMissing /\ ~Settle
    BY <1>1, <1>6, <2>3
       DEF ReconcileReorg, WalkFails, WalkOrphan, WalkMatch, WalkExhausted, SettleFails,
           Report, Undo, UndoFails, storeVars, Processed
  <2> QED
    BY <2>1, <2>2, <2>3
<1> QED
  BY <1>2, <1>3, <1>4, <1>5, <1>6 DEF Next

\* As long as the client's blocks carry no chain id of the poller's, no failure of
\* the endpoint, the store or the handler, and no chain the endpoint may show,
\* makes one step of a poll rewind the last processed block by MaxReorgDepth or
\* more (evmChainPoller.go:483, 536); the subtraction of the search may wrap
\* around at block 0 without doing harm.
THEOREM RewindsAreBounded ==
    ASSUME ClientChainId # ChainId
    PROVE  Spec => RewindBounded
<1>1. Init => TypeInv /\ RewindInv
  BY TypeInit, RewindInit
<1>2. TypeInv /\ RewindInv /\ [Next]_vars => (TypeInv /\ RewindInv)'
  BY TypeStep, RewindStep
<1>3. TypeInv /\ RewindInv /\ [Next]_vars =>
        [pc \notin {"stopped", "starting"} /\ pc' # "stopped" /\ ~closed' =>
            lastProcessedBlocks'[ChainId] > lastProcessedBlocks[ChainId] - MaxReorgDepth]_vars
  BY OneStepRewind DEF Processed
<1> QED
  BY <1>1, <1>2, <1>3, PTL DEF Spec, RewindBounded

=============================================================================
