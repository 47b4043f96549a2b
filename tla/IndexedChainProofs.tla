------------------------- MODULE IndexedChainProofs -------------------------
(***************************************************************************)
(* The poller keeps its promises about the records it goes by: it          *)
(* implements IndexedChain, and what it has recorded the block handler     *)
(* holds.  For every tree of blocks, every move of the endpoint in it and  *)
(* every configuration, with a store that does not fail while it is open.  *)
(***************************************************************************)
EXTENDS EVMChainPollerProofs, NaturalLemmas

-----------------------------------------------------------------------------
(* The invariant beyond LinkedInv *)

Searching == {"walking", "settling", "undoing", "deleting"}

\* The chain does not begin above the last processed block.
AnchorInv == Processed # Store!NoBlock => anchor <= Processed

\* What is stored, or about to be, has been on some chain.
TrueInv ==
    /\ \A r \in blocks : r.chainId = ChainId => r \in TrueRecords
    /\ pc \in {"logs", "pruning"} => RecordOf(block, ChainId) \in TrueRecords

\* The orphans are records of the poller's chain at consecutive heights, from the
\* last processed block down; once the search is over nothing that counts is
\* above the first of them.
OrphanInv ==
    /\ pc \notin Searching => orphans = <<>>
    /\ \A k \in 1 .. Len(orphans) :
          /\ orphans[k].chainId = ChainId
          /\ orphans[k].number = orphans[1].number - (k - 1)
    /\ pc = "walking" /\ orphans = <<>> /\ ~closed =>
          parentNum = Processed \/ parentNum = MaxUint64
    /\ pc = "walking" /\ orphans # <<>> => parentNum = orphans[1].number - Len(orphans)
    /\ pc \in {"walking", "settling"} /\ orphans # <<>> /\ ~closed =>
          orphans[1].number = Processed
    /\ pc \in {"undoing", "deleting"} => \A r \in Index : r.number <= orphans[1].number

IndexInv == AnchorInv /\ TrueInv /\ OrphanInv

\* IndexInv before anything has run.
LEMMA IndexInit == Init => IndexInv
<1> SUFFICES ASSUME Init PROVE IndexInv
  OBVIOUS
<1>1. Processed = Store!NoBlock /\ blocks = {} /\ pc = "stopped" /\ orphans = <<>>
  BY ConfigAssumption DEF Init, Store!New, Processed
<1>2. OrphanInv
  BY <1>1 DEF OrphanInv, Searching
<1> QED
  BY <1>1, <1>2 DEF IndexInv, AnchorInv, TrueInv

\* A block the endpoint shows is on a chain.
LEMMA FetchedTrue ==
    ASSUME canon \in Chains, NEW n \in Uint64
    PROVE  RecordOf(GetBlockByNumber(n), ChainId) \in TrueRecords
<1>1. canon \in Seq(Hash) /\ Len(canon) \in 1 .. MaxUint64 /\ MaxUint64 \in Nat
  BY ChainAssumption, ConfigAssumption
<1>2. CASE n < Len(canon)
  <2>1. n + 1 \in 1 .. Len(canon) /\ (n + 1) - 1 = n
    BY <1>1, <1>2 DEF Uint64
  <2>2. RecordOf(GetBlockByNumber(n), ChainId) =
          [chainId |-> ChainId, number |-> (n + 1) - 1, hash |-> canon[n + 1],
           parentHash |-> IF n + 1 = 1 THEN ZeroHash ELSE canon[(n + 1) - 1]]
    BY <1>2, <2>1 DEF RecordOf, GetBlockByNumber, Uint64
  <2> DEFINE On(c) == {[chainId |-> ChainId, number |-> m - 1, hash |-> c[m],
                        parentHash |-> IF m = 1 THEN ZeroHash ELSE c[m - 1]] : m \in 1 .. Len(c)}
  <2>3. RecordOf(GetBlockByNumber(n), ChainId) \in On(canon)
    BY <2>1, <2>2
  <2>4. TrueRecords = {NullRecord} \cup UNION {On(c) : c \in Chains}
    BY DEF TrueRecords
  <2> HIDE DEF On
  <2> QED
    BY <2>3, <2>4
<1>3. CASE ~(n < Len(canon))
  BY <1>3 DEF GetBlockByNumber, TrueRecords, NullRecord
<1> QED
  BY <1>2, <1>3

\* A step that leaves the store alone and ends, or stays out of, a call.
LEMMA IndexIdle ==
    ASSUME IndexInv, pc' \notin Searching, pc' \notin {"logs", "pruning"}, orphans' = <<>>,
           UNCHANGED <<storeVars, anchor>>
    PROVE  IndexInv'
<1>1. AnchorInv'
  BY DEF IndexInv, AnchorInv, Processed, storeVars
<1>2. TrueInv'
  BY DEF IndexInv, TrueInv, storeVars
<1>3. OrphanInv'
  BY DEF OrphanInv, Searching
<1> QED
  BY <1>1, <1>2, <1>3 DEF IndexInv

\* A step that touches neither the store nor the locals IndexInv is about.
LEMMA IndexUntouched ==
    ASSUME IndexInv, UNCHANGED <<storeVars, anchor, pc, block, orphans, parentNum>>
    PROVE  IndexInv'
<1>1. AnchorInv'
  BY DEF IndexInv, AnchorInv, Processed, storeVars
<1>2. TrueInv'
  BY DEF IndexInv, TrueInv, storeVars, RecordOf
<1>3. OrphanInv'
  BY DEF IndexInv, OrphanInv, Searching, Index, Processed, storeVars
<1> QED
  BY <1>1, <1>2, <1>3 DEF IndexInv

\* The store is emptied.
LEMMA IndexLost ==
    ASSUME IndexInv, blocks' = {}, Processed' = Store!NoBlock, closed' \/ pc' = "stopped",
           \/ UNCHANGED <<pc, block, orphans, parentNum>>
           \/ pc' = "stopped" /\ orphans' = <<>>
    PROVE  IndexInv'
<1>1. AnchorInv'
  BY DEF AnchorInv
<1>2. Index' = {}
  BY DEF Index
<1>3. CASE UNCHANGED <<pc, block, orphans, parentNum>>
  <2>1. TrueInv'
    BY <1>3 DEF IndexInv, TrueInv, RecordOf
  <2>2. OrphanInv'
    BY <1>2, <1>3 DEF IndexInv, OrphanInv, Searching
  <2> QED
    BY <1>1, <2>1, <2>2 DEF IndexInv
<1>4. CASE pc' = "stopped" /\ orphans' = <<>>
  <2>1. TrueInv'
    BY <1>4 DEF TrueInv
  <2>2. OrphanInv'
    BY <1>4 DEF OrphanInv, Searching
  <2> QED
    BY <1>1, <2>1, <2>2 DEF IndexInv
<1> QED
  BY <1>3, <1>4

\* IndexInv while the world moves.
LEMMA IndexEnvironment ==
    ASSUME TypeInv, IndexInv, Environment
    PROVE  IndexInv'
<1>1. CASE ChainMoves
  BY <1>1, IndexUntouched DEF ChainMoves, loopVars, walkVars
<1>2. CASE CloseStore
  <2>1. closed' /\ blocks' = {} /\ Processed' = Store!NoBlock
    BY <1>2, ConfigAssumption DEF CloseStore, Store!Close, Processed
  <2> QED
    BY <1>2, <2>1, IndexLost DEF CloseStore, loopVars, walkVars
<1>3. CASE Cancel
  BY <1>3, IndexUntouched DEF Cancel, loopVars, walkVars
<1>4. CASE Crash
  <2>1. pc' = "stopped" /\ orphans' = <<>> /\ anchor' = anchor
    BY <1>4 DEF Crash, LocalsDropped
  <2>2. CASE UNCHANGED storeVars
    BY <2>1, <2>2, IndexIdle DEF Searching
  <2>3. CASE ~UNCHANGED storeVars
    <3>1. blocks' = {} /\ Processed' = Store!NoBlock
      BY <1>4, <2>3, ConfigAssumption DEF Crash, Processed
    <3> QED
      BY <2>1, <3>1, IndexLost
  <2> QED
    BY <2>2, <2>3
<1> QED
  BY <1>1, <1>2, <1>3, <1>4 DEF Environment

\* IndexInv through Start.
LEMMA IndexStart ==
    ASSUME TypeInv, LinkInv, IndexInv, Start
    PROVE  IndexInv'
<1>1. CASE StartResume
  BY <1>1, IndexIdle DEF StartResume, IndexInv, OrphanInv, Searching, walkVars
<1>2. CASE StartFresh
  BY <1>2, IndexIdle DEF StartFresh, IndexInv, OrphanInv, Searching, walkVars
<1>3. CASE StartAnchor
  <2> DEFINE start == RecordOf(GetBlockByNumber(blockNum), ChainId)
  <2>1. /\ Store!SaveBlock(start) /\ anchor' = start.number /\ pc' = "waiting"
        /\ orphans' = <<>>
    BY <1>3 DEF StartAnchor, Return, LocalsDropped
  <2>2. start \in BlockRecord /\ start.chainId = ChainId
    BY FetchedBlock, RecordOfBlock, ConfigAssumption DEF TypeInv, TypeOK, RecordOf
  <2>3. start \in TrueRecords
    BY FetchedTrue DEF TypeInv, TypeOK
  <2> HIDE DEF start
  <2>4. Processed' = start.number /\ \A r \in blocks' : r = start \/ r \in blocks
    BY <2>1, <2>2, SavedHere
  <2>5. AnchorInv'
    BY <2>1, <2>2, <2>4 DEF AnchorInv, BlockRecord, Uint64
  <2>6. TrueInv'
    BY <2>1, <2>3, <2>4 DEF IndexInv, TrueInv
  <2>7. OrphanInv'
    BY <2>1 DEF OrphanInv, Searching
  <2> QED
    BY <2>5, <2>6, <2>7 DEF IndexInv
<1>4. CASE StartFails
  BY <1>4, IndexIdle DEF StartFails, LocalsDropped, Searching
<1> QED
  BY <1>1, <1>2, <1>3, <1>4 DEF Start

\* A call that returns without touching the store.
LEMMA IndexReturn ==
    ASSUME IndexInv, Return, UNCHANGED <<storeVars, anchor>>
    PROVE  IndexInv'
BY IndexIdle DEF Return, LocalsDropped, Searching

\* IndexInv through the poll loop and processNextBlock.
LEMMA IndexProcessNextBlock ==
    ASSUME TypeInv, LinkInv, IndexInv, ProcessNextBlock
    PROVE  IndexInv'
<1>1. CASE LoopExits
  BY <1>1, IndexIdle DEF LoopExits, IndexInv, OrphanInv, Searching, walkVars
<1>2. CASE Tick
  BY <1>2, IndexIdle DEF Tick, IndexInv, OrphanInv, Searching, walkVars
<1>3. CASE TickSkips
  BY <1>3, IndexUntouched DEF TickSkips, vars, loopVars, walkVars
<1>4. CASE FetchFails
  BY <1>4, IndexReturn DEF FetchFails
<1>5. CASE FetchReorg
  <2>1. /\ pc = "fetching" /\ pc' = "walking"
        /\ UNCHANGED <<storeVars, anchor, orphans>>
    BY <1>5 DEF FetchReorg
  <2>2. orphans' = <<>>
    BY <2>1 DEF IndexInv, OrphanInv, Searching
  <2>3. OrphanInv'
    <3> DEFINE new == GetBlockByNumber(blockNum)
    <3>1. parentNum' = Sub(new.number, 1)
      BY <1>5 DEF FetchReorg
    <3>2. new.number = blockNum \/ new = NullBlock
      BY FetchedReal DEF TypeInv, TypeOK
    <3>3. blockNum = last.number + 1 /\ (~closed => last.number = Processed)
      BY <2>1 DEF LinkInv, ParentInv
    <3>4. last.number \in Nat /\ MaxUint64 \in Nat
      BY ConfigAssumption DEF TypeInv, TypeOK, BlockRecord, Uint64
    <3>5. parentNum' = last.number \/ parentNum' = MaxUint64
      BY <3>1, <3>2, <3>3, <3>4 DEF Sub, NullBlock
    <3>6. ~closed' => parentNum' = Processed' \/ parentNum' = MaxUint64
      BY <2>1, <3>3, <3>5 DEF Processed, storeVars
    <3> QED
      BY <2>1, <2>2, <3>6 DEF OrphanInv, Searching
  <2>4. AnchorInv' /\ TrueInv'
    BY <2>1 DEF IndexInv, AnchorInv, TrueInv, Processed, storeVars
  <2> QED
    BY <2>3, <2>4 DEF IndexInv
<1>6. CASE FetchAccept
  <2>1. /\ pc = "fetching" /\ pc' = "logs" /\ block' = GetBlockByNumber(blockNum)
        /\ UNCHANGED <<storeVars, anchor, orphans>>
    BY <1>6 DEF FetchAccept, walkVars
  <2>2. orphans' = <<>>
    BY <2>1 DEF IndexInv, OrphanInv, Searching
  <2>3. OrphanInv'
    BY <2>1, <2>2 DEF OrphanInv, Searching
  <2>4. RecordOf(block', ChainId) \in TrueRecords
    BY <2>1, FetchedTrue DEF TypeInv, TypeOK
  <2>5. AnchorInv' /\ TrueInv'
    BY <2>1, <2>4 DEF IndexInv, AnchorInv, TrueInv, Processed, storeVars, RecordOf
  <2> QED
    BY <2>3, <2>5 DEF IndexInv
<1> QED
  BY <1>1, <1>2, <1>3, <1>4, <1>5, <1>6 DEF ProcessNextBlock

\* The end of an iteration.
LEMMA IndexAdvance ==
    ASSUME IndexInv, Advance, pc = "pruning", blocks' \subseteq blocks,
           UNCHANGED <<closed, lastProcessedBlocks, anchor>>
    PROVE  IndexInv'
<1>1. pc' \in {"fetching", "waiting"} /\ orphans' = <<>>
  BY DEF Advance, Return, LocalsDropped, walkVars, IndexInv, OrphanInv, Searching
<1>2. AnchorInv' /\ TrueInv'
  BY <1>1 DEF IndexInv, AnchorInv, TrueInv, Processed
<1>3. OrphanInv'
  BY <1>1 DEF OrphanInv, Searching
<1> QED
  BY <1>2, <1>3 DEF IndexInv

\* IndexInv through processBlockLogs.
LEMMA IndexProcessBlockLogs ==
    ASSUME PlainSetting, TypeInv, LinkInv, IndexInv, ProcessBlockLogs
    PROVE  IndexInv'
<1>1. ASSUME NEW b \in Batches, BatchReply(b) \/ BatchFails(b)
      PROVE  IndexInv'
  BY <1>1, IndexUntouched DEF BatchReply, BatchFails, loopVars, walkVars
<1>2. ASSUME NEW reply \in replies, HandleLog(reply)
      PROVE  IndexInv'
  BY <1>2, IndexUntouched DEF HandleLog, loopVars, walkVars
<1>3. CASE LogsFetchFails \/ DecodeFails \/ HandleLogFails
  BY <1>3, IndexReturn DEF LogsFetchFails, DecodeFails, HandleLogFails
<1>4. CASE SaveProcessed
  <2> DEFINE rec == RecordOf(block, ChainId)
  <2>1. /\ Store!SaveBlock(rec) /\ pc = "logs" /\ pc' = "pruning"
        /\ UNCHANGED <<block, orphans, anchor>>
    BY <1>4 DEF SaveProcessed, LogsHandled, loopVars, walkVars
  <2>2. rec \in BlockRecord /\ rec.chainId = ChainId /\ rec.number = block.number
    BY RecordOfBlock, ConfigAssumption DEF TypeInv, TypeOK, RecordOf
  <2>3. rec \in TrueRecords
    BY <2>1 DEF IndexInv, TrueInv
  <2>4. last.number = Processed /\ rec.number = last.number + 1 /\ last.number \in Nat /\ anchor \in Nat
    BY <2>1, <2>2 DEF LinkInv, ParentInv, BlockInv, Store!SaveBlock, TypeInv, TypeOK,
                      BlockRecord, Uint64
  <2>5. Processed' = rec.number /\ \A r \in blocks' : r = rec \/ r \in blocks
    BY <2>1, <2>2, SavedHere
  <2>6. rec' = rec
    BY <2>1 DEF RecordOf
  <2> HIDE DEF rec
  <2>7. AnchorInv'
    BY <2>1, <2>4, <2>5 DEF IndexInv, AnchorInv, Store!NoBlock
  <2>8. TrueInv'
    BY <2>1, <2>3, <2>5, <2>6 DEF IndexInv, TrueInv, rec
  <2>9. OrphanInv'
    BY <2>1 DEF IndexInv, OrphanInv, Searching
  <2> QED
    BY <2>7, <2>8, <2>9 DEF IndexInv
<1>5. CASE SaveProcessedFails
  <2>1. pc = "logs" /\ pc' = "pruning" /\ UNCHANGED <<storeVars, anchor, block, orphans>>
    BY <1>5 DEF SaveProcessedFails, LogsHandled, loopVars, walkVars
  <2>2. AnchorInv' /\ TrueInv'
    BY <2>1 DEF IndexInv, AnchorInv, TrueInv, Processed, storeVars, RecordOf
  <2>3. OrphanInv'
    BY <2>1 DEF IndexInv, OrphanInv, Searching
  <2> QED
    BY <2>2, <2>3 DEF IndexInv
<1>6. CASE Prune
  BY <1>6, IndexAdvance DEF Prune, Store!DeleteBlock
<1>7. CASE PruneSkips
  BY <1>7, IndexAdvance DEF PruneSkips, storeVars
<1> QED
  BY <1>1, <1>2, <1>3, <1>4, <1>5, <1>6, <1>7 DEF ProcessBlockLogs

\* The search found an orphan: it is the next one down.
LEMMA IndexWalkOrphan ==
    ASSUME TypeInv, LinkInv, IndexInv, WalkOrphan
    PROVE  IndexInv'
<1>1. PICK r \in Stored : orphans' = Append(orphans, r)
  BY DEF WalkOrphan
<1>2. /\ pc = "walking" /\ pc' = "walking" /\ parentNum' = parentNum - 1
      /\ UNCHANGED <<storeVars, anchor>>
  BY DEF WalkOrphan
<1>3. r \in blocks /\ r.chainId = ChainId /\ r.number = parentNum
  BY DEF Stored, Store!GetBlock, Store!HasKey
<1>4. ~closed /\ parentNum \in Nat /\ parentNum # MaxUint64
  BY <1>3, ConfigAssumption DEF LinkInv, StoreInv, TypeInv, TypeOK, Uint64
<1>5. orphans \in Seq(BlockRecord) /\ r \in BlockRecord
  BY <1>3 DEF TypeInv, TypeOK, Store!TypeOK, Store!BlockRecord, BlockRecord
<1>6. /\ Len(orphans) \in Nat
      /\ Len(orphans') = Len(orphans) + 1 /\ orphans' # <<>>
      /\ orphans'[Len(orphans) + 1] = r
      /\ \A k \in 1 .. Len(orphans) : orphans'[k] = orphans[k]
  BY <1>1, <1>5
<1>7. AnchorInv' /\ TrueInv'
  BY <1>2 DEF IndexInv, AnchorInv, TrueInv, Processed, storeVars
<1>8. /\ orphans'[1].number = Processed
      /\ r.number = orphans'[1].number - Len(orphans)
      /\ orphans'[1].number \in Nat
  <2>1. CASE orphans = <<>>
    <3>1. parentNum = Processed
      BY <1>2, <1>4, <2>1 DEF IndexInv, OrphanInv
    <3>2. orphans'[1] = r /\ Len(orphans) = 0
      BY <1>6, <2>1
    <3> QED
      BY <1>3, <1>4, <3>1, <3>2
  <2>2. CASE orphans # <<>>
    <3>1. Len(orphans) > 0
      BY <1>5, <2>2
    <3>2. orphans'[1] = orphans[1]
      BY <1>6, <3>1
    <3>3. parentNum = orphans[1].number - Len(orphans) /\ orphans[1].number = Processed
      BY <1>2, <1>4, <2>2 DEF IndexInv, OrphanInv
    <3>4. orphans[1] \in BlockRecord
      BY <1>5, <3>1
    <3>5. orphans[1].number \in Nat
      BY <3>4, ConfigAssumption DEF BlockRecord, Uint64
    <3> QED
      BY <1>3, <3>2, <3>3, <3>5
  <2> QED
    BY <2>1, <2>2
<1>9. OrphanInv'
  <2>1. ASSUME NEW k \in 1 .. Len(orphans')
        PROVE  orphans'[k].chainId = ChainId /\ orphans'[k].number = orphans'[1].number - (k - 1)
    <3>1. CASE k = Len(orphans) + 1
      <4>1. k - 1 = Len(orphans) /\ orphans'[k] = r
        BY <1>6, <3>1
      <4> QED
        BY <1>3, <1>8, <4>1
    <3>2. CASE k # Len(orphans) + 1
      <4>1. k \in 1 .. Len(orphans) /\ 1 \in 1 .. Len(orphans)
        BY <1>6, <3>2
      <4>2. orphans'[k] = orphans[k] /\ orphans'[1] = orphans[1]
        BY <1>6, <4>1
      <4> QED
        BY <4>1, <4>2 DEF IndexInv, OrphanInv
    <3> QED
      BY <3>1, <3>2
  <2>2. parentNum' = orphans'[1].number - Len(orphans')
    <3>1. parentNum' = (orphans'[1].number - Len(orphans)) - 1
      BY <1>2, <1>3, <1>8
    <3> QED
      BY <1>6, <1>8, <3>1
  <2>3. Processed' = Processed
    BY <1>2 DEF Processed, storeVars
  <2> QED
    BY <1>2, <1>6, <1>8, <2>1, <2>2, <2>3 DEF OrphanInv, Searching
<1> QED
  BY <1>7, <1>9 DEF IndexInv

\* The search ends, and the store's records of the poller's chain stay.
LEMMA IndexSearchEnds ==
    ASSUME IndexInv, pc = "walking", pc' = "settling", UNCHANGED orphans,
           ~closed' => ~closed, Processed' = Processed, anchor' = anchor,
           \A r : r.chainId = ChainId => (r \in blocks' <=> r \in blocks)
    PROVE  IndexInv'
<1>1. AnchorInv' /\ TrueInv'
  BY DEF IndexInv, AnchorInv, TrueInv
<1>2. OrphanInv'
  BY DEF IndexInv, OrphanInv, Searching
<1> QED
  BY <1>1, <1>2 DEF IndexInv

\* Saving the ancestor: the records that count after it are not above the first
\* orphan.
LEMMA IndexSettle ==
    ASSUME TypeInv, LinkInv, IndexInv, Settle
    PROVE  IndexInv'
<1>1. PICK r \in parentRec : Store!SaveBlock(r) /\ AnchorAt(r)
  BY DEF Settle
<1>2. /\ pc = "settling"
      /\ \/ pc' = "undoing" /\ orphans' = orphans /\ orphans # <<>>
         \/ pc' = "waiting" /\ orphans' = <<>>
  BY DEF Settle, Return, LocalsDropped, walkVars
<1>3. r \in BlockRecord /\ ~closed
  BY <1>1 DEF TypeInv, TypeOK, Store!SaveBlock
<1>4. /\ \A s \in blocks : s.number \in Nat
      /\ anchor \in Nat /\ Processed \in Int /\ r.number \in Nat
  BY <1>3, ConfigAssumption
     DEF TypeInv, TypeOK, Store!TypeOK, Store!BlockRecord, Store!NoBlock, Processed, Uint64, BlockRecord
<1>5. /\ AnchorInv' /\ Processed' <= Processed
      /\ \A s \in blocks' : s.chainId = ChainId => s \in blocks
  <2>1. CASE r.chainId = ChainId
    <3>1. r \in blocks /\ r.number <= Processed
      BY <1>1, <1>2, <1>3, <2>1 DEF LinkInv, WalkInv
    <3>2. Processed' = r.number /\ \A s \in blocks' : s = r \/ s \in blocks
      BY <1>1, <1>3, <2>1, SavedHere
    <3>3. anchor' <= r.number
      BY <1>1, <1>4, <2>1 DEF AnchorAt
    <3> QED
      BY <3>1, <3>2, <3>3 DEF AnchorInv
  <2>2. CASE r.chainId # ChainId
    <3>1. Processed' = Processed /\ \A s : s.chainId = ChainId => (s \in blocks' <=> s \in blocks)
      BY <1>1, <1>3, <2>2, SavedElsewhere
    <3>2. anchor' = anchor
      BY <1>1, <2>2 DEF AnchorAt
    <3> QED
      BY <1>4, <3>1, <3>2 DEF IndexInv, AnchorInv
  <2> QED
    BY <2>1, <2>2
<1>6. TrueInv'
  BY <1>2, <1>5 DEF IndexInv, TrueInv
<1>7. OrphanInv'
  <2>1. CASE pc' = "undoing" /\ orphans' = orphans /\ orphans # <<>>
    <3>1. orphans[1].number = Processed
      BY <1>2, <1>3, <2>1 DEF IndexInv, OrphanInv
    <3>2. ASSUME NEW s \in Index'
          PROVE  s.number <= orphans[1].number
      <4>1. s \in blocks' /\ s.chainId = ChainId /\ s.number <= Processed'
        BY DEF Index, Processed
      <4>2. s.number \in Nat /\ Processed' \in Int
        <5>1. Store!TypeOK'
          BY <1>1, <1>3, SaveBlockType DEF TypeInv, TypeOK
        <5> QED
          BY <1>4, <1>5, <4>1, <5>1, ConfigAssumption
             DEF Store!TypeOK, Store!NoBlock, Processed, Uint64
      <4> QED
        BY <1>4, <1>5, <3>1, <4>1, <4>2
    <3> QED
      BY <2>1, <3>2 DEF IndexInv, OrphanInv, Searching
  <2>2. CASE pc' = "waiting" /\ orphans' = <<>>
    BY <2>2 DEF OrphanInv, Searching
  <2> QED
    BY <1>2, <2>1, <2>2
<1> QED
  BY <1>5, <1>6, <1>7 DEF IndexInv

\* What Undo does to the records that count: the one at the first orphan's
\* height goes, and nothing was above it.
LEMMA UndoIndex ==
    ASSUME TypeInv, IndexInv, Undo
    PROVE  /\ orphans \in Seq(BlockRecord) /\ orphans # <<>> /\ orphans[1].number \in Nat
           /\ blocks' \subseteq blocks /\ UNCHANGED <<closed, lastProcessedBlocks, anchor>>
           /\ Index' = {r \in Index : r.number < orphans[1].number}
           /\ \A r \in Index : r.number \in Nat /\ r.number <= orphans[1].number
<1>1. pc = "deleting" /\ orphans \in Seq(BlockRecord) /\ orphans # <<>>
  BY DEF Undo, TypeInv, TypeOK
<1>2. Head(orphans) = orphans[1] /\ orphans[1] \in BlockRecord /\ 1 \in 1 .. Len(orphans)
  BY <1>1
<1>3. orphans[1].number \in Nat /\ orphans[1].chainId = ChainId
  BY <1>2, ConfigAssumption DEF IndexInv, OrphanInv, BlockRecord, Uint64
<1>4. /\ blocks' = blocks \ Store!GetBlock(ChainId, orphans[1].number)
      /\ UNCHANGED <<closed, lastProcessedBlocks, anchor>>
  BY <1>2, <1>3 DEF Undo
<1>5. \A r \in Index : r.number \in Nat /\ r.chainId = ChainId /\ r.number <= orphans[1].number
  BY <1>1, ConfigAssumption
     DEF IndexInv, OrphanInv, Index, TypeInv, TypeOK, Store!TypeOK, Store!BlockRecord, Uint64
<1>6. Index' = {r \in Index : ~Store!HasKey(r, ChainId, orphans[1].number)}
  BY <1>4 DEF Index, Store!GetBlock
<1>7. \A r \in Index : ~Store!HasKey(r, ChainId, orphans[1].number) <=> r.number < orphans[1].number
  BY <1>3, <1>5 DEF Store!HasKey
<1> QED
  BY <1>1, <1>3, <1>4, <1>5, <1>6, <1>7

\* IndexInv when an orphan is deleted.
LEMMA IndexUndo ==
    ASSUME TypeInv, IndexInv, Undo
    PROVE  IndexInv'
<1>1. /\ orphans \in Seq(BlockRecord) /\ orphans # <<>> /\ orphans[1].number \in Nat
      /\ blocks' \subseteq blocks /\ UNCHANGED <<closed, lastProcessedBlocks, anchor>>
      /\ Index' = {r \in Index : r.number < orphans[1].number}
      /\ \A r \in Index : r.number \in Nat
  BY UndoIndex
<1>2. pc = "deleting" /\ Undone
  BY DEF Undo
<1>3. AnchorInv'
  BY <1>1 DEF IndexInv, AnchorInv, Processed
<1>4. CASE Len(orphans) = 1
  <2>1. pc' = "waiting" /\ orphans' = <<>>
    BY <1>2, <1>4 DEF Undone, Return, LocalsDropped
  <2>2. TrueInv'
    BY <1>1, <2>1 DEF IndexInv, TrueInv
  <2>3. OrphanInv'
    BY <2>1 DEF OrphanInv, Searching
  <2> QED
    BY <1>3, <2>2, <2>3 DEF IndexInv
<1>5. CASE Len(orphans) # 1
  <2>1. pc' = "undoing" /\ orphans' = Tail(orphans)
    BY <1>2, <1>5 DEF Undone
  <2>2. Len(orphans) \in Nat /\ Len(orphans) >= 2
    <3>1. orphans \in Seq(BlockRecord) /\ orphans # <<>>
      BY <1>1
    <3>2. Len(orphans) \in Nat /\ Len(orphans) # 0
      BY <3>1
    <3>3. \A n \in Nat : n # 0 /\ n # 1 => n >= 2
      OBVIOUS
    <3> QED
      BY <1>5, <3>2, <3>3
  <2>3. /\ Len(orphans') = Len(orphans) - 1
        /\ \A k \in 1 .. Len(orphans) - 1 : orphans'[k] = orphans[k + 1]
    BY <1>1, <2>1, <2>2
  <2>4. \A k \in 1 .. Len(orphans) :
          orphans[k].chainId = ChainId /\ orphans[k].number = orphans[1].number - (k - 1)
    BY DEF IndexInv, OrphanInv
  <2>5. orphans'[1].number = orphans[1].number - 1
    <3>1. orphans'[1] = orphans[2] /\ 2 \in 1 .. Len(orphans)
      BY <2>2, <2>3
    <3>2. orphans[2].number = orphans[1].number - (2 - 1)
      BY <2>4, <3>1
    <3> QED
      BY <1>1, <3>1, <3>2
  <2>6. ASSUME NEW k \in 1 .. Len(orphans')
        PROVE  orphans'[k].chainId = ChainId /\ orphans'[k].number = orphans'[1].number - (k - 1)
    <3>1. k \in Nat /\ k \in 1 .. Len(orphans) - 1 /\ k + 1 \in 1 .. Len(orphans)
      BY <2>2, <2>3
    <3>2. orphans[k + 1].chainId = ChainId /\ orphans[k + 1].number = orphans[1].number - ((k + 1) - 1)
      BY <2>4, <3>1
    <3>3. orphans'[k] = orphans[k + 1]
      BY <2>3, <3>1
    <3> QED
      BY <1>1, <2>5, <3>1, <3>2, <3>3
  <2>7. \A r \in Index' : r.number <= orphans'[1].number
    BY <1>1, <2>5
  <2>8. OrphanInv'
    BY <2>1, <2>6, <2>7 DEF OrphanInv, Searching
  <2>9. TrueInv'
    BY <1>1, <2>1 DEF IndexInv, TrueInv
  <2> QED
    BY <1>3, <2>8, <2>9 DEF IndexInv
<1> QED
  BY <1>4, <1>5

\* IndexInv through the search and the undoing.
LEMMA IndexReconcileReorg ==
    ASSUME PlainSetting, TypeInv, LinkInv, IndexInv, ReconcileReorg
    PROVE  IndexInv'
<1>1. CASE WalkFails
  BY <1>1, IndexReturn DEF WalkFails
<1>2. CASE WalkOrphan
  BY <1>2, IndexWalkOrphan
<1>3. CASE WalkMatch
  BY <1>3, IndexSearchEnds DEF WalkMatch, storeVars, Processed
<1>4. CASE WalkMissing
  <2> DEFINE found == RecordOf(GetBlockByNumber(parentNum), ClientChainId)
  <2>1. /\ Store!SaveBlock(found) /\ AnchorAt(found)
        /\ pc = "walking" /\ pc' = "settling" /\ UNCHANGED orphans
    BY <1>4 DEF WalkMissing, Fails, PlainSetting
  <2>2. found \in BlockRecord /\ found.chainId # ChainId
    BY FetchedBlock, RecordOfBlock, ConfigAssumption
       DEF TypeInv, TypeOK, PlainSetting, RecordOf
  <2> HIDE DEF found
  <2>3. /\ ~closed /\ Processed' = Processed /\ anchor' = anchor
        /\ \A s : s.chainId = ChainId => (s \in blocks' <=> s \in blocks)
    BY <2>1, <2>2, SavedElsewhere DEF AnchorAt
  <2> QED
    BY <2>1, <2>3, IndexSearchEnds
<1>5. CASE WalkExhausted
  BY <1>5, IndexSearchEnds DEF WalkExhausted, storeVars, walkVars, Processed
<1>6. CASE Settle
  BY <1>6, IndexSettle
<1>7. CASE SettleFails
  BY <1>7, IndexReturn DEF SettleFails
<1>8. CASE Undo
  BY <1>8, IndexUndo
<1>9. CASE UndoFails
  BY <1>9, IndexReturn DEF UndoFails
<1>10. CASE Report
  <2>1. pc = "undoing" /\ pc' = "deleting" /\ UNCHANGED <<storeVars, anchor, orphans>>
    BY <1>10 DEF Report, walkVars
  <2>2. Index' = Index
    BY <2>1 DEF Index, storeVars
  <2> QED
    BY <2>1, <2>2 DEF IndexInv, AnchorInv, TrueInv, OrphanInv, Searching, Processed, storeVars
<1> QED
  BY <1>1, <1>2, <1>3, <1>4, <1>5, <1>6, <1>7, <1>8, <1>9, <1>10 DEF ReconcileReorg

\* IndexInv through every step.
LEMMA IndexStep ==
    ASSUME PlainSetting, TypeInv, LinkInv, IndexInv, [Next]_vars
    PROVE  IndexInv'
<1>1. CASE Next
  BY <1>1, IndexEnvironment, IndexStart, IndexProcessNextBlock, IndexProcessBlockLogs,
     IndexReconcileReorg DEF Next
<1>2. CASE UNCHANGED vars
  BY <1>2, IndexUntouched DEF vars, loopVars, walkVars
<1> QED
  BY <1>1, <1>2

-----------------------------------------------------------------------------
(* Every step of the poller is a step of IndexedChain, or changes nothing in   *)
(* the records it goes by                                                      *)

AbstractStep == Abstract!Next \/ UNCHANGED Index

\* The numbers of the indexed records lie between the anchor and the last processed block.
LEMMA IndexTypes ==
    ASSUME TypeInv
    PROVE  /\ \A r \in blocks : r.number \in Nat
           /\ anchor \in Nat /\ Processed \in Int
           /\ \A r \in Index : /\ r \in blocks /\ r.chainId = ChainId /\ r.number \in Nat
                               /\ anchor <= r.number /\ r.number <= Processed
BY ConfigAssumption
   DEF TypeInv, TypeOK, Store!TypeOK, Store!BlockRecord, Store!NoBlock, Processed, Uint64, Index

\* A step that leaves the store alone.
LEMMA SameIndex ==
    ASSUME UNCHANGED <<storeVars, anchor>>
    PROVE  AbstractStep
BY DEF AbstractStep, Index, storeVars

\* Moves of the world do not change the index, or empty it with the store.
LEMMA RefineEnvironment ==
    ASSUME Environment
    PROVE  AbstractStep
<1>1. CASE ChainMoves \/ Cancel
  BY <1>1, SameIndex DEF ChainMoves, Cancel
<1>2. CASE CloseStore
  <2>1. Index' = {}
    BY <1>2 DEF CloseStore, Store!Close, Index
  <2> QED
    BY <2>1 DEF AbstractStep, Abstract!Next, Abstract!Lose
<1>3. CASE Crash
  <2>1. CASE UNCHANGED storeVars
    BY <1>3, <2>1, SameIndex DEF Crash
  <2>2. CASE blocks' = {}
    <3>1. Index' = {}
      BY <2>2 DEF Index
    <3> QED
      BY <3>1 DEF AbstractStep, Abstract!Next, Abstract!Lose
  <2> QED
    BY <1>3, <2>1, <2>2 DEF Crash
<1> QED
  BY <1>1, <1>2, <1>3 DEF Environment

\* Start begins the chain anew.
LEMMA RefineStart ==
    ASSUME TypeInv, Start
    PROVE  AbstractStep
<1>1. CASE StartResume \/ StartFresh \/ StartFails
  BY <1>1, SameIndex DEF StartResume, StartFresh, StartFails
<1>2. CASE StartAnchor
  <2> DEFINE start == RecordOf(GetBlockByNumber(blockNum), ChainId)
  <2>1. Store!SaveBlock(start) /\ anchor' = start.number
    BY <1>2 DEF StartAnchor
  <2>2. start \in BlockRecord /\ start.chainId = ChainId
    BY FetchedBlock, RecordOfBlock, ConfigAssumption DEF TypeInv, TypeOK, RecordOf
  <2>3. start \in TrueRecords
    BY FetchedTrue DEF TypeInv, TypeOK
  <2> HIDE DEF start
  <2>4. /\ Processed' = start.number /\ start \in blocks' /\ start.number \in Nat
        /\ \A r \in blocks' : r.chainId = ChainId /\ r.number = start.number => r = start
    BY <2>1, <2>2, SavedHere DEF BlockRecord, Uint64
  <2>5. TypeInv'
    BY <1>2, TypeStart DEF Start
  <2>6. \A r \in blocks' : r.number \in Nat
    BY <2>5 DEF TypeInv, TypeOK, Store!TypeOK, Store!BlockRecord, Uint64
  <2>7. Index' = {start}
    BY <2>1, <2>2, <2>4, <2>6 DEF Index, Processed
  <2> QED
    BY <2>3, <2>7 DEF AbstractStep, Abstract!Next, Abstract!Anchor
<1> QED
  BY <1>1, <1>2 DEF Start

\* Polling and fetching do not change the index.
LEMMA RefineProcessNextBlock ==
    ASSUME ProcessNextBlock
    PROVE  AbstractStep
<1>1. UNCHANGED <<storeVars, anchor>>
  BY DEF ProcessNextBlock, LoopExits, Tick, TickSkips, FetchFails, FetchReorg, FetchAccept, vars
<1> QED
  BY <1>1, SameIndex

\* Saving a processed block adds a child of the tip.
LEMMA RefineSaveProcessed ==
    ASSUME TypeInv, LinkInv, IndexInv, SaveProcessed
    PROVE  /\ AbstractStep
           /\ Index' = Index \cup {RecordOf(block, ChainId)}
<1> DEFINE rec == RecordOf(block, ChainId)
<1>1. Store!SaveBlock(rec) /\ pc = "logs" /\ anchor' = anchor /\ ~closed
  BY DEF SaveProcessed, LogsHandled, Store!SaveBlock
<1>2. /\ rec \in BlockRecord /\ rec.chainId = ChainId /\ rec.number = block.number
      /\ rec.parentHash = block.parentHash
  BY RecordOfBlock, ConfigAssumption DEF TypeInv, TypeOK, RecordOf
<1>3. /\ last \in blocks /\ last.chainId = ChainId /\ last.number = Processed
      /\ rec.number = last.number + 1 /\ rec.parentHash = last.hash
  BY <1>1, <1>2 DEF LinkInv, ParentInv, BlockInv
<1>4. rec \in TrueRecords
  BY <1>1 DEF IndexInv, TrueInv
<1> HIDE DEF rec
<1>5. /\ Processed' = rec.number
      /\ blocks' = (blocks \ Store!GetBlock(ChainId, rec.number)) \cup {rec}
  BY <1>1, <1>2, SavedHere DEF Store!SaveBlock
<1>6. last.number \in Nat /\ last.number # Store!NoBlock
  BY <1>3, IndexTypes DEF Store!NoBlock
<1>7. anchor <= last.number /\ anchor \in Nat
  BY <1>3, <1>6, IndexTypes DEF IndexInv, AnchorInv
<1>8. last \in Index
  BY <1>3, <1>6, <1>7 DEF Index, Processed
<1>9. Index' = Index \cup {rec}
  <2>1. \A r \in blocks : r.number \in Nat
    BY IndexTypes
  <2>2. \A r \in Index' : r \in Index \cup {rec}
    BY <1>1, <1>3, <1>5, <1>6, <2>1 DEF Index, Processed, Store!GetBlock, Store!HasKey
  <2>3. rec \in Index'
    BY <1>1, <1>2, <1>3, <1>5, <1>6, <1>7 DEF Index, Processed
  <2>4. \A r \in Index : r \in Index'
    BY <1>1, <1>3, <1>5, <1>6, <2>1 DEF Index, Processed, Store!GetBlock, Store!HasKey
  <2> QED
    BY <2>2, <2>3, <2>4
<1>10. \A r \in Index : r.number <= last.number
  BY <1>3 DEF Index, Processed
<1>11. Abstract!Extend(rec)
  BY <1>3, <1>8, <1>9, <1>10 DEF Abstract!Extend, Abstract!IsTip
<1>12. AbstractStep
  BY <1>4, <1>11 DEF AbstractStep, Abstract!Next
<1> QED
  BY <1>9, <1>12 DEF rec

\* Pruning forgets a record that is not the tip.
LEMMA RefinePrune ==
    ASSUME TypeInv, LinkInv, IndexInv, Prune
    PROVE  AbstractStep
<1> DEFINE rec == RecordOf(block, ChainId)
           n == block.number - BlockHistorySize
<1>1. /\ pc = "pruning" /\ ~closed /\ BlockHistorySize > 0
      /\ blocks' = blocks \ Store!GetBlock(ChainId, n)
      /\ UNCHANGED <<closed, lastProcessedBlocks, anchor>>
  BY DEF Prune, PruneDue, Store!DeleteBlock
<1>2. /\ rec \in blocks /\ rec.chainId = ChainId /\ rec.number = Processed
      /\ block.number = rec.number /\ rec.number \in Nat
  BY <1>1, IndexTypes DEF LinkInv, BlockInv, RecordOf
<1>3. n < rec.number /\ n \in Int
  BY <1>1, <1>2, ConfigAssumption
<1>4. rec \in Index
  BY <1>2, IndexTypes DEF IndexInv, AnchorInv, Store!NoBlock, Index, Processed
<1> HIDE DEF rec, n
<1>5. Index' = {r \in Index : r.number # n}
  BY <1>1 DEF Index, Store!GetBlock, Store!HasKey
<1>6. CASE \E r \in Index : r.number = n
  <2>1. PICK r \in Index : r.number = n
    BY <1>6
  <2>2. \A s \in Index : s.number = n => s = r
    BY <2>1, KeyUnique, IndexTypes
  <2>3. Index' = Index \ {r}
    BY <1>5, <2>1, <2>2
  <2>4. ~(rec.number <= r.number)
    BY <1>2, <1>3, <2>1
  <2>5. Abstract!Forget(r)
    BY <1>4, <2>3, <2>4 DEF Abstract!Forget, Abstract!IsTip
  <2> QED
    BY <2>1, <2>5 DEF AbstractStep, Abstract!Next
<1>7. CASE ~ \E r \in Index : r.number = n
  BY <1>5, <1>7 DEF AbstractStep
<1> QED
  BY <1>6, <1>7

\* A save extends the index at its tip, a prune cuts it at its bottom.
LEMMA RefineProcessBlockLogs ==
    ASSUME TypeInv, LinkInv, IndexInv, ProcessBlockLogs
    PROVE  AbstractStep
<1>1. ASSUME NEW b \in Batches, BatchReply(b) \/ BatchFails(b)
      PROVE  AbstractStep
  BY <1>1, SameIndex DEF BatchReply, BatchFails
<1>2. ASSUME NEW reply \in replies, HandleLog(reply)
      PROVE  AbstractStep
  BY <1>2, SameIndex DEF HandleLog
<1>3. CASE LogsFetchFails \/ DecodeFails \/ HandleLogFails \/ SaveProcessedFails \/ PruneSkips
  BY <1>3, SameIndex DEF LogsFetchFails, DecodeFails, HandleLogFails, SaveProcessedFails, PruneSkips
<1>4. CASE SaveProcessed
  BY <1>4, RefineSaveProcessed
<1>5. CASE Prune
  BY <1>5, RefinePrune
<1> QED
  BY <1>1, <1>2, <1>3, <1>4, <1>5 DEF ProcessBlockLogs

\* What keeps the records below some height is a rollback, of the lowest record
\* above it.
LEMMA CutBack ==
    ASSUME TypeInv, NEW n \in Int, Index' = {r \in Index : r.number <= n}
    PROVE  AbstractStep
<1>1. CASE \A r \in Index : r.number <= n
  BY <1>1 DEF AbstractStep
<1>2. CASE ~ \A r \in Index : r.number <= n
  <2> DEFINE T == {r.number : r \in {s \in Index : ~(s.number <= n)}}
  <2>1. T \subseteq Nat /\ T # {}
    BY <1>2, IndexTypes
  <2>2. PICK m \in T : \A k \in T : m <= k
    BY <2>1, LeastNatural
  <2>3. PICK b \in Index : ~(b.number <= n) /\ b.number = m
    BY <2>2
  <2>4. \A r \in Index : r.number \in Nat
    BY IndexTypes
  <2>5. ASSUME NEW r \in Index
        PROVE  r.number <= n <=> r.number < b.number
    <3>1. CASE r.number <= n
      BY <2>3, <2>4, <3>1
    <3>2. CASE ~(r.number <= n)
      <4>1. b.number <= r.number
        BY <2>2, <2>3, <3>2
      <4> QED
        BY <2>4, <3>2, <4>1
    <3> QED
      BY <3>1, <3>2
  <2>6. Index' = {a \in Index : a.number < b.number}
    BY <2>5
  <2>7. Abstract!Rollback(b)
    BY <2>6 DEF Abstract!Rollback
  <2> QED
    BY <2>3, <2>7 DEF AbstractStep, Abstract!Next
<1> QED
  BY <1>1, <1>2

\* Saving the ancestor cuts the chain back to it, or begins it anew when the
\* ancestor is below its beginning.
LEMMA RefineSettle ==
    ASSUME TypeInv, LinkInv, IndexInv, Settle
    PROVE  /\ AbstractStep
           /\ \/ Index' \subseteq Index /\ anchor' = anchor
              \/ \A r \in Index' : r.number <= anchor'
<1>1. PICK r \in parentRec : Store!SaveBlock(r) /\ AnchorAt(r)
  BY DEF Settle
<1>2. r \in BlockRecord /\ ~closed /\ pc = "settling"
  BY <1>1 DEF Settle, TypeInv, TypeOK, Store!SaveBlock
<1>3. \A s \in blocks : s.number \in Nat
  BY IndexTypes
<1>4. anchor \in Nat /\ Processed \in Int
  BY IndexTypes
<1>5. CASE r.chainId = ChainId
  <2>1. r \in blocks /\ r.number <= Processed
    BY <1>1, <1>2, <1>5 DEF LinkInv, WalkInv
  <2>2. Processed' = r.number
    BY <1>1, <1>2, <1>5, SavedHere
  <2>3. blocks' = blocks
    <3>1. Store!GetBlock(r.chainId, r.number) = {r}
      BY <2>1, KeyUnique DEF Store!GetBlock, Store!HasKey
    <3> QED
      BY <1>1, <2>1, <3>1 DEF Store!SaveBlock
  <2>4. r.number \in Nat
    BY <1>3, <2>1
  <2>5. CASE r.number < anchor
    <3>1. anchor' = r.number
      BY <1>1, <1>5, <2>5 DEF AnchorAt
    <3>2. Index' = {r}
      <4>1. \A s \in Index' : s \in blocks /\ s.chainId = ChainId /\ s.number = r.number
        BY <1>3, <2>2, <2>3, <2>4, <3>1 DEF Index, Processed
      <4>2. r \in Index'
        BY <1>5, <2>1, <2>2, <2>3, <2>4, <3>1 DEF Index, Processed
      <4> QED
        BY <1>5, <2>1, <4>1, <4>2, KeyUnique
    <3>3. r \in TrueRecords
      BY <1>5, <2>1 DEF IndexInv, TrueInv
    <3> QED
      BY <2>4, <3>1, <3>2, <3>3 DEF AbstractStep, Abstract!Next, Abstract!Anchor
  <2>6. CASE ~(r.number < anchor)
    <3>1. anchor' = anchor
      BY <1>1, <2>6 DEF AnchorAt
    <3>2. Index' = {s \in Index : s.number <= r.number}
      BY <1>3, <1>4, <2>1, <2>2, <2>3, <2>4, <3>1 DEF Index, Processed
    <3>3. r.number \in Int
      BY <2>4
    <3> QED
      BY <3>1, <3>2, <3>3, CutBack
  <2> QED
    BY <2>5, <2>6
<1>6. CASE r.chainId # ChainId
  <2>1. Processed' = Processed /\ \A s : s.chainId = ChainId => (s \in blocks' <=> s \in blocks)
    BY <1>1, <1>2, <1>6, SavedElsewhere
  <2>2. anchor' = anchor
    BY <1>1, <1>6 DEF AnchorAt
  <2>3. Index' = Index
    BY <2>1, <2>2 DEF Index, Processed
  <2> QED
    BY <2>2, <2>3 DEF AbstractStep
<1> QED
  BY <1>5, <1>6

\* A missing record is saved under the client's chain id, and changes nothing the
\* poller goes by.
LEMMA WalkMissingIndex ==
    ASSUME PlainSetting, TypeInv, LinkInv, WalkMissing
    PROVE  UNCHANGED <<Index, anchor>>
<1> DEFINE found == RecordOf(GetBlockByNumber(parentNum), ClientChainId)
<1>1. Store!SaveBlock(found) /\ AnchorAt(found)
  BY DEF WalkMissing, Fails, PlainSetting
<1>2. found \in BlockRecord /\ found.chainId # ChainId
  BY FetchedBlock, RecordOfBlock, ConfigAssumption
     DEF TypeInv, TypeOK, PlainSetting, RecordOf
<1> HIDE DEF found
<1>3. /\ Processed' = Processed /\ anchor' = anchor
      /\ \A s : s.chainId = ChainId => (s \in blocks' <=> s \in blocks)
  BY <1>1, <1>2, SavedElsewhere DEF AnchorAt
<1> QED
  BY <1>3 DEF Index, Processed

\* A rewind and the deletion of orphans cut the index from the top only.
LEMMA RefineReconcileReorg ==
    ASSUME PlainSetting, TypeInv, LinkInv, IndexInv, ReconcileReorg
    PROVE  AbstractStep
<1>1. CASE WalkFails \/ WalkOrphan \/ WalkMatch \/ WalkExhausted \/ SettleFails \/ Report \/ UndoFails
  BY <1>1, SameIndex
     DEF WalkFails, WalkOrphan, WalkMatch, WalkExhausted, SettleFails, Report, UndoFails
<1>2. CASE WalkMissing
  BY <1>2, WalkMissingIndex DEF AbstractStep
<1>3. CASE Settle
  BY <1>3, RefineSettle
<1>4. CASE Undo
  <2>1. /\ orphans[1].number - 1 \in Int
        /\ Index' = {r \in Index : r.number <= orphans[1].number - 1}
    <3>1. /\ orphans[1].number \in Nat
          /\ Index' = {r \in Index : r.number < orphans[1].number}
          /\ \A r \in Index : r.number \in Nat
      BY <1>4, UndoIndex
    <3> QED
      BY <3>1
  <2> QED
    BY <2>1, CutBack
<1> QED
  BY <1>1, <1>2, <1>3, <1>4 DEF ReconcileReorg

\* Every step is a step of IndexedChain or leaves the index alone.
LEMMA RefineStep ==
    ASSUME PlainSetting, TypeInv, LinkInv, IndexInv, [Next]_vars
    PROVE  [Abstract!Next]_Index
<1>1. CASE Next
  BY <1>1, RefineEnvironment, RefineStart, RefineProcessNextBlock, RefineProcessBlockLogs,
     RefineReconcileReorg DEF Next, AbstractStep
<1>2. CASE UNCHANGED vars
  BY <1>2 DEF vars, storeVars, Index
<1> QED
  BY <1>1, <1>2

\* With a store that does not fail while it is open, the poller implements
\* IndexedChain: whatever reorgs, failed requests, cancellations, crashes and
\* restarts come, the records it goes by grow only by one child of the tip at a
\* time, a block that was on some chain, and shrink only from the top, by
\* pruning below the tip or with the whole store (evmChainPoller.go:316, 323,
\* 469, 536).
THEOREM PollerImplementsIndexedChain ==
    ASSUME PlainSetting
    PROVE  Spec => ImplementsIndexedChain
<1>1. Init => TypeInv /\ LinkInv /\ IndexInv
  BY TypeInit, LinkInit, IndexInit
<1>2. TypeInv /\ LinkInv /\ IndexInv /\ [Next]_vars => (TypeInv /\ LinkInv /\ IndexInv)'
  BY TypeStep, LinkStep, IndexStep
<1>3. Init => Abstract!Init
  BY DEF Init, Store!New, Index, Abstract!Init
<1>4. TypeInv /\ LinkInv /\ IndexInv /\ [Next]_vars => [Abstract!Next]_Index
  BY RefineStep
<1> QED
  BY <1>1, <1>2, <1>3, <1>4, PTL DEF Spec, ImplementsIndexedChain, Abstract!Spec

-----------------------------------------------------------------------------
(* What is recorded has been delivered *)

\* The handler holds the block in hand, and every batch of its logs is still
\* awaited, has failed, waits to be handled, or has been.
DeliveryInv ==
    pc = "logs" =>
       /\ block \in view
       /\ \A b \in Batches :
             \/ b \in pending
             \/ fetchErr = TRUE
             \/ \E reply \in replies : reply.batch = b
             \/ \E l \in logged : l.block = block /\ l.batch = b

Delivered(r) ==
    /\ [number |-> r.number, hash |-> r.hash, parentHash |-> r.parentHash] \in view
    /\ \A b \in Batches :
          \E l \in logged : /\ l.block.number = r.number
                            /\ l.block.hash = r.hash
                            /\ l.batch = b

\* The records that count do not grow, the handler forgets nothing.
LEMMA DeliveredKept ==
    ASSUME CommittedDelivered, Index' \subseteq Index, anchor' = anchor,
           view \subseteq view', logged \subseteq logged'
    PROVE  CommittedDelivered'
BY DEF CommittedDelivered

\* The records that count are at the beginning of the chain.
LEMMA DeliveredAtAnchor ==
    ASSUME TypeInv', \A r \in Index' : r.number <= anchor'
    PROVE  CommittedDelivered'
<1>1. \A r \in Index' : r.number \in Nat
  BY ConfigAssumption DEF Index, TypeInv, TypeOK, Store!TypeOK, Store!BlockRecord, Uint64
<1>2. anchor' \in Nat
  BY ConfigAssumption DEF TypeInv, TypeOK, Uint64
<1>3. \A r \in Index' : ~(r.number > anchor')
  BY <1>1, <1>2
<1> QED
  BY <1>3 DEF CommittedDelivered

\* Nothing is recorded, so nothing is undelivered.
LEMMA DeliveryInit == Init => CommittedDelivered /\ DeliveryInv
BY DEF Init, Store!New, CommittedDelivered, DeliveryInv, Index

\* Delivery while the world moves.
LEMMA DeliveryEnvironment ==
    ASSUME CommittedDelivered, DeliveryInv, Environment
    PROVE  (CommittedDelivered /\ DeliveryInv)'
<1>1. CASE ChainMoves \/ Cancel
  <2>1. Index' = Index /\ anchor' = anchor /\ UNCHANGED <<pc, block, logVars, handlerVars>>
    BY <1>1 DEF ChainMoves, Cancel, Index, storeVars, loopVars
  <2>2. CommittedDelivered'
    BY <2>1, DeliveredKept DEF handlerVars
  <2>3. DeliveryInv'
    BY <2>1 DEF DeliveryInv, logVars, handlerVars
  <2> QED
    BY <2>2, <2>3
<1>2. CASE CloseStore
  <2>1. Index' = {} /\ UNCHANGED <<pc, block, logVars, handlerVars>>
    BY <1>2 DEF CloseStore, Store!Close, Index, loopVars
  <2>2. CommittedDelivered'
    BY <2>1 DEF CommittedDelivered
  <2>3. DeliveryInv'
    BY <2>1 DEF DeliveryInv, logVars, handlerVars
  <2> QED
    BY <2>2, <2>3
<1>3. CASE Crash
  <2>1. pc' = "stopped" /\ anchor' = anchor /\ UNCHANGED handlerVars
    BY <1>3 DEF Crash
  <2>2. Index' \subseteq Index
    BY <1>3 DEF Crash, Index, storeVars
  <2>3. CommittedDelivered'
    BY <2>1, <2>2, DeliveredKept DEF handlerVars
  <2> QED
    BY <2>1, <2>3 DEF DeliveryInv
<1> QED
  BY <1>1, <1>2, <1>3 DEF Environment

\* Delivery through Start.
LEMMA DeliveryStart ==
    ASSUME TypeInv, CommittedDelivered, DeliveryInv, Start
    PROVE  (CommittedDelivered /\ DeliveryInv)'
<1>1. pc' # "logs"
  BY DEF Start, StartResume, StartFresh, StartAnchor, StartFails, Return
<1>2. DeliveryInv'
  BY <1>1 DEF DeliveryInv
<1>3. CASE StartResume \/ StartFresh \/ StartFails
  <2>1. Index' = Index /\ anchor' = anchor /\ UNCHANGED handlerVars
    BY <1>3 DEF StartResume, StartFresh, StartFails, Index, storeVars
  <2> QED
    BY <1>2, <2>1, DeliveredKept DEF handlerVars
<1>4. CASE StartAnchor
  <2> DEFINE start == RecordOf(GetBlockByNumber(blockNum), ChainId)
  <2>1. Store!SaveBlock(start) /\ anchor' = start.number
    BY <1>4 DEF StartAnchor
  <2>2. start \in BlockRecord /\ start.chainId = ChainId
    BY FetchedBlock, RecordOfBlock, ConfigAssumption DEF TypeInv, TypeOK, RecordOf
  <2> HIDE DEF start
  <2>3. Processed' = start.number
    BY <2>1, <2>2, SavedHere
  <2>4. \A r \in Index' : r.number <= anchor'
    BY <2>1, <2>3 DEF Index, Processed
  <2>5. TypeInv'
    BY TypeStart
  <2> QED
    BY <1>2, <2>4, <2>5, DeliveredAtAnchor
<1> QED
  BY <1>3, <1>4 DEF Start

\* Delivery through the poll loop: a block is handed over before its logs are fetched.
LEMMA DeliveryProcessNextBlock ==
    ASSUME DeliverySetting, CommittedDelivered, DeliveryInv, ProcessNextBlock
    PROVE  (CommittedDelivered /\ DeliveryInv)'
<1>1. UNCHANGED <<storeVars, anchor, logged>> /\ view \subseteq view'
  BY DEF ProcessNextBlock, LoopExits, Tick, TickSkips, FetchFails, FetchReorg, FetchAccept,
         vars, handlerVars
<1>2. Index' = Index
  BY <1>1 DEF Index, storeVars
<1>3. CommittedDelivered'
  BY <1>1, <1>2, DeliveredKept
<1>4. CASE ~FetchAccept
  <2>1. pc' # "logs"
    BY <1>4 DEF ProcessNextBlock, LoopExits, Tick, TickSkips, FetchFails, FetchReorg, Return, vars
  <2> QED
    BY <1>3, <2>1 DEF DeliveryInv
<1>5. CASE FetchAccept
  <2>1. block' \in view' /\ pending' = Batches
    BY <1>5 DEF FetchAccept, Fails, DeliverySetting
  <2> QED
    BY <1>3, <2>1 DEF DeliveryInv
<1> QED
  BY <1>4, <1>5

\* A call that returns and leaves the store and the handler alone.
LEMMA DeliveryReturn ==
    ASSUME CommittedDelivered, pc' # "logs", UNCHANGED <<storeVars, anchor, handlerVars>>
    PROVE  (CommittedDelivered /\ DeliveryInv)'
<1>1. Index' = Index
  BY DEF Index, storeVars
<1> QED
  BY <1>1, DeliveredKept DEF DeliveryInv, handlerVars

\* While the logs are fetched and handled.
LEMMA DeliveryLogs ==
    ASSUME CommittedDelivered, DeliveryInv,
           \/ \E b \in Batches : BatchReply(b) \/ BatchFails(b)
           \/ \E reply \in replies : HandleLog(reply)
    PROVE  (CommittedDelivered /\ DeliveryInv)'
<1>1. /\ UNCHANGED <<storeVars, anchor, view, block>> /\ pc = "logs" /\ pc' = "logs"
      /\ logged \subseteq logged'
  BY DEF BatchReply, BatchFails, HandleLog, handlerVars, loopVars
<1>2. Index' = Index
  BY <1>1 DEF Index, storeVars
<1>3. CommittedDelivered'
  BY <1>1, <1>2, DeliveredKept
<1>4. block' \in view'
  BY <1>1 DEF DeliveryInv
<1>5. ASSUME NEW b \in Batches
      PROVE  \/ b \in pending'
             \/ fetchErr' = TRUE
             \/ \E reply \in replies' : reply.batch = b
             \/ \E l \in logged' : l.block = block' /\ l.batch = b
  <2>1. \/ b \in pending
        \/ fetchErr = TRUE
        \/ \E reply \in replies : reply.batch = b
        \/ \E l \in logged : l.block = block /\ l.batch = b
    BY <1>1 DEF DeliveryInv
  <2>2. ASSUME NEW c \in Batches, BatchReply(c)
        PROVE  \/ b \in pending'
               \/ fetchErr' = TRUE
               \/ \E reply \in replies' : reply.batch = b
               \/ \E l \in logged' : l.block = block' /\ l.batch = b
    <3>1. /\ pending' = pending \ {c} /\ fetchErr' = fetchErr
          /\ replies' = replies \cup {[batch |-> c, from |-> LogsAt(block.number)]}
      BY <2>2 DEF BatchReply
    <3>2. CASE b = c
      <4> DEFINE rep == [batch |-> c, from |-> LogsAt(block.number)]
      <4>1. rep \in replies' /\ rep.batch = b
        BY <3>1, <3>2
      <4> QED
        BY <4>1
    <3>3. CASE b # c
      BY <1>1, <2>1, <3>1, <3>3
    <3> QED
      BY <3>2, <3>3
  <2>3. ASSUME NEW c \in Batches, BatchFails(c)
        PROVE  fetchErr' = TRUE
    BY <2>3 DEF BatchFails
  <2>4. ASSUME NEW rep \in replies, HandleLog(rep)
        PROVE  \/ b \in pending'
               \/ fetchErr' = TRUE
               \/ \E reply \in replies' : reply.batch = b
               \/ \E l \in logged' : l.block = block' /\ l.batch = b
    <3>1. /\ UNCHANGED <<pending, fetchErr>> /\ replies' = replies \ {rep}
          /\ logged' = logged \cup {[block |-> block, batch |-> rep.batch, from |-> rep.from]}
      BY <2>4 DEF HandleLog
    <3>2. CASE rep.batch = b
      BY <1>1, <3>1, <3>2
    <3>3. CASE rep.batch # b
      BY <1>1, <2>1, <3>1, <3>3
    <3> QED
      BY <3>2, <3>3
  <2> QED
    BY <2>2, <2>3, <2>4
<1>6. DeliveryInv'
  BY <1>4, <1>5 DEF DeliveryInv
<1> QED
  BY <1>3, <1>6

\* A block is saved once all of its logs have been handled.
LEMMA DeliverySaveProcessed ==
    ASSUME TypeInv, LinkInv, IndexInv, CommittedDelivered, DeliveryInv, SaveProcessed
    PROVE  (CommittedDelivered /\ DeliveryInv)'
<1> DEFINE rec == RecordOf(block, ChainId)
<1>1. /\ pc = "logs" /\ pending = {} /\ ~fetchErr /\ replies = {} /\ pc' = "pruning"
      /\ UNCHANGED <<anchor, view, logged>>
  BY DEF SaveProcessed, LogsHandled, handlerVars
<1>2. Index' = Index \cup {rec}
  BY RefineSaveProcessed
<1>3. /\ block \in view
      /\ \A b \in Batches : \E l \in logged : l.block = block /\ l.batch = b
  BY <1>1 DEF DeliveryInv
<1>4. /\ rec.number = block.number /\ rec.hash = block.hash /\ rec.parentHash = block.parentHash
      /\ block = [number |-> block.number, hash |-> block.hash, parentHash |-> block.parentHash]
  BY DEF RecordOf, TypeInv, TypeOK, Block
<1> HIDE DEF rec
<1>5. Delivered(rec)'
  <2>1. [number |-> rec.number, hash |-> rec.hash, parentHash |-> rec.parentHash] \in view
    BY <1>3, <1>4
  <2>2. \A b \in Batches :
          \E l \in logged : l.block.number = rec.number /\ l.block.hash = rec.hash /\ l.batch = b
    BY <1>3, <1>4
  <2>3. rec' = rec
    BY DEF rec, RecordOf, SaveProcessed, loopVars
  <2> QED
    BY <1>1, <2>1, <2>2, <2>3 DEF Delivered
<1>6. rec' = rec
  BY DEF rec, RecordOf, SaveProcessed, loopVars
<1>7. \A r \in Index' : r.number > anchor' => Delivered(r)'
  <2> SUFFICES ASSUME NEW r \in Index', r.number > anchor'
               PROVE  Delivered(r)'
    OBVIOUS
  <2>1. CASE r = rec
    BY <1>5, <1>6, <2>1
  <2>2. CASE r \in Index
    <3>1. Delivered(r)
      BY <1>1, <2>2 DEF CommittedDelivered, Delivered
    <3> QED
      BY <1>1, <3>1 DEF Delivered
  <2> QED
    BY <1>2, <2>1, <2>2
<1>8. CommittedDelivered'
  BY <1>7 DEF CommittedDelivered, Delivered
<1> QED
  BY <1>1, <1>8 DEF DeliveryInv

\* Delivery through processBlockLogs: a save waits for every batch.
LEMMA DeliveryProcessBlockLogs ==
    ASSUME TypeInv, LinkInv, IndexInv, CommittedDelivered, DeliveryInv, ProcessBlockLogs
    PROVE  (CommittedDelivered /\ DeliveryInv)'
<1>1. CASE \/ \E b \in Batches : BatchReply(b) \/ BatchFails(b)
           \/ \E reply \in replies : HandleLog(reply)
  BY <1>1, DeliveryLogs
<1>2. CASE LogsFetchFails \/ DecodeFails \/ HandleLogFails \/ SaveProcessedFails
  BY <1>2, DeliveryReturn DEF LogsFetchFails, DecodeFails, HandleLogFails, SaveProcessedFails, Return
<1>3. CASE SaveProcessed
  BY <1>3, DeliverySaveProcessed
<1>4. CASE Prune \/ PruneSkips
  <2>1. Index' \subseteq Index /\ anchor' = anchor /\ UNCHANGED handlerVars
    BY <1>4 DEF Prune, PruneSkips, Store!DeleteBlock, Index, storeVars
  <2>2. pc' # "logs"
    BY <1>4 DEF Prune, PruneSkips, Advance, Return
  <2> QED
    BY <2>1, <2>2, DeliveredKept DEF DeliveryInv, handlerVars
<1> QED
  BY <1>1, <1>2, <1>3, <1>4 DEF ProcessBlockLogs

\* A block is reported when no record that counts is left at its height.
LEMMA DeliveryReport ==
    ASSUME CommittedDelivered, Report, Processed \in Int, Head(orphans).number \in Int,
           \A r \in Index : r.number \in Nat,
           Index # {} => Head(orphans).number > Processed
    PROVE  CommittedDelivered'
<1> DEFINE n == Head(orphans).number
<1>1. /\ view' = {b \in view : b.number # n} /\ logged' = {l \in logged : l.block.number # n}
      /\ UNCHANGED <<storeVars, anchor>>
  BY DEF Report, HandleReorgBlock
<1>2. Index' = Index
  BY <1>1 DEF Index, storeVars
<1>3. \A r \in Index : r.number <= Processed
  BY DEF Index, Processed
<1> HIDE DEF n
<1>4. \A r \in Index : r.number # n
  BY <1>3 DEF n
<1>5. ASSUME NEW r \in Index', r.number > anchor'
      PROVE  Delivered(r)'
  <2>1. r \in Index /\ r.number # n
    BY <1>2, <1>4
  <2>2. Delivered(r)
    BY <1>1, <1>5, <2>1 DEF CommittedDelivered, Delivered
  <2>3. [number |-> r.number, hash |-> r.hash, parentHash |-> r.parentHash] \in view'
    BY <1>1, <2>1, <2>2 DEF Delivered
  <2>4. ASSUME NEW b \in Batches
        PROVE  \E l \in logged' : l.block.number = r.number /\ l.block.hash = r.hash /\ l.batch = b
    BY <1>1, <2>1, <2>2 DEF Delivered
  <2> QED
    BY <2>3, <2>4 DEF Delivered
<1> QED
  BY <1>5 DEF CommittedDelivered, Delivered

\* Delivery through a reorg whose blocks are reported after they have left the index.
LEMMA DeliveryReconcileReorg ==
    ASSUME PlainSetting, TypeInv, LinkInv, IndexInv, CommittedDelivered, DeliveryInv,
           ReconcileReorg,
           Report /\ Index # {} => Head(orphans).number > Processed
    PROVE  (CommittedDelivered /\ DeliveryInv)'
<1>1. pc' # "logs"
  BY DEF ReconcileReorg, WalkFails, WalkOrphan, WalkMatch, WalkMissing, WalkExhausted, Settle,
         SettleFails, Report, Undo, Undone, UndoFails, Return
<1>2. CASE WalkFails \/ WalkOrphan \/ WalkMatch \/ WalkExhausted \/ SettleFails \/ UndoFails
  BY <1>1, <1>2, DeliveryReturn
     DEF WalkFails, WalkOrphan, WalkMatch, WalkExhausted, SettleFails, UndoFails
<1>3. CASE WalkMissing
  <2>1. UNCHANGED <<Index, anchor, handlerVars>>
    BY <1>3, WalkMissingIndex DEF WalkMissing
  <2> QED
    BY <1>1, <2>1, DeliveredKept DEF DeliveryInv, handlerVars
<1>4. CASE Settle
  <2>1. UNCHANGED handlerVars
    BY <1>4 DEF Settle
  <2>2. TypeInv'
    BY TypeReconcileReorg
  <2>3. \/ Index' \subseteq Index /\ anchor' = anchor
        \/ \A r \in Index' : r.number <= anchor'
    BY <1>4, RefineSettle
  <2>4. CommittedDelivered'
    BY <2>1, <2>2, <2>3, DeliveredKept, DeliveredAtAnchor DEF handlerVars
  <2> QED
    BY <1>1, <2>4 DEF DeliveryInv
<1>5. CASE Undo
  <2>1. Index' \subseteq Index /\ anchor' = anchor
    BY <1>5, UndoIndex
  <2>2. UNCHANGED handlerVars
    BY <1>5 DEF Undo
  <2> QED
    BY <1>1, <2>1, <2>2, DeliveredKept DEF DeliveryInv, handlerVars
<1>6. CASE Report
  <2>1. Processed \in Int /\ \A r \in Index : r.number \in Nat
    BY ConfigAssumption
       DEF TypeInv, TypeOK, Store!TypeOK, Store!BlockRecord, Store!NoBlock, Processed, Index, Uint64
  <2>2. Head(orphans) \in BlockRecord
    BY <1>6 DEF Report, TypeInv, TypeOK
  <2>3. Head(orphans).number \in Int
    BY <2>2, ConfigAssumption DEF BlockRecord, Uint64
  <2>4. CommittedDelivered'
    BY <1>6, <2>1, <2>3, DeliveryReport
  <2> QED
    BY <1>1, <2>4 DEF DeliveryInv
<1> QED
  BY <1>2, <1>3, <1>4, <1>5, <1>6 DEF ReconcileReorg

\* Delivery through every step.
LEMMA DeliveryStep ==
    ASSUME PlainSetting, DeliverySetting, TypeInv, LinkInv, IndexInv, CommittedDelivered,
           DeliveryInv, [Next]_vars,
           Report /\ Index # {} => Head(orphans).number > Processed
    PROVE  (CommittedDelivered /\ DeliveryInv)'
<1>1. CASE Next
  BY <1>1, DeliveryEnvironment, DeliveryStart, DeliveryProcessNextBlock, DeliveryProcessBlockLogs,
     DeliveryReconcileReorg DEF Next
<1>2. CASE UNCHANGED vars
  <2>1. Index' = Index /\ anchor' = anchor /\ UNCHANGED <<pc, block, logVars, handlerVars>>
    BY <1>2 DEF vars, Index, storeVars, loopVars
  <2>2. CommittedDelivered'
    BY <2>1, DeliveredKept DEF handlerVars
  <2>3. DeliveryInv'
    BY <2>1 DEF DeliveryInv, logVars, handlerVars
  <2> QED
    BY <2>2, <2>3
<1> QED
  BY <1>1, <1>2

=============================================================================
