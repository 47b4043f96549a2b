--------------------------- MODULE FinalityProofs ---------------------------
(***************************************************************************)
(* Theorems about EVMChainPoller on a chain whose blocks become final: no  *)
(* reorg reaches MaxReorgDepth blocks below the last processed one.  For   *)
(* every tree of blocks, every way the endpoint moves in it and every      *)
(* configuration that keeps as many records as the search may need.  And   *)
(* about two loops of the poller, in any order of their steps, on a chain  *)
(* whose blocks are all final.                                             *)
(***************************************************************************)
EXTENDS IndexedChainProofs, OverlappingLoops

CONSTANTS
    Final,  \* chain -> the height up to which it is final
    Left    \* chain -> the blocks that were left before the endpoint shows it

-----------------------------------------------------------------------------
(* The invariant *)

\* What is final on c is so on d.
Precedes(c, d) == Final[c] <= Final[d] /\ \A n \in 1 .. Final[c] + 1 : c[n] = d[n]

\* The records up to the last processed one are blocks of a chain c that the
\* endpoint has shown, the block in hand is its next one, no record is missing from
\* c's final block up, and no search has gone below that block.
RecordsOn(c) ==
    /\ Precedes(c, canon)
    /\ Processed # Store!NoBlock =>
          /\ Processed < Len(c)
          /\ \A r \in Index : r.hash = c[r.number + 1]
          /\ \A n \in Final[c] .. Processed : Store!GetBlock(ChainId, n) # {}
    /\ pc = "logs" => block.number < Len(c) /\ block.hash = c[block.number + 1]
    /\ pc = "walking" /\ ~closed /\ block.hash # NoHash => Final[c] <= parentNum

\* The chain of records begins at the start block; there is a last record.
BottomInv ==
    /\ LastExists
    /\ closed => Processed = Store!NoBlock
    /\ Processed # Store!NoBlock => anchor = GenesisBlockNumber
    /\ \A r \in blocks : r.chainId = ChainId => GenesisBlockNumber <= r.number
    /\ pc = "starting" /\ ~closed => Processed = Store!NoBlock

Undoing == {"undoing", "deleting"}

\* A search begins at the last processed block, or, after a null answer, at the top
\* of uint64, where it finds nothing; the orphans are the records above its end.
SearchInv ==
    /\ pc = "walking" /\ ~closed =>
          /\ Processed # Store!NoBlock
          /\ IF block.hash = NoHash
               THEN block.number = 0 /\ parentNum = MaxUint64 /\ orphans = <<>>
               ELSE block.number = Processed + 1 /\ parentNum = Processed - Len(orphans)
    /\ pc = "settling" /\ ~closed =>
          \A r \in parentRec :
             \/ r.chainId # ChainId /\ orphans = <<>>
             \/ r.chainId = ChainId /\ r.number = Processed - Len(orphans)
    /\ pc \in Undoing /\ ~closed => orphans[1].number = Processed + Len(orphans)

TipInv == BottomInv /\ SearchInv

BaseInv == TypeInv /\ LinkInv /\ IndexInv

-----------------------------------------------------------------------------
(* Chains and what is final of them *)

\* The numbers of a chain.
LEMMA ChainFacts ==
    ASSUME FinalSetting(Final), NEW c \in Chains
    PROVE  /\ c \in Seq(Hash) /\ Len(c) \in Nat /\ Len(c) <= MaxUint64 /\ MaxUint64 \in Nat
           /\ GenesisBlockNumber \in Nat /\ GenesisBlockNumber > 0
           /\ Final[c] \in Nat /\ GenesisBlockNumber <= Final[c] /\ Final[c] < Len(c)
           /\ MaxReorgDepth \in Nat /\ Len(c) - 1 < Final[c] + MaxReorgDepth
<1>1. c \in Seq(Hash) /\ Len(c) \in 1 .. MaxUint64
  BY ChainAssumption
<1>2. MaxUint64 \in Nat /\ GenesisBlockNumber \in Nat /\ MaxReorgDepth \in Nat
  BY ConfigAssumption
<1>3. GenesisBlockNumber > 0 /\ Final[c] \in GenesisBlockNumber .. Len(c) - 1
      /\ Len(c) - 1 < Final[c] + MaxReorgDepth
  BY DEF FinalSetting, Finality
<1> QED
  BY <1>1, <1>2, <1>3

\* A chain precedes itself.
LEMMA PrecedesItself ==
    ASSUME FinalSetting(Final), NEW c \in Chains
    PROVE  Precedes(c, c)
BY ChainFacts DEF Precedes

\* What precedes the chain shown precedes the one shown next.
LEMMA PrecedesMoved ==
    ASSUME FinalSetting(Final), NEW c \in Chains, canon \in Chains, Precedes(c, canon), ChainMoves
    PROVE  canon' \in Chains /\ Precedes(c, canon')
<1>1. PICK d \in Chains : <<canon, d>> \in Moves /\ canon' = d
  BY DEF ChainMoves
<1>2. /\ Final[canon] <= Final[d]
      /\ \A n \in 1 .. Final[canon] + 1 : canon[n] = d[n]
  <2> DEFINE m == <<canon, d>>
  <2>1. m \in Moves /\ m[1] = canon /\ m[2] = d
    BY <1>1
  <2> HIDE DEF m
  <2> QED
    BY <2>1 DEF FinalSetting, Finality
<1>3. Final[c] \in Nat /\ Final[canon] \in Nat /\ Final[d] \in Nat
  BY <1>1, ChainFacts
<1> QED
  BY <1>1, <1>2, <1>3 DEF Precedes

\* A block has one height.
LEMMA SameHeight ==
    ASSUME NEW c \in Chains, NEW d \in Chains, NEW m \in 1 .. Len(c), NEW n \in 1 .. Len(d),
           c[m] = d[n]
    PROVE  m = n
BY ChainAssumption

\* Two chains that share a block share its ancestors.
LEMMA SameAncestors ==
    ASSUME NEW c \in Chains, NEW d \in Chains, NEW n \in Nat,
           1 <= n, n <= Len(c), n <= Len(d), c[n] = d[n]
    PROVE  \A m \in 1 .. n : c[m] = d[m]
<1> DEFINE P == {k \in 0 .. n - 1 : c[n - k] = d[n - k]}
<1>1. Len(c) \in Nat /\ Len(d) \in Nat
  BY ChainAssumption
<1>2. n - 1 \in Nat /\ 0 \in P
  OBVIOUS
<1>3. ASSUME NEW i \in 0 .. (n - 1) - 1, i \in P
      PROVE  i + 1 \in P
  <2>1. n - i \in 1 .. Len(c) /\ n - i \in 1 .. Len(d) /\ n - i > 1 /\ (n - i) - 1 = n - (i + 1)
    BY <1>1, <1>3
  <2>2. c[n - i] = d[n - i]
    BY <1>3
  <2>3. c[(n - i) - 1] = d[(n - i) - 1]
    BY <2>1, <2>2, ChainAssumption
  <2> QED
    BY <1>3, <2>1, <2>3
<1> HIDE DEF P
<1>4. 0 .. n - 1 \subseteq P
  BY <1>2, <1>3, IntervalInduction
<1>5. ASSUME NEW m \in 1 .. n
      PROVE  c[m] = d[m]
  <2>1. n - m \in 0 .. n - 1 /\ n - (n - m) = m
    OBVIOUS
  <2>2. n - m \in P
    BY <1>4, <2>1
  <2>3. c[n - (n - m)] = d[n - (n - m)]
    BY <2>2 DEF P
  <2> QED
    BY <2>1, <2>3
<1> QED
  BY <1>5

-----------------------------------------------------------------------------
(* What the invariant says of single records and blocks *)

\* A record up to the last processed one is on the witness chain.
LEMMA StoredOn ==
    ASSUME BaseInv, TipInv, NEW c, RecordsOn(c), NEW r \in blocks,
           r.chainId = ChainId, r.number <= Processed
    PROVE  /\ r \in Index /\ r.number \in Nat /\ Processed \in Nat
           /\ Processed < Len(c) /\ r.hash = c[r.number + 1]
<1>1. r.number \in Nat /\ Processed \in Int
  BY IndexTypes DEF BaseInv
<1>2. Processed \in Nat /\ Processed # Store!NoBlock
  BY <1>1 DEF Store!NoBlock
<1>3. anchor <= r.number
  BY <1>2 DEF TipInv, BottomInv
<1>4. r \in Index
  BY <1>3 DEF Index, Processed
<1> QED
  BY <1>1, <1>2, <1>4 DEF RecordsOn

\* The parent in hand is the last processed record, and on the witness chain.
LEMMA LastOn ==
    ASSUME BaseInv, TipInv, NEW c, RecordsOn(c), pc \in {"fetching", "logs"}, ~closed
    PROVE  /\ last \in Index /\ last.number = Processed /\ blockNum = Processed + 1
           /\ Processed \in Nat /\ Processed < Len(c) /\ last.hash = c[Processed + 1]
<1>1. last \in blocks /\ last.chainId = ChainId /\ last.number = Processed /\ blockNum = Processed + 1
  BY DEF BaseInv, LinkInv, ParentInv
<1>2. last.number \in Nat
  BY <1>1, IndexTypes DEF BaseInv
<1> QED
  BY <1>1, <1>2, StoredOn

\* The endpoint still shows what is final on the witness chain.
LEMMA FinalShown ==
    ASSUME FinalSetting(Final), canon \in Chains, NEW c \in Chains, Precedes(c, canon),
           NEW n \in Nat, n <= Final[c]
    PROVE  n < Len(canon) /\ canon[n + 1] = c[n + 1]
<1>1. Final[c] \in Nat /\ Final[canon] \in Nat /\ Final[canon] < Len(canon) /\ Len(canon) \in Nat
  BY ChainFacts
<1>2. n + 1 \in 1 .. Final[c] + 1
  BY <1>1
<1> QED
  BY <1>1, <1>2 DEF Precedes

-----------------------------------------------------------------------------
(* The invariant through every step *)

\* Nothing has been recorded yet.
LEMMA TipInit ==
    ASSUME FinalSetting(Final), Init
    PROVE  TipInv /\ RecordsOn(canon)
<1>1. Processed = Store!NoBlock /\ blocks = {} /\ pc = "stopped" /\ canon \in Chains
  BY ConfigAssumption DEF Init, Store!New, Processed
<1>2. Precedes(canon, canon)
  BY <1>1, PrecedesItself
<1>3. LastExists
  BY <1>1 DEF LastExists, Processed
<1> QED
  BY <1>1, <1>2, <1>3 DEF Undoing, TipInv, BottomInv, SearchInv, RecordsOn

\* A step that leaves the store and the chain alone and returns from a call, or
\* goes on to another point where no search is under way.
LEMMA TipQuiet ==
    ASSUME TipInv, NEW c, RecordsOn(c), UNCHANGED <<canon, storeVars, anchor>>,
           pc' \in {"stopped", "waiting", "fetching", "pruning"}
    PROVE  TipInv' /\ RecordsOn(c)'
<1>1. BottomInv'
  BY DEF TipInv, BottomInv, LastExists, LastRecord, Store!GetLastProcessedBlock, Store!GetBlock,
         Processed, storeVars
<1>2. SearchInv'
  BY DEF Undoing, SearchInv
<1>3. Index' = Index
  BY DEF Index, storeVars
<1>4. RecordsOn(c)'
  BY <1>3 DEF RecordsOn, Precedes, Processed, Store!GetBlock, storeVars
<1> QED
  BY <1>1, <1>2, <1>4 DEF TipInv

\* A step that touches neither the store nor the locals the invariant is about.
LEMMA TipUntouched ==
    ASSUME TipInv, NEW c, RecordsOn(c), Precedes(c, canon'),
           UNCHANGED <<storeVars, anchor, pc, block, walkVars>>
    PROVE  TipInv' /\ RecordsOn(c)'
<1>1. BottomInv'
  BY DEF TipInv, BottomInv, LastExists, LastRecord, Store!GetLastProcessedBlock, Store!GetBlock,
         Processed, storeVars
<1>2. SearchInv'
  BY DEF TipInv, SearchInv, Processed, storeVars, walkVars
<1>3. Index' = Index
  BY DEF Index, storeVars
<1>4. RecordsOn(c)'
  BY <1>3 DEF RecordsOn, Processed, Store!GetBlock, storeVars, walkVars
<1> QED
  BY <1>1, <1>2, <1>4 DEF TipInv

\* The store is lost, with Close or with the process.
LEMMA TipLost ==
    ASSUME TipInv, NEW c, RecordsOn(c), canon' = canon, blocks' = {}, Processed' = Store!NoBlock,
           \/ closed' /\ UNCHANGED <<pc, block>>
           \/ pc' = "stopped"
    PROVE  TipInv' /\ RecordsOn(c)'
<1>1. BottomInv'
  BY DEF BottomInv, LastExists, Processed
<1>2. SearchInv'
  BY DEF Undoing, SearchInv
<1>3. RecordsOn(c)'
  BY DEF RecordsOn, Precedes
<1> QED
  BY <1>1, <1>2, <1>3 DEF TipInv

\* The witness chain is unchanged while the world moves.
LEMMA TipEnvironment ==
    ASSUME FinalSetting(Final), BaseInv, TipInv, NEW c \in Chains, RecordsOn(c), Environment
    PROVE  TipInv' /\ RecordsOn(c)'
<1>1. CASE ChainMoves
  <2>1. Precedes(c, canon')
    BY <1>1, PrecedesMoved DEF BaseInv, TypeInv, TypeOK, RecordsOn
  <2> QED
    BY <1>1, <2>1, TipUntouched DEF ChainMoves, loopVars
<1>2. CASE CloseStore
  <2>1. closed' /\ blocks' = {} /\ Processed' = Store!NoBlock /\ UNCHANGED <<canon, pc, block>>
    BY <1>2, ConfigAssumption DEF CloseStore, Store!Close, Processed, loopVars
  <2> QED
    BY <2>1, TipLost
<1>3. CASE Cancel
  <2>1. Precedes(c, canon')
    BY <1>3 DEF Cancel, RecordsOn
  <2> QED
    BY <1>3, <2>1, TipUntouched DEF Cancel, loopVars
<1>4. CASE Crash
  <2>1. pc' = "stopped" /\ UNCHANGED <<canon, anchor>>
    BY <1>4 DEF Crash
  <2>2. CASE UNCHANGED storeVars
    BY <2>1, <2>2, TipQuiet
  <2>3. CASE ~UNCHANGED storeVars
    <3>1. blocks' = {} /\ Processed' = Store!NoBlock
      BY <1>4, <2>3, ConfigAssumption DEF Crash, Processed
    <3> QED
      BY <2>1, <3>1, TipLost
  <2> QED
    BY <2>2, <2>3
<1> QED
  BY <1>1, <1>2, <1>3, <1>4 DEF Environment

\* Start finds no last record only in a store that has none.
LEMMA TipStartFresh ==
    ASSUME FinalSetting(Final), BaseInv, TipInv, NEW c, RecordsOn(c), StartFresh
    PROVE  TipInv' /\ RecordsOn(c)'
<1>1. pc' = "starting" /\ UNCHANGED <<canon, storeVars, anchor>> /\ (LastRecord = {} \/ closed)
  BY DEF StartFresh, StoreFails, Fails, FinalSetting, PlainSetting
<1>2. Processed = Store!NoBlock
  BY <1>1 DEF TipInv, BottomInv, LastExists, Processed
<1>3. BottomInv'
  BY <1>1, <1>2 DEF TipInv, BottomInv, LastExists, Processed, storeVars
<1>4. SearchInv'
  BY <1>1 DEF Undoing, SearchInv
<1>5. RecordsOn(c)'
  BY <1>1, <1>2 DEF RecordsOn, Precedes, Processed, storeVars
<1> QED
  BY <1>3, <1>4, <1>5 DEF TipInv

\* The start block is saved: the witness is the chain the endpoint shows.
LEMMA TipStartAnchor ==
    ASSUME FinalSetting(Final), BaseInv, TipInv, NEW d \in Chains, d = canon, StartAnchor
    PROVE  TipInv' /\ RecordsOn(d)'
<1> DEFINE start == RecordOf(GetBlockByNumber(blockNum), ChainId)
<1>1. /\ pc = "starting" /\ Store!SaveBlock(start) /\ anchor' = start.number /\ pc' = "waiting"
      /\ canon' = canon
  BY DEF StartAnchor, Return
<1>2. GenesisBlockNumber \in Nat /\ Final[d] \in Nat /\ GenesisBlockNumber <= Final[d]
  BY ChainFacts
<1>3. blockNum = GenesisBlockNumber /\ blockNum < Len(canon)
  BY <1>1, ChainFacts DEF BaseInv, LinkInv, StoreInv
<1>4. /\ start \in BlockRecord /\ start.chainId = ChainId /\ start.number = blockNum
      /\ start.hash = d[blockNum + 1]
  BY <1>3, FetchedBlock, RecordOfBlock, ConfigAssumption
     DEF BaseInv, TypeInv, TypeOK, RecordOf, GetBlockByNumber
<1> HIDE DEF start
<1>5. /\ ~closed /\ ~closed' /\ Processed' = start.number /\ start \in blocks'
      /\ \A r \in blocks' : r = start \/ r \in blocks
      /\ \A r \in blocks' : r.chainId = ChainId /\ r.number = start.number => r = start
  BY <1>1, <1>4, SavedHere DEF BaseInv
<1>6. \A r \in blocks' : r.chainId = ChainId => r.number \in Nat /\ GenesisBlockNumber <= r.number
  BY <1>2, <1>3, <1>4, <1>5, IndexTypes DEF TipInv, BottomInv, BaseInv
<1>7. \A r \in Index' : r = start
  BY <1>1, <1>2, <1>3, <1>4, <1>5, <1>6 DEF Index, Processed
<1>8. Processed' = GenesisBlockNumber /\ Store!GetBlock(ChainId, GenesisBlockNumber)' # {}
  BY <1>3, <1>4, <1>5 DEF Store!GetBlock, Store!HasKey
<1>9. BottomInv'
  <2>1. LastExists'
    BY <1>8 DEF LastExists, LastRecord, Store!GetLastProcessedBlock, Store!GetBlock, Processed
  <2> QED
    BY <1>1, <1>3, <1>4, <1>5, <1>6, <2>1 DEF BottomInv
<1>10. SearchInv'
  BY <1>1 DEF Undoing, SearchInv
<1>11. Precedes(d, canon')
  BY <1>1, PrecedesItself
<1>12. Processed' < Len(d)
  BY <1>3, <1>4, <1>5
<1>13. \A r \in Index' : r.hash = d[r.number + 1]
  BY <1>4, <1>7
<1>14. \A n \in Final[d] .. Processed' : Store!GetBlock(ChainId, n)' # {}
  <2> SUFFICES ASSUME NEW n \in Final[d] .. Processed'
               PROVE  Store!GetBlock(ChainId, n)' # {}
    OBVIOUS
  <2>1. n = GenesisBlockNumber
    BY <1>2, <1>8
  <2> QED
    BY <1>8, <2>1
<1>15. RecordsOn(d)'
  BY <1>1, <1>11, <1>12, <1>13, <1>14 DEF RecordsOn
<1> QED
  BY <1>9, <1>10, <1>15 DEF TipInv

\* The fetched block does not extend the last one: if it is not null, the last
\* processed block is above the final ones.
LEMMA TipFetchReorg ==
    ASSUME FinalSetting(Final), BaseInv, TipInv, NEW c \in Chains, RecordsOn(c), FetchReorg
    PROVE  TipInv' /\ RecordsOn(c)'
<1> DEFINE new == GetBlockByNumber(blockNum)
<1>1. /\ pc = "fetching" /\ pc' = "walking" /\ new.parentHash # last.hash /\ block' = new
      /\ parentNum' = Sub(new.number, 1)
      /\ UNCHANGED <<canon, storeVars, anchor, orphans>>
  BY DEF FetchReorg
<1>2. canon \in Chains /\ blockNum \in Uint64 /\ MaxUint64 \in Nat
  BY ConfigAssumption DEF BaseInv, TypeInv, TypeOK
<1>3. orphans' = <<>> /\ Len(orphans') = 0
  BY <1>1 DEF BaseInv, IndexInv, OrphanInv, Searching
<1>4. ~closed => /\ Processed \in Nat /\ last.hash = c[Processed + 1] /\ blockNum = Processed + 1
                 /\ Processed # Store!NoBlock
  BY <1>1, LastOn DEF Store!NoBlock
<1>5. CASE ~(blockNum < Len(canon))
  <2>1. block' = NullBlock /\ block'.hash = NoHash /\ block'.number = 0
    BY <1>1, <1>5 DEF GetBlockByNumber, NullBlock
  <2>2. parentNum' = MaxUint64
    BY <1>1, <1>2, <2>1 DEF Sub
  <2>3. SearchInv'
    BY <1>1, <1>3, <1>4, <2>1, <2>2 DEF Undoing, SearchInv, Processed, storeVars
  <2>4. BottomInv'
    BY <1>1 DEF TipInv, BottomInv, LastExists, LastRecord, Store!GetLastProcessedBlock,
                Store!GetBlock, Processed, storeVars
  <2>5. RecordsOn(c)'
    BY <1>1, <2>1 DEF RecordsOn, Precedes, Index, Processed, Store!GetBlock, storeVars
  <2> QED
    BY <2>3, <2>4, <2>5 DEF TipInv
<1>6. CASE blockNum < Len(canon)
  <2>1. block'.number = blockNum /\ block'.hash # NoHash
    BY <1>1, <1>2, <1>6, FetchedReal
  <2>2. ~closed => parentNum' = Processed
    BY <1>1, <1>4, <2>1 DEF Sub
  <2>3. ~closed => Final[c] <= Processed
    <3> SUFFICES ASSUME ~closed, ~(Final[c] <= Processed)
                 PROVE  FALSE
      OBVIOUS
    <3>1. Final[c] \in Nat /\ Processed <= Final[c]
      BY <1>4, ChainFacts
    <3>2. canon[Processed + 1] = c[Processed + 1]
      BY <1>2, <1>4, <3>1, FinalShown DEF RecordsOn
    <3>3. new.parentHash = canon[blockNum]
      BY <1>4, <1>6 DEF GetBlockByNumber
    <3> QED
      BY <1>1, <1>4, <3>2, <3>3
  <2>4. SearchInv'
    BY <1>1, <1>3, <1>4, <2>1, <2>2 DEF Undoing, SearchInv, Processed, storeVars
  <2>5. BottomInv'
    BY <1>1 DEF TipInv, BottomInv, LastExists, LastRecord, Store!GetLastProcessedBlock,
                Store!GetBlock, Processed, storeVars
  <2>6. RecordsOn(c)'
    <3>1. Index' = Index /\ Processed' = Processed /\ closed' = closed
      BY <1>1 DEF Index, Processed, storeVars
    <3>2. pc' = "walking" /\ ~closed' => Final[c] <= parentNum'
      BY <2>2, <2>3, <3>1
    <3> QED
      BY <1>1, <3>1, <3>2 DEF RecordsOn, Precedes, Store!GetBlock, storeVars
  <2> QED
    BY <2>4, <2>5, <2>6 DEF TipInv
<1> QED
  BY <1>5, <1>6

\* The fetched block extends the last one: the chain shown has all of the last
\* one's ancestors, and is the witness from now on.
LEMMA TipFetchAccept ==
    ASSUME FinalSetting(Final), BaseInv, TipInv, NEW c \in Chains, RecordsOn(c),
           NEW d \in Chains, d = canon, FetchAccept
    PROVE  /\ TipInv' /\ RecordsOn(d)'
           /\ blockNum < Len(d) /\ blockNum \in Nat /\ blockNum > 0 /\ last.hash = d[blockNum]
<1> DEFINE new == GetBlockByNumber(blockNum)
<1>1. /\ pc = "fetching" /\ pc' = "logs" /\ new.parentHash = last.hash /\ block' = new
      /\ UNCHANGED <<canon, storeVars, anchor>>
  BY DEF FetchAccept
<1>2. blockNum \in Uint64 /\ last.hash # NoHash /\ blockNum = last.number + 1 /\ last.number \in Nat
  BY <1>1 DEF BaseInv, TypeInv, TypeOK, LinkInv, ParentInv, BlockRecord, Uint64
<1>3. blockNum < Len(d)
  BY <1>1, <1>2 DEF GetBlockByNumber, NullBlock
<1>4. new.number = blockNum /\ new.hash = d[blockNum + 1] /\ new.parentHash = d[blockNum]
  BY <1>2, <1>3 DEF GetBlockByNumber
<1>5. Final[c] \in Nat /\ Final[d] \in Nat /\ Len(c) \in Nat /\ Len(d) \in Nat /\ Final[c] <= Final[d]
  BY ChainFacts DEF RecordsOn, Precedes
<1>6. ASSUME Processed # Store!NoBlock
      PROVE  /\ Processed < Len(d)
             /\ \A r \in Index : r.hash = d[r.number + 1]
             /\ \A n \in Final[d] .. Processed : Store!GetBlock(ChainId, n) # {}
  <2>1. ~closed
    BY <1>6 DEF TipInv, BottomInv
  <2>2. /\ blockNum = Processed + 1 /\ Processed \in Nat /\ Processed < Len(c)
        /\ last.hash = c[Processed + 1]
    BY <1>1, <2>1, LastOn
  <2>3. Processed < Len(d) /\ c[Processed + 1] = d[Processed + 1]
    <3>1. last.hash = d[blockNum]
      BY <1>1, <1>4
    <3>2. Processed < Len(d)
      BY <1>3, <1>5, <2>2
    <3> QED
      BY <2>2, <3>1, <3>2
  <2>4. \A m \in 1 .. Processed + 1 : c[m] = d[m]
    BY <1>5, <2>2, <2>3, SameAncestors
  <2>5. ASSUME NEW r \in Index
        PROVE  r.hash = d[r.number + 1]
    <3>1. r.number \in Nat /\ r.number <= Processed /\ r.hash = c[r.number + 1]
      BY <1>6, IndexTypes DEF RecordsOn, BaseInv
    <3>2. r.number + 1 \in 1 .. Processed + 1
      BY <2>2, <3>1
    <3> QED
      BY <2>4, <3>1, <3>2
  <2>6. ASSUME NEW n \in Final[d] .. Processed
        PROVE  Store!GetBlock(ChainId, n) # {}
    <3>1. n \in Final[c] .. Processed
      BY <1>5, <2>2
    <3> QED
      BY <1>6, <3>1 DEF RecordsOn
  <2> QED
    BY <2>3, <2>5, <2>6
<1>7. Index' = Index /\ Processed' = Processed
  BY <1>1 DEF Index, Processed, storeVars
<1>8. Precedes(d, canon')
  BY <1>1, PrecedesItself
<1> HIDE DEF new
<1>9. RecordsOn(d)'
  BY <1>1, <1>3, <1>4, <1>6, <1>7, <1>8 DEF RecordsOn, Store!GetBlock, storeVars
<1>10. BottomInv'
  BY <1>1 DEF TipInv, BottomInv, LastExists, LastRecord, Store!GetLastProcessedBlock,
              Store!GetBlock, Processed, storeVars
<1>11. SearchInv'
  BY <1>1 DEF Undoing, SearchInv
<1> QED
  BY <1>1, <1>2, <1>3, <1>4, <1>9, <1>10, <1>11 DEF TipInv

\* A processed block is saved: it is the witness chain's next one.
LEMMA TipSaveProcessed ==
    ASSUME FinalSetting(Final), BaseInv, TipInv, NEW c \in Chains, RecordsOn(c), SaveProcessed
    PROVE  TipInv' /\ RecordsOn(c)' /\ Processed' = Processed + 1
<1> DEFINE rec == RecordOf(block, ChainId)
<1>1. /\ Store!SaveBlock(rec) /\ pc = "logs" /\ pc' = "pruning" /\ ~closed
      /\ UNCHANGED <<canon, anchor>>
  BY DEF SaveProcessed, LogsHandled, Store!SaveBlock
<1>2. /\ rec \in BlockRecord /\ rec.chainId = ChainId /\ rec.number = block.number
      /\ rec.hash = block.hash
  BY RecordOfBlock, ConfigAssumption DEF BaseInv, TypeInv, TypeOK, RecordOf
<1>3. Processed \in Nat /\ Processed # Store!NoBlock /\ rec.number = Processed + 1
  BY <1>1, <1>2, LastOn DEF BaseInv, LinkInv, BlockInv, Store!NoBlock
<1>4. Index' = Index \cup {rec}
  BY RefineSaveProcessed DEF BaseInv
<1> HIDE DEF rec
<1>5. /\ ~closed' /\ Processed' = rec.number
      /\ blocks' = (blocks \ Store!GetBlock(ChainId, rec.number)) \cup {rec}
  BY <1>1, <1>2, SavedHere DEF Store!SaveBlock, BaseInv
<1>6. \A n \in Nat : Store!GetBlock(ChainId, n) # {} \/ n = rec.number =>
                       Store!GetBlock(ChainId, n)' # {}
  BY <1>2, <1>5 DEF Store!GetBlock, Store!HasKey
<1>7. BottomInv'
  <2>1. rec \in blocks' /\ rec.number = lastProcessedBlocks'[ChainId]
    BY <1>5 DEF Processed
  <2>2. LastExists'
    BY <1>2, <2>1 DEF LastExists, LastRecord, Store!GetLastProcessedBlock, Store!GetBlock, Store!HasKey
  <2>3. anchor = GenesisBlockNumber /\ anchor <= Processed /\ anchor \in Nat
    BY <1>3, IndexTypes DEF BaseInv, TipInv, BottomInv, IndexInv, AnchorInv
  <2>4. \A r \in blocks' : r.chainId = ChainId => GenesisBlockNumber <= r.number
    BY <1>3, <1>5, <2>3 DEF TipInv, BottomInv
  <2> QED
    BY <1>1, <1>5, <2>2, <2>3, <2>4 DEF BottomInv
<1>8. SearchInv'
  BY <1>1 DEF Undoing, SearchInv
<1>9. RecordsOn(c)'
  <2>1. Processed' < Len(c) /\ rec.hash = c[rec.number + 1]
    BY <1>1, <1>2, <1>5 DEF RecordsOn
  <2>2. \A r \in Index' : r.hash = c[r.number + 1]
    BY <1>3, <1>4, <2>1 DEF RecordsOn
  <2>3. ASSUME NEW n \in Final[c] .. Processed'
        PROVE  Store!GetBlock(ChainId, n)' # {}
    <3>1. Final[c] \in Nat
      BY ChainFacts
    <3>2. n \in Nat /\ (n = rec.number \/ n \in Final[c] .. Processed)
      BY <1>3, <1>5, <3>1
    <3> QED
      BY <1>3, <1>6, <3>2 DEF RecordsOn
  <2> QED
    BY <1>1, <2>1, <2>2, <2>3 DEF RecordsOn, Precedes
<1> QED
  BY <1>3, <1>5, <1>7, <1>8, <1>9 DEF TipInv

\* Pruning takes a record below the final ones.
LEMMA TipPrune ==
    ASSUME FinalSetting(Final), BaseInv, TipInv, NEW c \in Chains, RecordsOn(c), Prune
    PROVE  TipInv' /\ RecordsOn(c)'
<1> DEFINE low == block.number - BlockHistorySize
<1>1. /\ pc = "pruning" /\ ~closed /\ BlockHistorySize > 0 /\ pc' \in {"fetching", "waiting"}
      /\ blocks' = blocks \ Store!GetBlock(ChainId, low)
      /\ UNCHANGED <<canon, closed, lastProcessedBlocks, anchor>>
  BY DEF Prune, PruneDue, Store!DeleteBlock, Advance, Return
<1>2. /\ RecordOf(block, ChainId) \in blocks /\ block.number = Processed /\ block.number \in Nat
      /\ BlockHistorySize \in Nat
  BY <1>1, ConfigAssumption DEF BaseInv, LinkInv, BlockInv, TypeInv, TypeOK, Block, Uint64
<1>3. Processed # Store!NoBlock /\ Processed < Len(c) /\ low < Processed
  BY <1>1, <1>2 DEF RecordsOn, Store!NoBlock
<1>4. low < Final[c] /\ Final[c] \in Nat
  <2>1. BlockHistorySize >= MaxReorgDepth
    BY <1>1, <1>2 DEF FinalSetting
  <2> QED
    BY <1>2, <1>3, <2>1, ChainFacts
<1>5. \A n \in Nat : n # low => Store!GetBlock(ChainId, n)' = Store!GetBlock(ChainId, n)
  BY <1>1 DEF Store!GetBlock, Store!HasKey
<1>6. BottomInv'
  <2>1. Store!GetBlock(ChainId, Processed) # {}
    BY <1>3 DEF TipInv, BottomInv, LastExists, LastRecord, Store!GetLastProcessedBlock, Processed
  <2>2. Store!GetBlock(ChainId, Processed)' # {}
    <3>1. Processed' = Processed /\ Processed \in Nat /\ Processed # low
      BY <1>1, <1>2, <1>3 DEF Processed
    <3> QED
      BY <1>5, <2>1, <3>1
  <2>3. LastExists'
    BY <2>2 DEF LastExists, LastRecord, Store!GetLastProcessedBlock, Processed
  <2> QED
    BY <1>1, <2>3 DEF TipInv, BottomInv, Processed
<1>7. SearchInv'
  BY <1>1 DEF Undoing, SearchInv
<1>8. RecordsOn(c)'
  <2>1. Index' \subseteq Index /\ Processed' = Processed
    BY <1>1 DEF Index, Processed
  <2>2. ASSUME NEW n \in Final[c] .. Processed'
        PROVE  Store!GetBlock(ChainId, n)' # {}
    <3>1. n \in Nat /\ n # low /\ n \in Final[c] .. Processed
      BY <1>2, <1>4, <2>1
    <3> QED
      BY <1>3, <1>5, <3>1 DEF RecordsOn
  <2> QED
    BY <1>1, <1>3, <2>1, <2>2 DEF RecordsOn, Precedes
<1> QED
  BY <1>6, <1>7, <1>8 DEF TipInv

\* The search looks at a height between the final blocks and the last processed
\* one, where there is a record, or, after a null answer, at the top of uint64,
\* where there is none.
LEMMA SearchPlace ==
    ASSUME FinalSetting(Final), BaseInv, TipInv, NEW c \in Chains, RecordsOn(c),
           pc = "walking", ~closed
    PROVE  /\ Processed \in Nat /\ InSearch
           /\ block.hash = NoHash => Stored = {} /\ orphans = <<>> /\ parentNum = MaxUint64
           /\ block.hash # NoHash =>
                 /\ Stored # {} /\ parentNum \in Nat /\ parentNum = Processed - Len(orphans)
                 /\ Final[c] <= parentNum /\ parentNum <= Processed
<1>0. Processed # Store!NoBlock /\ Processed < Len(c)
  BY DEF TipInv, SearchInv, RecordsOn
<1>1. Processed \in Nat /\ Processed # Store!NoBlock /\ Processed < Len(c)
  <2>1. LastRecord # {}
    BY <1>0 DEF TipInv, BottomInv, LastExists, Processed
  <2>2. PICK r \in blocks : r.number = Processed
    BY <2>1 DEF LastRecord, Store!GetLastProcessedBlock, Store!GetBlock, Store!HasKey, Processed
  <2> QED
    BY <1>0, <2>2, IndexTypes DEF BaseInv
<1>2. MaxReorgDepth \in Nat /\ MaxReorgDepth > 0 /\ MaxUint64 \in Nat /\ parentNum \in Nat
  BY RewindTypes DEF BaseInv
<1>3. CASE block.hash = NoHash
  <2>1. block.number = 0 /\ parentNum = MaxUint64 /\ orphans = <<>>
    BY <1>3 DEF TipInv, SearchInv
  <2>2. Stored = {}
    BY <1>2, <2>1 DEF Stored, Store!GetBlock, Store!HasKey, BaseInv, LinkInv, StoreInv
  <2>3. MaxUint64 > 0
    BY ChainFacts
  <2>4. InSearch
    BY <1>2, <2>1, <2>3 DEF InSearch, Sub
  <2> QED
    BY <1>1, <1>3, <2>1, <2>2, <2>4
<1>4. CASE block.hash # NoHash
  <2>1. block.number = Processed + 1 /\ parentNum = Processed - Len(orphans) /\ Final[c] <= parentNum
    BY <1>4 DEF TipInv, SearchInv, RecordsOn
  <2>2. Len(orphans) \in Nat
    BY DEF BaseInv, TypeInv, TypeOK
  <2>3. parentNum <= Processed
    BY <1>1, <2>1, <2>2
  <2>4. InSearch
    <3>1. parentNum > 0 /\ (Processed + 1) - parentNum <= MaxReorgDepth
      BY <1>1, <1>2, <2>1, ChainFacts
    <3>2. Sub(block.number, parentNum) = (Processed + 1) - parentNum
      BY <1>1, <1>2, <2>1, <2>3 DEF Sub
    <3> QED
      BY <3>1, <3>2 DEF InSearch
  <2>5. Stored # {}
    <3>1. parentNum \in Final[c] .. Processed
      BY <1>1, <1>2, <2>1, <2>3, ChainFacts
    <3> QED
      BY <1>1, <3>1 DEF RecordsOn, Stored
  <2> QED
    BY <1>1, <1>2, <1>4, <2>1, <2>3, <2>4, <2>5
<1> QED
  BY <1>3, <1>4

\* An orphan is above the final blocks, so the search does not go below them.
LEMMA TipWalkOrphan ==
    ASSUME FinalSetting(Final), BaseInv, TipInv, NEW c \in Chains, RecordsOn(c), WalkOrphan
    PROVE  TipInv' /\ RecordsOn(c)'
<1>1. PICK r \in Stored : r.hash # GetBlockByNumber(parentNum).hash /\ orphans' = Append(orphans, r)
  BY DEF WalkOrphan
<1>2. /\ pc = "walking" /\ pc' = "walking" /\ parentNum' = parentNum - 1
      /\ UNCHANGED <<canon, storeVars, anchor, block>>
  BY DEF WalkOrphan, loopVars
<1>3. r \in blocks /\ r.chainId = ChainId /\ r.number = parentNum /\ ~closed
  BY DEF Stored, Store!GetBlock, Store!HasKey, BaseInv, LinkInv, StoreInv
<1>4. /\ Processed \in Nat /\ block.hash # NoHash
      /\ parentNum \in Nat /\ parentNum = Processed - Len(orphans)
      /\ Final[c] <= parentNum /\ parentNum <= Processed
  BY <1>1, <1>2, <1>3, SearchPlace
<1>5. r.hash = c[parentNum + 1]
  BY <1>3, <1>4, StoredOn
<1>6. parentNum > Final[c] /\ Final[c] \in Nat
  <2>1. Final[c] \in Nat /\ canon \in Chains /\ Precedes(c, canon)
    BY ChainFacts DEF BaseInv, TypeInv, TypeOK, RecordsOn
  <2>2. ASSUME parentNum <= Final[c]
        PROVE  FALSE
    <3>1. parentNum < Len(canon) /\ canon[parentNum + 1] = c[parentNum + 1]
      BY <1>4, <2>1, <2>2, FinalShown
    <3>2. GetBlockByNumber(parentNum).hash = canon[parentNum + 1]
      BY <3>1 DEF GetBlockByNumber
    <3> QED
      BY <1>1, <1>5, <3>1, <3>2
  <2> QED
    BY <1>4, <2>1, <2>2
<1>7. Len(orphans') = Len(orphans) + 1 /\ Len(orphans) \in Nat
  BY <1>1 DEF BaseInv, TypeInv, TypeOK
<1>8. Processed' = Processed /\ Index' = Index /\ closed' = closed
  BY <1>2 DEF Processed, Index, storeVars
<1>9. BottomInv'
  BY <1>2 DEF TipInv, BottomInv, LastExists, LastRecord, Store!GetLastProcessedBlock,
              Store!GetBlock, Processed, storeVars
<1>10. SearchInv'
  <2>1. parentNum' = Processed' - Len(orphans')
    BY <1>2, <1>4, <1>7, <1>8
  <2>2. Processed # Store!NoBlock /\ block.number = Processed + 1
    BY <1>2, <1>3, <1>4 DEF TipInv, SearchInv
  <2> QED
    BY <1>2, <1>4, <1>8, <2>1, <2>2 DEF Undoing, SearchInv
<1>11. RecordsOn(c)'
  <2>1. Final[c] <= parentNum'
    BY <1>2, <1>4, <1>6
  <2> QED
    BY <1>2, <1>8, <2>1 DEF RecordsOn, Precedes, Store!GetBlock, storeVars
<1> QED
  BY <1>9, <1>10, <1>11 DEF TipInv

\* The search has ended; the store's records of the poller's chain stay.
LEMMA TipSearchEnds ==
    ASSUME TipInv, NEW c, RecordsOn(c), pc' = "settling", Processed' = Processed,
           UNCHANGED <<canon, closed, anchor>>,
           \A r : r.chainId = ChainId => (r \in blocks' <=> r \in blocks),
           ~closed' =>
              \A r \in parentRec' :
                 \/ r.chainId # ChainId /\ orphans' = <<>>
                 \/ r.chainId = ChainId /\ r.number = Processed - Len(orphans')
    PROVE  TipInv' /\ RecordsOn(c)'
<1>1. \A n : Store!GetBlock(ChainId, n)' = Store!GetBlock(ChainId, n)
  BY DEF Store!GetBlock, Store!HasKey
<1>2. LastExists'
  <2>1. LastExists
    BY DEF TipInv, BottomInv
  <2>2. lastProcessedBlocks'[ChainId] = lastProcessedBlocks[ChainId]
    BY DEF Processed
  <2>3. LastRecord' = LastRecord
    BY <2>2 DEF LastRecord, Store!GetLastProcessedBlock, Store!GetBlock, Store!HasKey
  <2> QED
    BY <2>1, <2>2, <2>3 DEF LastExists
<1>3. BottomInv'
  BY <1>2 DEF TipInv, BottomInv
<1>4. SearchInv'
  BY DEF Undoing, SearchInv
<1>5. Index' = Index
  BY DEF Index, Processed
<1>6. RecordsOn(c)'
  BY <1>1, <1>5 DEF RecordsOn, Precedes
<1> QED
  BY <1>3, <1>4, <1>6 DEF TipInv

\* The search ends at a record of the chain, at the number a null answer leads to,
\* or with the store; never at its depth.
LEMMA TipWalkEnds ==
    ASSUME FinalSetting(Final), BaseInv, TipInv, NEW c \in Chains, RecordsOn(c),
           WalkMatch \/ WalkMissing \/ WalkExhausted
    PROVE  TipInv' /\ RecordsOn(c)'
<1>1. pc = "walking" /\ pc' = "settling" /\ orphans' = orphans /\ canon' = canon
  BY DEF WalkMatch, WalkMissing, WalkExhausted, walkVars
<1>2. CASE WalkMatch
  <2>1. PICK r \in Stored : parentRec' = {r}
    BY <1>2 DEF WalkMatch
  <2>2. r.chainId = ChainId /\ r.number = parentNum /\ ~closed
    BY DEF Stored, Store!GetBlock, Store!HasKey, BaseInv, LinkInv, StoreInv
  <2>3. r.number = Processed - Len(orphans)
    BY <1>1, <2>1, <2>2, SearchPlace
  <2>4. UNCHANGED <<storeVars, anchor>>
    BY <1>2 DEF WalkMatch
  <2> QED
    BY <1>1, <2>1, <2>2, <2>3, <2>4, TipSearchEnds DEF Processed, storeVars
<1>3. CASE WalkMissing
  <2> DEFINE found == RecordOf(GetBlockByNumber(parentNum), ClientChainId)
  <2>1. /\ Store!SaveBlock(found) /\ AnchorAt(found) /\ ~closed /\ Stored = {}
        /\ parentRec' = {found}
    BY <1>3 DEF WalkMissing, Fails, FinalSetting, PlainSetting
  <2>2. found \in BlockRecord /\ found.chainId # ChainId
    BY FetchedBlock, RecordOfBlock, ConfigAssumption
       DEF BaseInv, TypeInv, TypeOK, FinalSetting, PlainSetting, RecordOf
  <2>3. orphans = <<>>
    BY <1>1, <2>1, SearchPlace
  <2> HIDE DEF found
  <2>4. /\ ~closed' /\ Processed' = Processed /\ anchor' = anchor
        /\ \A s : s.chainId = ChainId => (s \in blocks' <=> s \in blocks)
    BY <2>1, <2>2, SavedElsewhere DEF AnchorAt, BaseInv
  <2>5. closed' = closed
    BY <2>1 DEF Store!SaveBlock
  <2> QED
    BY <1>1, <2>1, <2>2, <2>3, <2>4, <2>5, TipSearchEnds
<1>4. CASE WalkExhausted
  <2>1. closed
    BY <1>1, <1>4, SearchPlace DEF WalkExhausted
  <2>2. UNCHANGED <<storeVars, anchor>>
    BY <1>4 DEF WalkExhausted
  <2> QED
    BY <1>1, <2>1, <2>2, TipSearchEnds DEF Processed, storeVars
<1> QED
  BY <1>2, <1>3, <1>4

\* What Settle saves: the record of another chain, of a null answer, or one of
\* the poller's chain that is there already.
LEMMA SettleSaves ==
    ASSUME FinalSetting(Final), BaseInv, TipInv, Settle
    PROVE  /\ ~closed /\ ~closed' /\ anchor' = anchor
           /\ \A s : s.chainId = ChainId => (s \in blocks' <=> s \in blocks)
           /\ \/ Processed' = Processed /\ orphans = <<>>
              \/ /\ Processed' = Processed - Len(orphans) /\ Processed' <= Processed
                 /\ \E s \in blocks : s.chainId = ChainId /\ s.number = Processed'
<1>1. PICK r \in parentRec : Store!SaveBlock(r) /\ AnchorAt(r)
  BY DEF Settle
<1>2. pc = "settling" /\ r \in BlockRecord /\ ~closed
  BY <1>1 DEF Settle, BaseInv, TypeInv, TypeOK, Store!SaveBlock
<1>3. CASE r.chainId # ChainId
  <2>1. orphans = <<>>
    BY <1>2, <1>3 DEF TipInv, SearchInv
  <2> QED
    BY <1>1, <1>2, <1>3, <2>1, SavedElsewhere DEF BaseInv, AnchorAt
<1>4. CASE r.chainId = ChainId
  <2>1. r \in blocks /\ r.number <= Processed
    BY <1>2, <1>4 DEF BaseInv, LinkInv, WalkInv
  <2>2. r.number = Processed - Len(orphans)
    BY <1>2, <1>4 DEF TipInv, SearchInv
  <2>3. r.number \in Nat /\ Processed # Store!NoBlock
    BY <2>1, IndexTypes DEF BaseInv, Store!NoBlock
  <2>4. anchor' = anchor
    <3>1. anchor = GenesisBlockNumber /\ GenesisBlockNumber <= r.number /\ anchor \in Nat
      BY <1>4, <2>1, <2>3, IndexTypes DEF TipInv, BottomInv, BaseInv
    <3> QED
      BY <1>1, <2>3, <3>1 DEF AnchorAt
  <2>5. ~closed' /\ Processed' = r.number
    BY <1>1, <1>2, <1>4, SavedHere DEF BaseInv
  <2>6. blocks' = blocks
    <3>1. blocks' = (blocks \ Store!GetBlock(ChainId, r.number)) \cup {r}
      BY <1>1, <1>4 DEF Store!SaveBlock
    <3>2. \A s \in Store!GetBlock(ChainId, r.number) : s = r
      BY <1>4, <2>1, KeyUnique DEF Store!GetBlock, Store!HasKey, BaseInv
    <3> QED
      BY <2>1, <3>1, <3>2 DEF Store!GetBlock
  <2> QED
    BY <1>2, <1>4, <2>1, <2>2, <2>4, <2>5, <2>6
<1> QED
  BY <1>3, <1>4

\* Saving the ancestor moves the last processed block down along the records.
LEMMA TipSettle ==
    ASSUME FinalSetting(Final), BaseInv, TipInv, NEW c \in Chains, RecordsOn(c), Settle
    PROVE  TipInv' /\ RecordsOn(c)'
<1>1. /\ ~closed /\ ~closed' /\ anchor' = anchor
      /\ \A s : s.chainId = ChainId => (s \in blocks' <=> s \in blocks)
      /\ \/ Processed' = Processed /\ orphans = <<>>
         \/ /\ Processed' = Processed - Len(orphans) /\ Processed' <= Processed
            /\ \E s \in blocks : s.chainId = ChainId /\ s.number = Processed'
  BY SettleSaves
<1>2. /\ pc = "settling" /\ canon' = canon
      /\ \/ pc' = "undoing" /\ orphans' = orphans /\ orphans # <<>>
         \/ pc' = "waiting" /\ orphans' = <<>>
  BY DEF Settle, Return, LocalsDropped, walkVars
<1>3. /\ \A n : Store!GetBlock(ChainId, n)' = Store!GetBlock(ChainId, n)
      /\ Processed \in Int /\ Processed' \in Int /\ Processed' <= Processed
      /\ \A r \in blocks : r.number \in Nat
  <2>1. Processed \in Int /\ \A r \in blocks : r.number \in Nat
    BY IndexTypes DEF BaseInv
  <2>2. Processed' \in Int /\ Processed' <= Processed
    BY <1>1, <2>1
  <2> QED
    BY <1>1, <2>1, <2>2 DEF Store!GetBlock, Store!HasKey
<1>4. Processed' # Store!NoBlock => Processed # Store!NoBlock
  <2>1. Processed' = Processed \/ Processed' \in Nat
    BY <1>1, <1>3
  <2> QED
    BY <1>3, <2>1 DEF Store!NoBlock
<1>5. LastExists'
  <2>1. lastProcessedBlocks'[ChainId] = Processed' /\ lastProcessedBlocks[ChainId] = Processed
    BY DEF Processed
  <2>2. CASE Processed' = Processed
    <3>1. LastRecord' = LastRecord
      BY <1>1, <2>1, <2>2 DEF LastRecord, Store!GetLastProcessedBlock, Store!GetBlock, Store!HasKey
    <3> QED
      BY <2>1, <2>2, <3>1 DEF TipInv, BottomInv, LastExists
  <2>3. CASE \E s \in blocks : s.chainId = ChainId /\ s.number = Processed'
    <3>1. LastRecord' # {}
      BY <1>1, <2>1, <2>3 DEF LastRecord, Store!GetLastProcessedBlock, Store!GetBlock, Store!HasKey
    <3> QED
      BY <3>1 DEF LastExists
  <2> QED
    BY <1>1, <2>2, <2>3
<1>6. BottomInv'
  BY <1>1, <1>2, <1>4, <1>5 DEF TipInv, BottomInv
<1>7. SearchInv'
  <2>1. CASE pc' = "undoing" /\ orphans' = orphans /\ orphans # <<>>
    <3>1. orphans[1].number = Processed
      BY <1>1, <1>2, <2>1 DEF BaseInv, IndexInv, OrphanInv
    <3>2. Len(orphans) \in Nat
      BY DEF BaseInv, TypeInv, TypeOK
    <3>3. orphans'[1].number = Processed' + Len(orphans')
      BY <1>1, <1>3, <2>1, <3>1, <3>2
    <3> QED
      BY <2>1, <3>3 DEF SearchInv, Undoing
  <2>2. CASE pc' = "waiting"
    BY <2>2 DEF SearchInv, Undoing
  <2> QED
    BY <1>2, <2>1, <2>2
<1>8. RecordsOn(c)'
  <2>1. Index' \subseteq Index
    BY <1>1, <1>3 DEF Index, Processed
  <2>2. ASSUME Processed' # Store!NoBlock
        PROVE  /\ Processed' < Len(c)
               /\ \A n \in Final[c] .. Processed' : Store!GetBlock(ChainId, n)' # {}
    <3>1. Processed < Len(c) /\ \A n \in Final[c] .. Processed : Store!GetBlock(ChainId, n) # {}
      BY <1>4, <2>2 DEF RecordsOn
    <3>2. Final[c] \in Nat /\ Len(c) \in Nat
      BY ChainFacts
    <3> QED
      BY <1>3, <3>1, <3>2
  <2>3. pc' \notin {"logs", "walking"}
    BY <1>2
  <2> QED
    BY <1>2, <1>4, <2>1, <2>2, <2>3 DEF RecordsOn, Precedes
<1> QED
  BY <1>6, <1>7, <1>8 DEF TipInv

\* The orphan undone is above the last processed block.
LEMMA UndoAbove ==
    ASSUME BaseInv, TipInv, Undo
    PROVE  /\ pc = "deleting" /\ ~closed /\ Processed \in Int /\ Len(orphans) \in Nat /\ Len(orphans) > 0
           /\ orphans[1].number = Processed + Len(orphans)
           /\ blocks' = blocks \ Store!GetBlock(ChainId, orphans[1].number)
           /\ UNCHANGED <<canon, closed, lastProcessedBlocks, anchor, Processed>>
           /\ \/ pc' = "waiting" /\ Len(orphans) = 1
              \/ /\ pc' = "undoing" /\ Len(orphans) > 1
                 /\ orphans'[1].number = orphans[1].number - 1
                 /\ Len(orphans') = Len(orphans) - 1
<1>1. pc = "deleting" /\ ~closed /\ orphans \in Seq(BlockRecord) /\ orphans # <<>>
  BY DEF Undo, BaseInv, TypeInv, TypeOK
<1>2. Len(orphans) \in Nat /\ Len(orphans) > 0 /\ Head(orphans) = orphans[1]
  BY <1>1
<1>3. /\ \A k \in 1 .. Len(orphans) :
            orphans[k].chainId = ChainId /\ orphans[k].number = orphans[1].number - (k - 1)
      /\ orphans[1].number = Processed + Len(orphans)
  BY <1>1 DEF BaseInv, IndexInv, OrphanInv, TipInv, SearchInv, Undoing
<1>4. Processed \in Int
  BY IndexTypes DEF BaseInv
<1>5. /\ blocks' = blocks \ Store!GetBlock(ChainId, orphans[1].number) /\ Undone
      /\ UNCHANGED <<canon, closed, lastProcessedBlocks, anchor, Processed>>
  BY <1>2, <1>3 DEF Undo, Processed
<1>6. CASE Len(orphans) = 1
  BY <1>1, <1>2, <1>3, <1>4, <1>5, <1>6 DEF Undone, Return
<1>7. CASE Len(orphans) # 1
  <2>1. pc' = "undoing" /\ orphans' = Tail(orphans)
    BY <1>1, <1>5, <1>7 DEF Undone
  <2>2. Len(orphans) > 1 /\ 2 \in 1 .. Len(orphans)
    <3>1. \A n \in Nat : n > 0 /\ n # 1 => n > 1 /\ 2 \in 1 .. n
      OBVIOUS
    <3> QED
      BY <1>2, <1>7, <3>1
  <2>3. Len(orphans') = Len(orphans) - 1 /\ orphans'[1] = orphans[2]
    BY <1>1, <2>1, <2>2
  <2>4. orphans[2].number = orphans[1].number - (2 - 1)
    BY <1>3, <2>2
  <2>5. orphans'[1].number = orphans[1].number - 1
    BY <2>3, <2>4
  <2> QED
    BY <1>1, <1>2, <1>3, <1>4, <1>5, <2>1, <2>2, <2>3, <2>5
<1> QED
  BY <1>6, <1>7

\* Undoing an orphan keeps every record up to the last processed one.
LEMMA TipUndo ==
    ASSUME FinalSetting(Final), BaseInv, TipInv, NEW c \in Chains, RecordsOn(c), Undo
    PROVE  TipInv' /\ RecordsOn(c)'
<1>1. /\ pc = "deleting" /\ ~closed /\ Processed \in Int /\ Len(orphans) \in Nat /\ Len(orphans) > 0
      /\ orphans[1].number = Processed + Len(orphans)
      /\ blocks' = blocks \ Store!GetBlock(ChainId, orphans[1].number)
      /\ UNCHANGED <<canon, closed, lastProcessedBlocks, anchor, Processed>>
      /\ \/ pc' = "waiting" /\ Len(orphans) = 1
         \/ /\ pc' = "undoing" /\ Len(orphans) > 1
            /\ orphans'[1].number = orphans[1].number - 1
            /\ Len(orphans') = Len(orphans) - 1
  BY UndoAbove
<1>2. \A n \in Int : n <= Processed => Store!GetBlock(ChainId, n)' = Store!GetBlock(ChainId, n)
  <2>1. \A n \in Int : n <= Processed => n # orphans[1].number
    BY <1>1
  <2> QED
    BY <1>1, <2>1 DEF Store!GetBlock, Store!HasKey
<1>3. LastExists'
  <2>1. lastProcessedBlocks[ChainId] # orphans[1].number
    BY <1>1 DEF Processed
  <2>2. LastRecord' = LastRecord
    BY <1>1, <2>1 DEF LastRecord, Store!GetLastProcessedBlock, Store!GetBlock, Store!HasKey
  <2> QED
    BY <1>1, <2>2 DEF TipInv, BottomInv, LastExists
<1>4. BottomInv'
  BY <1>1, <1>3 DEF TipInv, BottomInv
<1>5. SearchInv'
  <2>1. pc' = "undoing" => orphans'[1].number = Processed' + Len(orphans')
    BY <1>1
  <2> QED
    BY <1>1, <2>1 DEF SearchInv, Undoing
<1>6. RecordsOn(c)'
  <2>1. Index' \subseteq Index
    BY <1>1 DEF Index
  <2>2. \A n \in Final[c] .. Processed : Store!GetBlock(ChainId, n)' = Store!GetBlock(ChainId, n)
    BY <1>1, <1>2, ChainFacts
  <2>3. pc' \notin {"logs", "walking"}
    BY <1>1
  <2> QED
    BY <1>1, <2>1, <2>2, <2>3 DEF RecordsOn, Precedes
<1> QED
  BY <1>4, <1>5, <1>6 DEF TipInv

\* A report touches no record.
LEMMA TipReport ==
    ASSUME FinalSetting(Final), BaseInv, TipInv, NEW c \in Chains, RecordsOn(c), Report
    PROVE  TipInv' /\ RecordsOn(c)'
<1>1. /\ pc = "undoing" /\ pc' = "deleting"
      /\ UNCHANGED <<canon, storeVars, anchor, orphans>>
  BY DEF Report, walkVars
<1>2. Processed' = Processed /\ closed' = closed /\ blocks' = blocks /\ LastRecord' = LastRecord
  BY <1>1 DEF Processed, storeVars, LastRecord, Store!GetLastProcessedBlock, Store!GetBlock, Store!HasKey
<1>3. LastExists'
  BY <1>1, <1>2 DEF TipInv, BottomInv, LastExists, storeVars
<1>4. BottomInv' /\ SearchInv'
  BY <1>1, <1>2, <1>3 DEF TipInv, BottomInv, SearchInv, Undoing
<1>5. \A n : Store!GetBlock(ChainId, n)' = Store!GetBlock(ChainId, n)
  BY <1>2 DEF Store!GetBlock
<1>6. Index' = Index
  BY <1>1 DEF Index, storeVars
<1>7. RecordsOn(c)'
  BY <1>1, <1>2, <1>5, <1>6 DEF RecordsOn, Precedes
<1> QED
  BY <1>4, <1>7 DEF TipInv

\* Every step but the two that follow the chain shown keeps the witness.
LEMMA TipStepKeeps ==
    ASSUME FinalSetting(Final), BaseInv, TipInv, NEW c \in Chains, RecordsOn(c), [Next]_vars,
           ~StartAnchor, ~FetchAccept
    PROVE  TipInv' /\ RecordsOn(c)'
<1>1. CASE Environment
  BY <1>1, TipEnvironment
<1>2. CASE Start
  <2>1. CASE StartResume \/ StartFails
    <3>1. pc' \in {"stopped", "waiting"} /\ UNCHANGED <<canon, storeVars, anchor>>
      BY <2>1 DEF StartResume, StartFails
    <3> QED
      BY <3>1, TipQuiet
  <2> QED
    BY <1>2, <2>1, TipStartFresh DEF Start
<1>3. CASE ProcessNextBlock
  <2>1. CASE LoopExits \/ Tick \/ FetchFails
    <3>1. pc' \in {"stopped", "waiting", "fetching"} /\ UNCHANGED <<canon, storeVars, anchor>>
      BY <2>1 DEF LoopExits, Tick, FetchFails, Return
    <3> QED
      BY <3>1, TipQuiet
  <2>2. CASE TickSkips
    <3>1. Precedes(c, canon')
      BY <2>2 DEF TickSkips, vars, RecordsOn
    <3> QED
      BY <2>2, <3>1, TipUntouched DEF TickSkips, vars, loopVars
  <2> QED
    BY <1>3, <2>1, <2>2, TipFetchReorg DEF ProcessNextBlock
<1>4. CASE ProcessBlockLogs
  <2>1. CASE \/ \E b \in Batches : BatchReply(b) \/ BatchFails(b)
             \/ \E reply \in replies : HandleLog(reply)
    <3>1. UNCHANGED <<canon, storeVars, anchor, pc, block, walkVars>>
      BY <2>1 DEF BatchReply, BatchFails, HandleLog, loopVars
    <3>2. Precedes(c, canon')
      BY <3>1 DEF RecordsOn
    <3> QED
      BY <3>1, <3>2, TipUntouched
  <2>2. CASE LogsFetchFails \/ DecodeFails \/ HandleLogFails \/ SaveProcessedFails \/ PruneSkips
    <3>1. pc' \in {"waiting", "pruning", "fetching"} /\ UNCHANGED <<canon, storeVars, anchor>>
      BY <2>2 DEF LogsFetchFails, DecodeFails, HandleLogFails, SaveProcessedFails, PruneSkips,
                  Advance, Return
    <3> QED
      BY <3>1, TipQuiet
  <2> QED
    BY <1>4, <2>1, <2>2, TipSaveProcessed, TipPrune DEF ProcessBlockLogs
<1>5. CASE ReconcileReorg
  <2>1. CASE WalkFails \/ SettleFails \/ UndoFails
    <3>1. pc' = "waiting" /\ UNCHANGED <<canon, storeVars, anchor>>
      BY <2>1 DEF WalkFails, SettleFails, UndoFails, Return
    <3> QED
      BY <3>1, TipQuiet
  <2> QED
    BY <1>5, <2>1, TipWalkOrphan, TipWalkEnds, TipSettle, TipReport, TipUndo
       DEF ReconcileReorg
<1>6. CASE UNCHANGED vars
  <2>1. Precedes(c, canon')
    BY <1>6 DEF vars, RecordsOn
  <2> QED
    BY <1>6, <2>1, TipUntouched DEF vars, loopVars
<1> QED
  BY <1>1, <1>2, <1>3, <1>4, <1>5, <1>6 DEF Next

\* BaseInv through every step.
LEMMA BaseStep ==
    ASSUME FinalSetting(Final), BaseInv, [Next]_vars
    PROVE  BaseInv'
BY TypeStep, LinkStep, IndexStep DEF FinalSetting, BaseInv

\* There is a witness chain before every step and after it.
LEMMA TipStep ==
    ASSUME FinalSetting(Final), BaseInv, TipInv, NEW c \in Chains, RecordsOn(c), [Next]_vars
    PROVE  TipInv' /\ \E d \in Chains : RecordsOn(d)'
<1>1. PICK d \in Chains : d = canon
  BY DEF BaseInv, TypeInv, TypeOK
<1>2. CASE StartAnchor
  BY <1>1, <1>2, TipStartAnchor
<1>3. CASE FetchAccept
  BY <1>1, <1>3, TipFetchAccept
<1> QED
  BY <1>2, <1>3, TipStepKeeps

\* On a chain whose blocks become final less than MaxReorgDepth below its head,
\* there is a last processed block to go on from once one has been processed
\* (evmChainPoller.go:158), with every failure but a failing open store: no reorg,
\* null answer, prune, crash or restart leaves lastProcessedBlocks without its record
\* (evmChainPoller.go:322, 469, 509, 536).
THEOREM LastBlockExists ==
    ASSUME FinalSetting(Final)
    PROVE  Spec => []LastExists
<1> DEFINE Inv == BaseInv /\ TipInv /\ \E c \in Chains : RecordsOn(c)
<1>1. Init => Inv
  <2> SUFFICES ASSUME Init PROVE Inv
    OBVIOUS
  <2>1. BaseInv /\ canon \in Chains
    BY TypeInit, LinkInit, IndexInit DEF BaseInv, Init
  <2> QED
    BY <2>1, TipInit
<1>2. Inv /\ [Next]_vars => Inv'
  BY BaseStep, TipStep
<1>3. Inv => LastExists
  BY DEF TipInv, BottomInv
<1> QED
  BY <1>1, <1>2, <1>3, PTL DEF Spec

-----------------------------------------------------------------------------
(* What is recorded has been delivered *)

\* Because the search does not end without an ancestor, every orphan that is reported
\* is above the last processed block.
LEMMA ReportAbove ==
    ASSUME BaseInv, TipInv, Report, Index # {}
    PROVE  Head(orphans).number > Processed
<1>1. pc = "undoing" /\ orphans \in Seq(BlockRecord) /\ orphans # <<>>
  BY DEF Report, BaseInv, TypeInv, TypeOK
<1>2. ~closed
  BY DEF BaseInv, LinkInv, StoreInv, Index
<1>3. orphans[1].number = Processed + Len(orphans)
  BY <1>1, <1>2 DEF TipInv, SearchInv, Undoing
<1>4. Head(orphans) = orphans[1] /\ Len(orphans) \in Nat /\ Len(orphans) > 0
  BY <1>1
<1>5. Processed \in Int
  BY IndexTypes DEF BaseInv
<1> QED
  BY <1>3, <1>4, <1>5

\* On a chain whose blocks become final, with a block handler that accepts its blocks,
\* a block recorded as processed has been handed over with all its log batches and not
\* been invalidated since: no crash, retry, failed batch, undecodable log or reorg
\* leaves a committed block the application does not hold, although an orphan is
\* reported before its record is deleted (evmChainPoller.go:239, 300, 316, 467, 469).
THEOREM CommittedBlocksDelivered ==
    ASSUME FinalSetting(Final), DeliverySetting
    PROVE  Spec => []CommittedDelivered
<1> DEFINE Inv == /\ BaseInv /\ TipInv /\ CommittedDelivered /\ DeliveryInv
                  /\ \E c \in Chains : RecordsOn(c)
<1>1. Init => Inv
  <2> SUFFICES ASSUME Init PROVE Inv
    OBVIOUS
  <2>1. BaseInv /\ canon \in Chains
    BY TypeInit, LinkInit, IndexInit DEF BaseInv, Init
  <2> QED
    BY <2>1, TipInit, DeliveryInit
<1>2. Inv /\ [Next]_vars => Inv'
  <2> SUFFICES ASSUME Inv, [Next]_vars PROVE Inv'
    OBVIOUS
  <2>1. Report /\ Index # {} => Head(orphans).number > Processed
    BY ReportAbove
  <2>2. CommittedDelivered' /\ DeliveryInv'
    BY <2>1, DeliveryStep DEF BaseInv, FinalSetting
  <2> QED
    BY <2>2, BaseStep, TipStep
<1>3. Inv => CommittedDelivered
  OBVIOUS
<1> QED
  BY <1>1, <1>2, <1>3, PTL DEF Spec

-----------------------------------------------------------------------------
(* The history stays bounded *)

\* The highest record there may be.
Top == IF pc \in Undoing THEN orphans[1].number ELSE Processed

\* A record more than BlockHistorySize is kept between a save and its prune.
Slack == IF pc = "pruning" THEN 1 ELSE 0

\* The records of the poller's chain lie within BlockHistorySize of the highest one;
\* while orphans are being undone, of the highest orphan left.
HistInv ==
    \A r \in blocks :
       r.chainId = ChainId => r.number <= Top /\ r.number > Top - BlockHistorySize - Slack

\* The numbers HistInv is about.
LEMMA HistTypes ==
    ASSUME BaseInv
    PROVE  /\ BlockHistorySize \in Nat /\ Processed \in Int /\ Top \in Int
           /\ Slack \in Nat /\ \A r \in blocks : r.number \in Nat
<1>1. BlockHistorySize \in Nat /\ Processed \in Int /\ \A r \in blocks : r.number \in Nat
  BY ConfigAssumption, IndexTypes DEF BaseInv
<1>2. pc \in Undoing => orphans[1].number \in Nat
  <2>1. pc \in Undoing => orphans \in Seq(BlockRecord) /\ orphans # <<>>
    BY DEF BaseInv, TypeInv, TypeOK, Undoing
  <2>2. pc \in Undoing => orphans[1] \in BlockRecord
    BY <2>1
  <2> QED
    BY <2>2, ConfigAssumption DEF BlockRecord, Uint64
<1> QED
  BY <1>1, <1>2 DEF Top, Slack

\* A step that adds no record of the poller's chain and leaves its top where it is.
LEMMA HistKept ==
    ASSUME BaseInv, HistInv, Top' = Top, Slack <= Slack', Slack' \in Nat,
           \A r : r.chainId = ChainId /\ r \in blocks' => r \in blocks
    PROVE  HistInv'
<1>1. /\ BlockHistorySize \in Nat /\ Top \in Int
      /\ Slack \in Nat /\ \A r \in blocks : r.number \in Nat
  BY HistTypes
<1> SUFFICES ASSUME NEW r \in blocks', r.chainId = ChainId
             PROVE  r.number <= Top' /\ r.number > Top' - BlockHistorySize - Slack'
  BY DEF HistInv
<1>2. r \in blocks /\ r.number <= Top /\ r.number > Top - BlockHistorySize - Slack
  BY DEF HistInv
<1> QED
  BY <1>1, <1>2

\* A step that leaves the records alone, outside pruning and undoing.
LEMMA HistQuiet ==
    ASSUME BaseInv, HistInv, UNCHANGED storeVars, pc \notin Undoing, pc # "pruning",
           pc' \notin Undoing
    PROVE  HistInv'
<1>1. Top' = Top /\ Slack = 0 /\ Slack' \in Nat /\ Slack <= Slack'
  BY DEF Top, Slack, Processed, storeVars
<1> QED
  BY <1>1, HistKept DEF storeVars

\* A step that touches neither the store nor the locals HistInv is about.
LEMMA HistUntouched ==
    ASSUME BaseInv, HistInv, UNCHANGED <<storeVars, pc, orphans>>
    PROVE  HistInv'
<1>1. Top' = Top /\ Slack' \in Nat /\ Slack <= Slack'
  BY DEF Top, Slack, Processed, storeVars
<1> QED
  BY <1>1, HistKept DEF storeVars

\* No records are left, or none of the poller's chain.
LEMMA HistEmpty ==
    ASSUME blocks' = {}
    PROVE  HistInv'
BY DEF HistInv

\* The bound while the world moves: a crash loses the store.
LEMMA HistEnvironment ==
    ASSUME HistorySetting, BaseInv, HistInv, Environment
    PROVE  HistInv'
<1>1. CASE ChainMoves \/ Cancel
  BY <1>1, HistUntouched DEF ChainMoves, Cancel, walkVars
<1>2. CASE CloseStore
  BY <1>2, HistEmpty DEF CloseStore, Store!Close
<1>3. CASE Crash
  BY <1>3, HistEmpty DEF Crash, HistorySetting, Fails
<1> QED
  BY <1>1, <1>2, <1>3 DEF Environment

\* The start block is the only record.
LEMMA HistStartAnchor ==
    ASSUME HistorySetting, BaseInv, TipInv, HistInv, StartAnchor
    PROVE  HistInv'
<1> DEFINE start == RecordOf(GetBlockByNumber(blockNum), ChainId)
<1>1. pc = "starting" /\ Store!SaveBlock(start) /\ pc' = "waiting" /\ ~closed
  BY DEF StartAnchor, Return, Store!SaveBlock
<1>2. start \in BlockRecord /\ start.chainId = ChainId
  BY FetchedBlock, RecordOfBlock, ConfigAssumption DEF BaseInv, TypeInv, TypeOK, RecordOf
<1> HIDE DEF start
<1>3. Processed' = start.number /\ \A r \in blocks' : r = start \/ r \in blocks
  BY <1>1, <1>2, SavedHere DEF BaseInv
<1>4. Top = Store!NoBlock /\ Top' = start.number /\ Slack' = 0
  BY <1>1, <1>3 DEF Undoing, Top, Slack, TipInv, BottomInv
<1>5. \A r \in blocks : r.chainId # ChainId
  BY <1>4, HistTypes DEF HistInv, Store!NoBlock
<1>6. start.number \in Nat /\ BlockHistorySize \in Nat
  BY <1>2, ConfigAssumption DEF BlockRecord, Uint64
<1> QED
  BY <1>3, <1>4, <1>5, <1>6 DEF HistInv, HistorySetting

\* A save makes one record more than BlockHistorySize,
LEMMA HistSaveProcessed ==
    ASSUME FinalSetting(Final), HistorySetting, BaseInv, TipInv, NEW c \in Chains, RecordsOn(c),
           HistInv, SaveProcessed
    PROVE  HistInv'
<1> DEFINE rec == RecordOf(block, ChainId)
<1>1. pc = "logs" /\ pc' = "pruning" /\ Store!SaveBlock(rec)
  BY DEF SaveProcessed, LogsHandled
<1>2. rec \in BlockRecord /\ rec.chainId = ChainId
  BY RecordOfBlock, ConfigAssumption DEF BaseInv, TypeInv, TypeOK, RecordOf
<1> HIDE DEF rec
<1>3. Processed' = rec.number /\ \A r \in blocks' : r = rec \/ r \in blocks
  BY <1>1, <1>2, SavedHere DEF BaseInv
<1>4. Processed' = Processed + 1
  BY TipSaveProcessed
<1>5. Top = Processed /\ Top' = Processed' /\ Slack = 0 /\ Slack' = 1
  BY <1>1 DEF Undoing, Top, Slack
<1>6. BlockHistorySize \in Nat /\ Processed \in Int /\ \A r \in blocks : r.number \in Nat
  BY HistTypes
<1> SUFFICES ASSUME NEW r \in blocks', r.chainId = ChainId
             PROVE  r.number <= Top' /\ r.number > Top' - BlockHistorySize - Slack'
  BY DEF HistInv
<1>7. CASE r = rec
  <2>1. BlockHistorySize > 0
    BY DEF HistorySetting
  <2>2. r.number = Processed + 1 /\ Top' = Processed + 1
    BY <1>3, <1>4, <1>5, <1>7
  <2> QED
    BY <1>5, <1>6, <2>1, <2>2
<1>8. CASE r \in blocks
  <2>1. r.number <= Top /\ r.number > Top - BlockHistorySize - Slack
    BY <1>8 DEF HistInv
  <2> QED
    BY <1>4, <1>5, <1>6, <1>8, <2>1
<1> QED
  BY <1>3, <1>7, <1>8

\* and the prune that follows takes the lowest, if there is one too many.
LEMMA HistPrune ==
    ASSUME FinalSetting(Final), HistorySetting, BaseInv, TipInv, HistInv, Prune \/ PruneSkips
    PROVE  HistInv'
<1> DEFINE low == block.number - BlockHistorySize
<1>1. /\ pc = "pruning" /\ pc' \in {"fetching", "waiting"} /\ UNCHANGED <<closed, lastProcessedBlocks>>
      /\ blocks' \subseteq blocks
  BY DEF Prune, PruneSkips, Advance, Return, Store!DeleteBlock, storeVars
<1>2. CASE closed
  <2>1. blocks' = {}
    BY <1>1, <1>2 DEF BaseInv, LinkInv, StoreInv
  <2> QED
    BY <2>1, HistEmpty
<1>3. CASE ~closed
  <2>1. block.number = Processed
    BY <1>1, <1>3 DEF BaseInv, LinkInv, BlockInv
  <2>2. Top = Processed /\ Top' = Processed /\ Slack = 1 /\ Slack' = 0
    BY <1>1 DEF Undoing, Top, Slack, Processed
  <2>3. BlockHistorySize \in Nat /\ Processed \in Int /\ \A r \in blocks : r.number \in Nat
    BY HistTypes
  <2> SUFFICES ASSUME NEW r \in blocks', r.chainId = ChainId
               PROVE  r.number <= Top' /\ r.number > Top' - BlockHistorySize - Slack'
    BY DEF HistInv
  <2>4. r \in blocks /\ r.number <= Processed /\ r.number > Processed - BlockHistorySize - 1
    BY <1>1, <2>2 DEF HistInv
  <2>5. r.number # low
    <3>1. CASE blocks' = blocks \ Store!GetBlock(ChainId, low)
      BY <3>1 DEF Store!GetBlock, Store!HasKey
    <3>2. CASE ~PruneDue
      <4>1. r.number >= GenesisBlockNumber /\ GenesisBlockNumber \in Nat /\ GenesisBlockNumber > 0
        BY <2>4, ConfigAssumption DEF TipInv, BottomInv, FinalSetting
      <4>2. Processed <= BlockHistorySize
        BY <2>1, <2>3, <3>2 DEF PruneDue, HistorySetting
      <4> QED
        BY <2>1, <2>3, <4>1, <4>2, <2>4
    <3>3. CASE Store!GetBlock(ChainId, low) = {}
      BY <2>4, <3>3 DEF Store!GetBlock, Store!HasKey
    <3> QED
      BY <1>3, <3>1, <3>2, <3>3
         DEF Prune, PruneSkips, Store!DeleteBlock, StoreFails, Fails, FinalSetting, PlainSetting
  <2> QED
    BY <2>1, <2>2, <2>3, <2>4, <2>5
<1> QED
  BY <1>2, <1>3

\* The rewind leaves the records where they are, and the highest orphan is the last
\* processed block until then.
LEMMA SettleTop ==
    ASSUME FinalSetting(Final), BaseInv, TipInv, Settle
    PROVE  /\ Top' = Top /\ pc = "settling" /\ pc' \in {"undoing", "waiting"} /\ ~closed
           /\ \A s : s.chainId = ChainId => (s \in blocks' <=> s \in blocks)
           /\ Processed' = Store!NoBlock => Processed = Store!NoBlock
<1>1. /\ ~closed /\ \A s : s.chainId = ChainId => (s \in blocks' <=> s \in blocks)
      /\ orphans = <<>> => Processed' = Processed
      /\ Processed' = Processed \/ Processed' \in Nat
  <2>1. Processed \in Int /\ \A r \in blocks : r.number \in Nat
    BY HistTypes
  <2> QED
    BY <2>1, SettleSaves
<1>2. /\ pc = "settling"
      /\ \/ pc' = "undoing" /\ orphans' = orphans /\ orphans # <<>>
         \/ pc' = "waiting" /\ orphans = <<>>
  BY DEF Settle, Return, walkVars
<1>3. orphans # <<>> => orphans[1].number = Processed
  BY <1>1, <1>2 DEF BaseInv, IndexInv, OrphanInv
<1>4. Top' = Top
  BY <1>1, <1>2, <1>3 DEF Top, Undoing
<1>5. Processed' = Store!NoBlock => Processed = Store!NoBlock
  BY <1>1 DEF Store!NoBlock
<1> QED
  BY <1>1, <1>2, <1>4, <1>5

\* The bound through the rewind.
LEMMA HistSettle ==
    ASSUME FinalSetting(Final), BaseInv, TipInv, HistInv, Settle
    PROVE  HistInv'
<1>1. Slack = 0 /\ Slack' = 0
  BY SettleTop DEF Slack
<1> QED
  BY <1>1, SettleTop, HistKept

\* Each orphan deleted lowers the top by one.
LEMMA UndoTop ==
    ASSUME BaseInv, TipInv, Undo
    PROVE  /\ Top \in Int /\ Top = orphans[1].number /\ Top' = Top - 1
           /\ pc = "deleting" /\ pc' \in {"undoing", "waiting"}
<1>1. /\ pc = "deleting" /\ Processed \in Int /\ Len(orphans) \in Nat
      /\ orphans[1].number = Processed + Len(orphans)
      /\ Processed' = Processed
      /\ \/ pc' = "waiting" /\ Len(orphans) = 1
         \/ pc' = "undoing" /\ orphans'[1].number = orphans[1].number - 1
  BY UndoAbove
<1>2. CASE pc' = "waiting" /\ Len(orphans) = 1
  BY <1>1, <1>2 DEF Top, Undoing
<1>3. CASE pc' = "undoing" /\ orphans'[1].number = orphans[1].number - 1
  BY <1>1, <1>3 DEF Top, Undoing
<1> QED
  BY <1>1, <1>2, <1>3

\* The bound through the undoing.
LEMMA HistUndo ==
    ASSUME BaseInv, TipInv, HistInv, Undo
    PROVE  HistInv'
<1>1. blocks' = blocks \ Store!GetBlock(ChainId, orphans[1].number)
  BY UndoAbove
<1>2. Top = orphans[1].number /\ Top' = Top - 1 /\ Slack = 0 /\ Slack' = 0
  BY UndoTop DEF Slack
<1>3. BlockHistorySize \in Nat /\ Top \in Int /\ \A r \in blocks : r.number \in Nat
  BY HistTypes
<1> SUFFICES ASSUME NEW r \in blocks', r.chainId = ChainId
             PROVE  r.number <= Top' /\ r.number > Top' - BlockHistorySize - Slack'
  BY DEF HistInv
<1>4. r \in blocks /\ r.number # Top
  BY <1>1, <1>2 DEF Store!GetBlock, Store!HasKey
<1>5. r.number <= Top /\ r.number > Top - BlockHistorySize
  BY <1>2, <1>3, <1>4 DEF HistInv
<1> QED
  BY <1>2, <1>3, <1>4, <1>5

\* The bound through every step.
LEMMA HistStep ==
    ASSUME FinalSetting(Final), HistorySetting, BaseInv, TipInv, NEW c \in Chains, RecordsOn(c),
           HistInv, [Next]_vars
    PROVE  HistInv'
<1>1. CASE Environment
  BY <1>1, HistEnvironment
<1>2. CASE StartResume \/ StartFresh \/ StartFails
  BY <1>2, HistQuiet DEF StartResume, StartFresh, StartFails, Undoing
<1>3. CASE LoopExits \/ Tick \/ FetchFails \/ FetchReorg \/ FetchAccept
  BY <1>3, HistQuiet DEF LoopExits, Tick, FetchFails, FetchReorg, FetchAccept, Return, Undoing
<1>4. CASE TickSkips \/ UNCHANGED vars
  BY <1>4, HistUntouched DEF TickSkips, vars, walkVars
<1>5. CASE \/ \E b \in Batches : BatchReply(b) \/ BatchFails(b)
           \/ \E reply \in replies : HandleLog(reply)
  BY <1>5, HistUntouched DEF BatchReply, BatchFails, HandleLog, walkVars
<1>6. CASE LogsFetchFails \/ DecodeFails \/ HandleLogFails \/ SaveProcessedFails
  BY <1>6, HistQuiet DEF LogsFetchFails, DecodeFails, HandleLogFails, SaveProcessedFails,
                         LogsHandled, Return, Undoing
<1>7. CASE WalkFails \/ WalkOrphan \/ WalkMatch \/ WalkExhausted \/ SettleFails
  BY <1>7, HistQuiet DEF WalkFails, WalkOrphan, WalkMatch, WalkExhausted, SettleFails, Return, Undoing
<1>8. CASE WalkMissing
  <2> DEFINE found == RecordOf(GetBlockByNumber(parentNum), ClientChainId)
  <2>1. /\ Store!SaveBlock(found) /\ AnchorAt(found) /\ pc = "walking" /\ pc' = "settling"
    BY <1>8 DEF WalkMissing, Fails, FinalSetting, PlainSetting
  <2>2. found \in BlockRecord /\ found.chainId # ChainId
    BY FetchedBlock, RecordOfBlock, ConfigAssumption
       DEF BaseInv, TypeInv, TypeOK, FinalSetting, PlainSetting, RecordOf
  <2> HIDE DEF found
  <2>3. /\ Processed' = Processed
        /\ \A s : s.chainId = ChainId => (s \in blocks' <=> s \in blocks)
    BY <2>1, <2>2, SavedElsewhere DEF BaseInv
  <2>4. Top' = Top /\ Slack = 0 /\ Slack' = 0
    BY <2>1, <2>3 DEF Top, Slack, Undoing
  <2> QED
    BY <2>3, <2>4, HistKept
<1>9. CASE UndoFails
  <2>1. blocks' = {}
    BY <1>9 DEF UndoFails, StoreFails, Fails, FinalSetting, PlainSetting, BaseInv, LinkInv,
                StoreInv, storeVars
  <2> QED
    BY <2>1, HistEmpty
<1>10. CASE Report
  <2>1. /\ Top' = Top /\ Slack = 0 /\ Slack' = 0 /\ blocks' = blocks
    BY <1>10 DEF Report, Top, Slack, Undoing, Processed, storeVars, walkVars
  <2> QED
    BY <2>1, HistKept
<1> QED
  BY <1>1, <1>2, <1>3, <1>4, <1>5, <1>6, <1>7, <1>8, <1>9, <1>10,
     HistStartAnchor, HistSaveProcessed, HistPrune, HistSettle, HistUndo
     DEF Next, Start, ProcessNextBlock, ProcessBlockLogs, ReconcileReorg

\* BlockHistorySize bounds the records kept, one more between a save and its prune
\* (evmChainPoller.go:322), on a chain whose blocks become final: no rewind, null
\* answer, failed call or restart leaves records that the pruning no longer meets,
\* because a search never ends without the record it stopped at and every orphan
\* is deleted before the next block is fetched (evmChainPoller.go:469, 536).
THEOREM HistoryStaysBounded ==
    ASSUME FinalSetting(Final), HistorySetting
    PROVE  Spec => []HistoryBounded
<1> DEFINE Inv == BaseInv /\ TipInv /\ HistInv /\ \E c \in Chains : RecordsOn(c)
<1>1. Init => Inv
  <2> SUFFICES ASSUME Init PROVE Inv
    OBVIOUS
  <2>1. BaseInv /\ canon \in Chains
    BY TypeInit, LinkInit, IndexInit DEF BaseInv, Init
  <2>2. HistInv
    BY DEF Init, Store!New, HistInv
  <2> QED
    BY <2>1, <2>2, TipInit
<1>2. Inv /\ [Next]_vars => Inv'
  BY BaseStep, TipStep, HistStep
<1>3. Inv => HistoryBounded
  <2> SUFFICES ASSUME Inv, NEW r \in blocks, NEW s \in blocks,
                      r.chainId = ChainId, s.chainId = ChainId
               PROVE  s.number - r.number < BlockHistorySize + Slack
    BY DEF HistoryBounded, Slack
  <2>1. s.number <= Top /\ r.number > Top - BlockHistorySize - Slack
    BY DEF HistInv
  <2> QED
    BY <2>1, HistTypes
<1> QED
  BY <1>1, <1>2, <1>3, PTL DEF Spec

-----------------------------------------------------------------------------
(* What the handler holds is a chain *)

Handing == {"fetching", "logs", "pruning"}

\* A block that is n-th on c, with its parent.
On(b, c) ==
    /\ 0 < b.number /\ b.number < Len(c)
    /\ b.hash = c[b.number + 1] /\ b.parentHash = c[b.number]

\* The handler holds blocks of the witness chain, none above the parent in hand but
\* the block that is being processed, and none above the highest record, or at it once
\* that has been reported.
ViewOn(c) ==
    /\ fetchErr = FALSE
    /\ \A b \in view : On(b, c)
    /\ ~closed /\ Processed = Store!NoBlock => view = {}
    /\ pc \in {"fetching", "logs"} =>
          /\ last.number < Len(c) /\ last.hash = c[last.number + 1]
          /\ \A b \in view : b.number <= last.number \/ (pc = "logs" /\ b = block)
    /\ pc = "pruning" =>
          /\ block.number < Len(c) /\ block.hash = c[block.number + 1]
          /\ \A b \in view : b.number <= block.number
    /\ ~closed /\ pc \notin Handing => \A b \in view : b.number <= Top
    /\ ~closed /\ pc = "deleting" => \A b \in view : b.number # orphans[1].number

\* The handler holds nothing yet.
LEMMA ViewInit ==
    ASSUME Init, NEW c
    PROVE  ViewOn(c)
BY DEF Init, Store!New, ViewOn

\* A step that hands nothing over while no block is in hand.
LEMMA ViewQuiet ==
    ASSUME NEW c, ViewOn(c), pc \notin Handing, pc' \notin Handing, pc' # "deleting", view' = view, fetchErr' = FALSE,
           ~closed' => /\ ~closed /\ Top' = Top
                       /\ Processed' = Store!NoBlock => Processed = Store!NoBlock
    PROVE  ViewOn(c)'
BY DEF ViewOn, On, Handing

\* A step that touches nothing ViewOn is about.
LEMMA ViewUntouched ==
    ASSUME NEW c, ViewOn(c),
           UNCHANGED <<storeVars, pc, last, block, orphans, view, fetchErr>>
    PROVE  ViewOn(c)'
<1>1. Top' = Top /\ Processed' = Processed /\ closed' = closed
  BY DEF Top, Processed, storeVars
<1> QED
  BY <1>1 DEF ViewOn, On, Handing

\* The view while the world moves.
LEMMA ViewEnvironment ==
    ASSUME ViewSetting, NEW c, ViewOn(c), Environment
    PROVE  ViewOn(c)'
<1>1. CASE ChainMoves \/ Cancel
  BY <1>1, ViewUntouched DEF ChainMoves, Cancel, loopVars, logVars, walkVars, handlerVars
<1>2. CASE CloseStore
  <2>1. closed' /\ UNCHANGED <<pc, last, block, view, fetchErr>>
    BY <1>2 DEF CloseStore, Store!Close, loopVars, logVars, handlerVars
  <2> QED
    BY <2>1 DEF ViewOn, On, Handing
<1>3. ~Crash
  BY DEF Crash, Fails, ViewSetting
<1> QED
  BY <1>1, <1>2, <1>3 DEF Environment

\* The view through Start: a start block is saved for a handler that holds nothing.
LEMMA ViewStart ==
    ASSUME FinalSetting(Final), BaseInv, TipInv, NEW c, ViewOn(c), Start
    PROVE  /\ ~StartAnchor => ViewOn(c)'
           /\ StartAnchor => \A d : ViewOn(d)'
<1>1. CASE StartResume \/ StartFresh \/ StartFails
  <2>1. /\ pc \notin Handing /\ pc' \notin Handing /\ view' = view /\ fetchErr' = FALSE
        /\ UNCHANGED storeVars /\ pc \notin Undoing /\ pc' \notin Undoing
    BY <1>1 DEF StartResume, StartFresh, StartFails, LocalsDropped, ViewOn, Handing, Undoing, logVars,
                handlerVars
  <2>2. Top' = Top /\ closed' = closed /\ Processed' = Processed
    BY <2>1 DEF Top, Processed, storeVars
  <2>3. ViewOn(c)'
    BY <2>1, <2>2, ViewQuiet DEF Undoing
  <2>4. ~StartAnchor
    BY <1>1 DEF StartResume, StartFresh, StartFails, StartAnchor, Return
  <2> QED
    BY <2>3, <2>4
<1>2. CASE StartAnchor
  <2>1. /\ pc = "starting" /\ ~closed /\ pc' = "waiting" /\ view' = view /\ fetchErr' = FALSE
    BY <1>2 DEF StartAnchor, Store!SaveBlock, Return, LocalsDropped, handlerVars
  <2>2. view' = {}
    BY <2>1 DEF TipInv, BottomInv, ViewOn
  <2> QED
    BY <1>2, <2>1, <2>2 DEF ViewOn, Handing
<1> QED
  BY <1>1, <1>2 DEF Start

\* A fetch begins with the last processed record as the parent in hand.
LEMMA ViewTick ==
    ASSUME BaseInv, TipInv, NEW c, RecordsOn(c), ViewOn(c), Tick
    PROVE  ViewOn(c)'
<1>1. /\ pc = "waiting" /\ pc' = "fetching" /\ last' \in LastRecord
      /\ UNCHANGED <<storeVars, view, fetchErr>>
  BY DEF Tick, logVars, handlerVars
<1>2. last' \in blocks /\ last'.chainId = ChainId /\ last'.number = Processed /\ ~closed
  BY <1>1 DEF LastRecord, Store!GetLastProcessedBlock, Store!GetBlock, Store!HasKey, Processed,
              BaseInv, LinkInv, StoreInv
<1>3. last'.number \in Nat
  BY <1>2, IndexTypes DEF BaseInv
<1>4. PICK r \in blocks : r = last'
  BY <1>2
<1>5. last'.number < Len(c) /\ last'.hash = c[last'.number + 1]
  BY <1>2, <1>3, <1>4, StoredOn
<1>6. \A b \in view' : b.number <= last'.number
  BY <1>1, <1>2 DEF Undoing, ViewOn, Handing, Top
<1>7. Processed' = Processed /\ Processed # Store!NoBlock
  BY <1>1, <1>2, <1>3 DEF Processed, storeVars, Store!NoBlock
<1> QED
  BY <1>1, <1>5, <1>6, <1>7 DEF ViewOn, On, Handing

\* A fetch that fails, or finds a reorg, hands nothing over.
LEMMA ViewFetchEnds ==
    ASSUME BaseInv, NEW c, ViewOn(c), FetchFails \/ FetchReorg
    PROVE  ViewOn(c)'
<1>1. /\ pc = "fetching" /\ pc' \in {"waiting", "walking"} /\ UNCHANGED <<storeVars, view>>
      /\ fetchErr' = FALSE
  BY DEF FetchFails, FetchReorg, Return, LocalsDropped, handlerVars, logVars, ViewOn
<1>2. ~closed => last.number = Processed
  BY <1>1 DEF BaseInv, LinkInv, ParentInv
<1>3. Top' = Processed /\ Processed' = Processed /\ closed' = closed
  BY <1>1 DEF Undoing, Top, Processed, storeVars
<1> QED
  BY <1>1, <1>2, <1>3 DEF ViewOn, On, Handing

\* A block is handed over: it and all that the handler holds are on the chain shown.
LEMMA ViewFetchAccept ==
    ASSUME FinalSetting(Final), BaseInv, TipInv, NEW c \in Chains, RecordsOn(c), ViewOn(c),
           NEW d \in Chains, d = canon, FetchAccept
    PROVE  ViewOn(d)'
<1> DEFINE new == GetBlockByNumber(blockNum)
<1>1. /\ pc = "fetching" /\ pc' = "logs" /\ block' = new
      /\ view' \subseteq view \cup {new} /\ UNCHANGED <<storeVars, last, fetchErr>>
  BY DEF FetchAccept
<1>2. blockNum < Len(d) /\ blockNum \in Nat /\ blockNum > 0 /\ last.hash = d[blockNum]
  BY TipFetchAccept
<1>3. blockNum = last.number + 1 /\ last.number \in Nat /\ (~closed => last.number = Processed)
  BY <1>1 DEF BaseInv, TypeInv, TypeOK, LinkInv, ParentInv, BlockRecord, Uint64
<1>4. On(new, d) /\ new.number = blockNum
  BY <1>2 DEF On, GetBlockByNumber
<1> HIDE DEF new
<1>5. last.number < Len(c) /\ last.hash = c[last.number + 1]
  BY <1>1 DEF ViewOn
<1>6. Len(c) \in Nat /\ Len(d) \in Nat
  BY ChainFacts
<1>7. \A m \in 1 .. last.number + 1 : c[m] = d[m]
  <2>1. /\ last.number + 1 \in Nat /\ 1 <= last.number + 1
        /\ last.number + 1 <= Len(c) /\ last.number + 1 <= Len(d)
    BY <1>2, <1>3, <1>5, <1>6
  <2>2. c[last.number + 1] = d[last.number + 1]
    BY <1>2, <1>3, <1>5
  <2> QED
    BY <2>1, <2>2, SameAncestors
<1>8. ASSUME NEW b \in view
      PROVE  On(b, d) /\ b.number <= last.number
  <2>1. On(b, c) /\ b.number <= last.number
    BY <1>1 DEF ViewOn
  <2>2. b.number \in Nat
    BY DEF BaseInv, TypeInv, TypeOK, Block, Uint64
  <2>3. b.number \in 1 .. last.number + 1 /\ b.number + 1 \in 1 .. last.number + 1 /\ b.number < Len(d)
    BY <1>2, <1>3, <1>6, <2>1, <2>2 DEF On
  <2> QED
    BY <1>7, <2>1, <2>3 DEF On
<1>9. \A b \in view' : On(b, d) /\ (b.number <= last.number \/ b = new)
  BY <1>1, <1>4, <1>8
<1>10. last.number < Len(d) /\ last.hash = d[last.number + 1]
  BY <1>2, <1>3, <1>6
<1>11. ~closed => Processed # Store!NoBlock
  BY <1>3 DEF Store!NoBlock
<1>12. closed' = closed /\ Processed' = Processed /\ last' = last /\ fetchErr' = FALSE
  BY <1>1 DEF storeVars, Processed, ViewOn
<1> QED
  BY <1>1, <1>9, <1>10, <1>11, <1>12 DEF ViewOn, On, Handing

\* The view through processBlockLogs: with no failing batch, decoder or log handler
\* every block that was handed over is saved, or the store is closed.
LEMMA ViewProcessBlockLogs ==
    ASSUME FinalSetting(Final), ViewSetting, BaseInv, TipInv, NEW c \in Chains, RecordsOn(c),
           ViewOn(c), ProcessBlockLogs
    PROVE  ViewOn(c)'
<1>1. CASE \/ \E b \in Batches : BatchReply(b) \/ BatchFails(b)
           \/ \E reply \in replies : HandleLog(reply)
  <2>1. UNCHANGED <<storeVars, pc, last, block, orphans, view, fetchErr>>
    BY <1>1 DEF BatchReply, BatchFails, HandleLog, Fails, ViewSetting, loopVars, walkVars, handlerVars
  <2> QED
    BY <2>1, ViewUntouched
<1>2. ~LogsFetchFails /\ ~DecodeFails /\ ~HandleLogFails
  BY DEF LogsFetchFails, DecodeFails, HandleLogFails, Fails, ViewSetting, ViewOn
<1>3. CASE SaveProcessed \/ SaveProcessedFails
  <2>1. /\ pc = "logs" /\ pc' = "pruning" /\ UNCHANGED <<block, view, fetchErr>>
    BY <1>3 DEF SaveProcessed, SaveProcessedFails, LogsHandled, loopVars, logVars, handlerVars
  <2>2. block.number < Len(c) /\ block.hash = c[block.number + 1]
    BY <2>1 DEF RecordsOn
  <2>3. block.number = last.number + 1 /\ last.number \in Nat
    BY <2>1 DEF BaseInv, TypeInv, TypeOK, LinkInv, ParentInv, BlockInv, BlockRecord, Uint64
  <2>4. \A b \in view : b.number <= block.number
    <3> SUFFICES ASSUME NEW b \in view PROVE b.number <= block.number
      OBVIOUS
    <3>1. b.number \in Nat
      BY DEF BaseInv, TypeInv, TypeOK, Block, Uint64
    <3>2. b.number <= last.number \/ b = block
      BY <2>1 DEF ViewOn
    <3> QED
      BY <2>3, <3>1, <3>2
  <2>5. ~closed' => Processed' # Store!NoBlock
    <3>1. CASE SaveProcessed
      <4>1. Processed' = Processed + 1 /\ Processed \in Nat
        BY <2>1, <3>1, TipSaveProcessed, LastOn DEF SaveProcessed, Store!SaveBlock
      <4> QED
        BY <4>1 DEF Store!NoBlock
    <3>2. CASE SaveProcessedFails
      BY <3>2 DEF SaveProcessedFails, StoreFails, Fails, ViewSetting, storeVars
    <3> QED
      BY <1>3, <3>1, <3>2
  <2> QED
    BY <2>1, <2>2, <2>4, <2>5 DEF ViewOn, On, Handing
<1>4. CASE Prune \/ PruneSkips
  <2>1. /\ pc = "pruning" /\ Advance /\ UNCHANGED <<closed, lastProcessedBlocks, view>>
    BY <1>4 DEF Prune, PruneSkips, Store!DeleteBlock, storeVars, handlerVars
  <2>2. /\ block.number < Len(c) /\ block.hash = c[block.number + 1]
        /\ \A b \in view : b.number <= block.number
    BY <2>1 DEF ViewOn
  <2>3. ~closed => block.number = Processed
    BY <2>1 DEF BaseInv, LinkInv, BlockInv
  <2>4. Processed' = Processed
    BY <2>1 DEF Processed
  <2>5. CASE blockNum < target
    <3>1. last' = RecordOf(block, ChainId) /\ pc' = "fetching" /\ fetchErr' = fetchErr
      BY <2>1, <2>5 DEF Advance, logVars
    <3>2. last'.number = block.number /\ last'.hash = block.hash
      BY <3>1 DEF RecordOf
    <3> QED
      BY <2>1, <2>2, <2>4, <3>1, <3>2 DEF ViewOn, On, Handing
  <2>6. CASE ~(blockNum < target)
    <3>1. pc' = "waiting" /\ fetchErr' = FALSE
      BY <2>1, <2>6 DEF Advance, Return, LocalsDropped
    <3>2. Top' = Processed
      BY <2>4, <3>1 DEF Undoing, Top
    <3> QED
      BY <2>1, <2>2, <2>3, <2>4, <3>1, <3>2 DEF ViewOn, On, Handing
  <2> QED
    BY <2>5, <2>6
<1> QED
  BY <1>1, <1>2, <1>3, <1>4 DEF ProcessBlockLogs

\* The view through a reorg: every orphan is retracted, highest first.
LEMMA ViewReconcileReorg ==
    ASSUME FinalSetting(Final), ViewSetting, BaseInv, TipInv, NEW c \in Chains, RecordsOn(c),
           ViewOn(c), ReconcileReorg
    PROVE  ViewOn(c)'
<1>1. CASE WalkFails \/ WalkOrphan \/ WalkMatch \/ WalkExhausted \/ SettleFails
  <2>1. /\ pc \in {"walking", "settling"} /\ pc' \in {"walking", "settling", "waiting"}
        /\ view' = view /\ fetchErr' = FALSE /\ UNCHANGED storeVars
    BY <1>1 DEF WalkFails, WalkOrphan, WalkMatch, WalkExhausted, SettleFails, Return, LocalsDropped,
                ViewOn, logVars, handlerVars
  <2>2. Top' = Top /\ closed' = closed /\ Processed' = Processed
    BY <2>1 DEF Top, Undoing, Processed, storeVars
  <2> QED
    BY <2>1, <2>2, ViewQuiet DEF Handing
<1>2. CASE WalkMissing
  <2> DEFINE found == RecordOf(GetBlockByNumber(parentNum), ClientChainId)
  <2>1. /\ Store!SaveBlock(found) /\ AnchorAt(found) /\ pc = "walking" /\ pc' = "settling"
        /\ view' = view /\ fetchErr' = FALSE
    BY <1>2 DEF WalkMissing, Fails, FinalSetting, PlainSetting, ViewOn, logVars, handlerVars
  <2>2. found \in BlockRecord /\ found.chainId # ChainId
    BY FetchedBlock, RecordOfBlock, ConfigAssumption
       DEF BaseInv, TypeInv, TypeOK, FinalSetting, PlainSetting, RecordOf
  <2> HIDE DEF found
  <2>3. Processed' = Processed /\ ~closed
    BY <2>1, <2>2, SavedElsewhere DEF BaseInv
  <2>4. Top' = Top
    BY <2>1, <2>3 DEF Top, Undoing
  <2> QED
    BY <2>1, <2>3, <2>4, ViewQuiet DEF Handing
<1>3. CASE Settle
  <2>1. view' = view /\ fetchErr' = FALSE
    BY <1>3 DEF Settle, Return, LocalsDropped, ViewOn, logVars, handlerVars
  <2>2. /\ Top' = Top /\ pc = "settling" /\ pc' \in {"undoing", "waiting"} /\ ~closed
        /\ Processed' = Store!NoBlock => Processed = Store!NoBlock
    BY <1>3, SettleTop
  <2> QED
    BY <2>1, <2>2, ViewQuiet DEF Handing
<1>4. CASE Report
  <2>1. /\ view' = {b \in view : b.number # orphans[1].number} /\ fetchErr' = FALSE
        /\ pc = "undoing" /\ pc' = "deleting" /\ UNCHANGED <<storeVars, orphans>>
    BY <1>4 DEF Report, HandleReorgBlock, ViewOn, logVars, walkVars, BaseInv, TypeInv, TypeOK
  <2>2. Top' = Top /\ closed' = closed /\ Processed' = Processed
    BY <2>1 DEF Top, Undoing, Processed, storeVars
  <2> QED
    BY <2>1, <2>2 DEF ViewOn, On, Handing
<1>5. CASE Undo
  <2>1. view' = view /\ fetchErr' = FALSE
    BY <1>5 DEF Undo, Undone, Return, LocalsDropped, ViewOn, logVars, handlerVars
  <2>2. /\ Top \in Int /\ Top = orphans[1].number /\ Top' = Top - 1
        /\ pc = "deleting" /\ pc' \in {"undoing", "waiting"}
    BY <1>5, UndoTop
  <2>3. ~closed /\ closed' = closed /\ Processed' = Processed
    BY <1>5, UndoAbove
  <2>4. ASSUME NEW b \in view'
        PROVE  b.number <= Top'
    <3>1. b.number \in Nat
      BY <2>1 DEF BaseInv, TypeInv, TypeOK, Block, Uint64
    <3>2. b.number <= Top /\ b.number # Top
      BY <2>1, <2>2, <2>3 DEF ViewOn, Handing
    <3> QED
      BY <2>2, <3>1, <3>2
  <2> QED
    BY <2>1, <2>2, <2>3, <2>4 DEF ViewOn, On, Handing
<1>6. CASE UndoFails
  <2>1. closed' /\ pc' = "waiting" /\ view' = view /\ fetchErr' = FALSE
    BY <1>6 DEF UndoFails, StoreFails, Fails, ViewSetting, Return, LocalsDropped, storeVars,
                handlerVars
  <2> QED
    BY <2>1 DEF ViewOn, On, Handing
<1> QED
  BY <1>1, <1>2, <1>3, <1>4, <1>5, <1>6 DEF ReconcileReorg

\* There is one witness chain for the records and the handler before every step and
\* after it.
LEMMA ViewStep ==
    ASSUME FinalSetting(Final), ViewSetting, BaseInv, TipInv, NEW c \in Chains, RecordsOn(c),
           ViewOn(c), [Next]_vars
    PROVE  TipInv' /\ \E d \in Chains : RecordsOn(d)' /\ ViewOn(d)'
<1>1. PICK d \in Chains : d = canon
  BY DEF BaseInv, TypeInv, TypeOK
<1>2. CASE StartAnchor
  <2>1. TipInv' /\ RecordsOn(d)'
    BY <1>1, <1>2, TipStartAnchor
  <2>2. ViewOn(d)'
    BY <1>2, ViewStart DEF Start
  <2> QED
    BY <2>1, <2>2
<1>3. CASE FetchAccept
  BY <1>1, <1>3, TipFetchAccept, ViewFetchAccept
<1>4. CASE ~StartAnchor /\ ~FetchAccept
  <2>1. TipInv' /\ RecordsOn(c)'
    BY <1>4, TipStepKeeps
  <2>2. CASE LoopExits
    <3>1. /\ pc = "waiting" /\ pc' = "stopped" /\ view' = view /\ fetchErr' = FALSE
          /\ UNCHANGED storeVars
      BY <2>2 DEF LoopExits, ViewOn, logVars, handlerVars
    <3>2. Top' = Top /\ closed' = closed /\ Processed' = Processed
      BY <3>1 DEF Top, Undoing, Processed, storeVars
    <3>3. ViewOn(c)'
      BY <3>1, <3>2, ViewQuiet DEF Handing
    <3> QED
      BY <2>1, <3>3
  <2>3. CASE TickSkips \/ UNCHANGED vars
    <3>1. ViewOn(c)'
      BY <2>3, ViewUntouched DEF TickSkips, vars, loopVars, logVars, walkVars, handlerVars
    <3> QED
      BY <2>1, <3>1
  <2>4. CASE Environment \/ Start \/ Tick \/ FetchFails \/ FetchReorg \/ ProcessBlockLogs
             \/ ReconcileReorg
    <3>1. ViewOn(c)'
      BY <1>4, <2>4, ViewEnvironment, ViewStart, ViewTick, ViewFetchEnds, ViewProcessBlockLogs,
         ViewReconcileReorg
    <3> QED
      BY <2>1, <3>1
  <2> QED
    BY <1>4, <2>2, <2>3, <2>4 DEF Next, ProcessNextBlock
<1> QED
  BY <1>2, <1>3, <1>4

\* The invariant that both theorems about the handler rest on.
LEMMA ViewInvariant ==
    ASSUME FinalSetting(Final), ViewSetting
    PROVE  Spec => [](BaseInv /\ TipInv /\ \E c \in Chains : RecordsOn(c) /\ ViewOn(c))
<1> DEFINE Inv == BaseInv /\ TipInv /\ \E c \in Chains : RecordsOn(c) /\ ViewOn(c)
<1>1. Init => Inv
  <2> SUFFICES ASSUME Init PROVE Inv
    OBVIOUS
  <2>1. BaseInv /\ canon \in Chains
    BY TypeInit, LinkInit, IndexInit DEF BaseInv, Init
  <2> QED
    BY <2>1, TipInit, ViewInit
<1>2. Inv /\ [Next]_vars => Inv'
  BY BaseStep, ViewStep
<1> QED
  BY <1>1, <1>2, PTL DEF Spec

\* What the handler holds is one chain at every moment, also half way through a
\* reorg and with calls that fail or a store that is closed under the poller: no two
\* blocks of one height, neighbours are parent and child (evmChainPoller.go:233, 466).
\* It needs final blocks, a process that lives on and every block that is handed over
\* to be recorded.
THEOREM HandlerHoldsAChain ==
    ASSUME FinalSetting(Final), ViewSetting
    PROVE  Spec => []ViewIsChain
<1>1. BaseInv /\ (\E c \in Chains : RecordsOn(c) /\ ViewOn(c)) => ViewIsChain
  <2> SUFFICES ASSUME BaseInv, NEW c \in Chains, ViewOn(c), NEW b \in view, NEW d \in view
               PROVE  /\ b.number = d.number => b = d
                      /\ d.number = b.number + 1 => d.parentHash = b.hash
    BY DEF ViewIsChain
  <2>1. On(b, c) /\ On(d, c) /\ b \in Block /\ d \in Block
    BY DEF ViewOn, BaseInv, TypeInv, TypeOK
  <2>2. ASSUME b.number = d.number
        PROVE  b = d
    BY <2>1, <2>2 DEF On, Block
  <2> QED
    BY <2>1, <2>2 DEF On
<1> QED
  BY <1>1, ViewInvariant, PTL

\* Between two polls the handler holds nothing above the last processed block and
\* agrees with every record: each retracted block was reported through
\* HandleReorgBlock (evmChainPoller.go:467), also when requests or the block handler
\* failed in between.
THEOREM HandlerAgreesWithRecords ==
    ASSUME FinalSetting(Final), ViewSetting
    PROVE  Spec => []ViewMatchesRecords
<1>1. /\ BaseInv /\ TipInv
      /\ \E c \in Chains : RecordsOn(c) /\ ViewOn(c)
      => ViewMatchesRecords
  <2> SUFFICES ASSUME BaseInv, NEW c \in Chains, RecordsOn(c), ViewOn(c),
                      pc = "waiting", ~closed, NEW b \in view
               PROVE  /\ b.number <= lastProcessedBlocks[ChainId]
                      /\ \A r \in Index : r.number = b.number => r.hash = b.hash
    BY DEF ViewMatchesRecords
  <2>1. b.number <= Processed /\ On(b, c)
    BY DEF ViewOn, Handing, Top, Undoing
  <2>2. Processed # Store!NoBlock
    BY DEF ViewOn
  <2>3. \A r \in Index : r.hash = c[r.number + 1]
    BY <2>2 DEF RecordsOn
  <2> QED
    BY <2>1, <2>3 DEF On, Processed
<1> QED
  BY <1>1, ViewInvariant, PTL

-----------------------------------------------------------------------------
(* The logs the handler holds are those of their blocks *)

\* The logs came from the block they are handed over for, or that block has left the
\* chain for good.
FromBlock(hash, from) == from = hash \/ hash \in Left[canon]

\* So it is with the answers in hand and the logs handed over; the block in hand is
\* on the chain shown, or has left it.
LogInv ==
    /\ pc # "logs" => replies = {}
    /\ pc = "logs" => block.hash \in HashesOf(canon) \cup Left[canon]
    /\ \A reply \in replies : FromBlock(block.hash, reply.from)
    /\ \A l \in logged : FromBlock(l.block.hash, l.from)

\* A step outside the handling of a block's logs, that hands over no log.
LEMMA LogQuiet ==
    ASSUME LogInv, pc' # "logs", replies' = {}, logged' \subseteq logged, canon' = canon
    PROVE  LogInv'
BY DEF LogInv, FromBlock

\* A block that leaves the chain does so for good.
LEMMA LogChainMoves ==
    ASSUME NoReturn(Left), canon \in Chains, LogInv, ChainMoves
    PROVE  LogInv'
<1>1. PICK d \in Chains : <<canon, d>> \in Moves /\ canon' = d
  BY DEF ChainMoves
<1>2. Left[canon] \cup (HashesOf(canon) \ HashesOf(d)) \subseteq Left[d]
  <2> DEFINE m == <<canon, d>>
  <2>1. m \in Moves /\ m[1] = canon /\ m[2] = d
    BY <1>1
  <2> HIDE DEF m
  <2> QED
    BY <2>1 DEF NoReturn
<1>3. UNCHANGED <<pc, block, replies, logged>>
  BY DEF ChainMoves, loopVars, logVars, handlerVars
<1>4. HashesOf(canon) \cup Left[canon] \subseteq HashesOf(canon') \cup Left[canon']
  BY <1>1, <1>2
<1>5. \A hash, from : FromBlock(hash, from) => from = hash \/ hash \in Left[canon']
  BY <1>1, <1>2 DEF FromBlock
<1>6. /\ pc' # "logs" => replies' = {}
      /\ pc' = "logs" => block'.hash \in HashesOf(canon') \cup Left[canon']
  BY <1>3, <1>4 DEF LogInv
<1>7. \A reply \in replies' : reply.from = block'.hash \/ block'.hash \in Left[canon']
  BY <1>3, <1>5 DEF LogInv
<1>8. \A l \in logged' : l.from = l.block.hash \/ l.block.hash \in Left[canon']
  BY <1>3, <1>5 DEF LogInv
<1>9. HashesOf(canon)' = HashesOf(canon')
  BY DEF HashesOf
<1> QED
  BY <1>6, <1>7, <1>8, <1>9 DEF LogInv, FromBlock

\* The fetched block is on the chain shown, and no answer is in hand.
LEMMA LogFetchAccept ==
    ASSUME BaseInv, LogInv, FetchAccept
    PROVE  LogInv'
<1> DEFINE new == GetBlockByNumber(blockNum)
<1>1. /\ pc = "fetching" /\ pc' = "logs" /\ new.parentHash = last.hash /\ block' = new
      /\ UNCHANGED <<canon, replies, logged>>
  BY DEF FetchAccept
<1>2. blockNum \in Uint64 /\ last.hash # NoHash /\ canon \in Chains
  BY <1>1 DEF BaseInv, TypeInv, TypeOK, LinkInv, ParentInv
<1>3. blockNum < Len(canon)
  BY <1>1, <1>2 DEF GetBlockByNumber, NullBlock
<1>4. new.hash = canon[blockNum + 1]
  BY <1>3 DEF GetBlockByNumber
<1>5. blockNum + 1 \in 1 .. Len(canon)
  BY <1>2, <1>3, ChainAssumption, ConfigAssumption DEF Uint64
<1>6. block'.hash \in HashesOf(canon)'
  BY <1>1, <1>4, <1>5 DEF HashesOf
<1> QED
  BY <1>1, <1>6 DEF LogInv, FromBlock

\* An answer has the logs of the block in hand, unless that block has left the chain.
LEMMA LogBatchReply ==
    ASSUME FinalSetting(Final), BaseInv, NEW c \in Chains, RecordsOn(c), LogInv,
           NEW b \in Batches, BatchReply(b)
    PROVE  LogInv'
<1> DEFINE rep == [batch |-> b, from |-> LogsAt(block.number)]
<1>1. /\ pc = "logs" /\ replies' = replies \cup {rep} /\ UNCHANGED <<canon, pc, block, logged>>
  BY DEF BatchReply, loopVars, handlerVars
<1>2. /\ block.number < Len(c) /\ block.hash = c[block.number + 1]
      /\ block.number \in Nat /\ Len(c) \in Nat /\ canon \in Chains /\ Len(canon) \in Nat
  BY <1>1, ChainFacts DEF RecordsOn, BaseInv, TypeInv, TypeOK, Block, Uint64
<1>3. FromBlock(block.hash, LogsAt(block.number))
  <2>1. CASE block.hash \in Left[canon]
    BY <2>1 DEF FromBlock
  <2>2. CASE block.hash \in HashesOf(canon)
    <3>1. PICK n \in 1 .. Len(canon) : block.hash = canon[n]
      BY <2>2 DEF HashesOf
    <3>2. block.number + 1 \in 1 .. Len(c)
      BY <1>2
    <3>3. block.number + 1 = n
      BY <1>2, <3>1, <3>2, SameHeight
    <3>4. LogsAt(block.number) = canon[n]
      BY <1>2, <3>1, <3>3 DEF LogsAt
    <3> QED
      BY <3>1, <3>4 DEF FromBlock
  <2> QED
    BY <1>1, <2>1, <2>2 DEF LogInv
<1>4. \A reply \in replies' : FromBlock(block.hash, reply.from)
  BY <1>1, <1>3 DEF LogInv
<1> QED
  BY <1>1, <1>4 DEF LogInv, FromBlock, HashesOf

\* A log is handed over as it was answered.
LEMMA LogHandleLog ==
    ASSUME LogInv, NEW reply \in replies, HandleLog(reply)
    PROVE  LogInv'
<1> DEFINE new == [block |-> block, batch |-> reply.batch, from |-> reply.from]
<1>1. /\ logged' = logged \cup {new} /\ replies' = replies \ {reply}
      /\ UNCHANGED <<canon, pc, block>>
  BY DEF HandleLog, loopVars
<1>2. FromBlock(new.block.hash, new.from)
  BY DEF LogInv
<1>3. \A l \in logged' : FromBlock(l.block.hash, l.from)
  BY <1>1, <1>2 DEF LogInv
<1> QED
  BY <1>1, <1>3 DEF LogInv, FromBlock, HashesOf

\* LogInv through every step.
LEMMA LogStep ==
    ASSUME FinalSetting(Final), NoReturn(Left), BaseInv, NEW c \in Chains, RecordsOn(c), LogInv,
           [Next]_vars
    PROVE  LogInv'
<1>1. CASE ChainMoves
  BY <1>1, LogChainMoves DEF BaseInv, TypeInv, TypeOK
<1>2. CASE CloseStore \/ Cancel \/ TickSkips \/ UNCHANGED vars
  <2>1. UNCHANGED <<canon, pc, block, replies, logged>>
    BY <1>2 DEF CloseStore, Cancel, TickSkips, vars, loopVars, logVars, handlerVars
  <2> QED
    BY <2>1 DEF LogInv, FromBlock, HashesOf
<1>3. CASE Crash \/ StartFails \/ StartAnchor \/ FetchFails
  BY <1>3, LogQuiet DEF Crash, StartFails, StartAnchor, FetchFails, Return, LocalsDropped, handlerVars
<1>4. CASE StartResume \/ StartFresh \/ LoopExits \/ Tick \/ FetchReorg
  <2>1. /\ pc # "logs" /\ pc' # "logs" /\ UNCHANGED <<canon, replies, logged>>
    BY <1>4 DEF StartResume, StartFresh, LoopExits, Tick, FetchReorg, logVars, handlerVars
  <2> QED
    BY <2>1, LogQuiet DEF LogInv
<1>5. CASE \E b \in Batches : BatchFails(b)
  <2>1. UNCHANGED <<canon, pc, block, replies, logged>>
    BY <1>5 DEF BatchFails, loopVars, handlerVars
  <2> QED
    BY <2>1 DEF LogInv, FromBlock, HashesOf
<1>6. CASE LogsFetchFails \/ DecodeFails \/ HandleLogFails
  BY <1>6, LogQuiet DEF LogsFetchFails, DecodeFails, HandleLogFails, Return, LocalsDropped, handlerVars
<1>7. CASE SaveProcessed \/ SaveProcessedFails
  <2>1. pc' # "logs" /\ replies' = {} /\ UNCHANGED <<canon, logged>>
    BY <1>7 DEF SaveProcessed, SaveProcessedFails, LogsHandled, logVars, handlerVars
  <2> QED
    BY <2>1, LogQuiet
<1>8. CASE Prune \/ PruneSkips
  <2>1. pc = "pruning" /\ Advance /\ UNCHANGED <<canon, logged>>
    BY <1>8 DEF Prune, PruneSkips, handlerVars
  <2>2. pc' # "logs" /\ replies' = {}
    BY <2>1 DEF Advance, Return, LocalsDropped, logVars, LogInv
  <2> QED
    BY <2>1, <2>2, LogQuiet
<1>9. CASE ReconcileReorg
  <2>1. pc \in Searching /\ pc' # "logs" /\ canon' = canon /\ logged' \subseteq logged
    BY <1>9 DEF ReconcileReorg, WalkFails, WalkOrphan, WalkMatch, WalkMissing, WalkExhausted, Settle,
                SettleFails, Report, Undo, Undone, UndoFails, HandleReorgBlock, Return, handlerVars,
                Searching
  <2>2. replies = {}
    BY <2>1 DEF LogInv, Searching
  <2>3. replies' = {}
    BY <1>9, <2>2
       DEF ReconcileReorg, WalkFails, WalkOrphan, WalkMatch, WalkMissing, WalkExhausted, Settle,
           SettleFails, Report, Undo, Undone, UndoFails, Return, LocalsDropped, logVars
  <2> QED
    BY <2>1, <2>3, LogQuiet
<1> QED
  BY <1>1, <1>2, <1>3, <1>4, <1>5, <1>6, <1>7, <1>8, <1>9, LogFetchAccept, LogBatchReply, LogHandleLog
     DEF Next, Environment, Start, ProcessNextBlock, ProcessBlockLogs

\* When the poller is idle at the head, the logs the handler holds for a recorded block
\* are that block's, though eth_getLogs is asked by number while the chain moves on
\* (evmChainPoller.go:409) and blocks are handed over again after failed batches, failed
\* handlers and crashes: on a chain whose blocks become final and do not come back once
\* they have left it, whatever fails but an open store.
THEOREM LogsOfTheirBlocks ==
    ASSUME FinalSetting(Final), NoReturn(Left)
    PROVE  Spec => []LogsMatchBlock
<1> DEFINE Inv == BaseInv /\ TipInv /\ LogInv /\ \E c \in Chains : RecordsOn(c)
<1>1. Init => Inv
  <2> SUFFICES ASSUME Init PROVE Inv
    OBVIOUS
  <2>1. BaseInv /\ canon \in Chains
    BY TypeInit, LinkInit, IndexInit DEF BaseInv, Init
  <2>2. LogInv
    BY DEF Init, LogInv
  <2> QED
    BY <2>1, <2>2, TipInit
<1>2. Inv /\ [Next]_vars => Inv'
  BY BaseStep, TipStep, LogStep
<1>3. Inv => LogsMatchBlock
  <2> SUFFICES ASSUME BaseInv, TipInv, LogInv, NEW c \in Chains, RecordsOn(c), CaughtUp,
                      NEW l \in logged, RecordOf(l.block, ChainId) \in Index
               PROVE  l.from = l.block.hash
    BY DEF LogsMatchBlock
  <2>1. PICK r \in blocks : r.chainId = ChainId /\ r.number = Processed /\ r.hash = canon[Len(canon)]
    BY DEF CaughtUp, LastRecord, Store!GetLastProcessedBlock, Store!GetBlock, Store!HasKey, Processed
  <2>2. /\ Processed \in Nat /\ Processed < Len(c) /\ r.hash = c[Processed + 1]
        /\ Processed # Store!NoBlock
    BY <2>1, StoredOn, IndexTypes DEF BaseInv, Store!NoBlock
  <2>3. canon \in Chains /\ Len(c) \in Nat /\ Len(canon) \in Nat /\ Len(canon) >= 1
    BY ChainAssumption DEF BaseInv, TypeInv, TypeOK
  <2>4. Processed + 1 = Len(canon)
    <3>1. Processed + 1 \in 1 .. Len(c) /\ Len(canon) \in 1 .. Len(canon)
      BY <2>2, <2>3
    <3> QED
      BY <2>1, <2>2, <2>3, <3>1, SameHeight
  <2>5. \A m \in 1 .. Len(canon) : c[m] = canon[m]
    <3>1. Len(canon) <= Len(c) /\ c[Len(canon)] = canon[Len(canon)]
      BY <2>1, <2>2, <2>3, <2>4
    <3> QED
      BY <2>3, <3>1, SameAncestors
  <2> DEFINE rec == RecordOf(l.block, ChainId)
  <2>6. rec.number \in Nat /\ rec.number <= Processed /\ rec.hash = c[rec.number + 1]
    BY <2>2, IndexTypes DEF BaseInv, RecordsOn
  <2>7. l.block.hash = rec.hash
    BY DEF RecordOf
  <2> HIDE DEF rec
  <2>8. rec.number + 1 \in 1 .. Len(canon)
    BY <2>2, <2>3, <2>4, <2>6
  <2>9. l.block.hash \in HashesOf(canon)
    BY <2>5, <2>6, <2>7, <2>8 DEF HashesOf
  <2>10. l.block.hash \notin Left[canon]
    BY <2>3, <2>9 DEF NoReturn
  <2> QED
    BY <2>10 DEF LogInv, FromBlock
<1> QED
  BY <1>1, <1>2, <1>3, PTL DEF Spec

-----------------------------------------------------------------------------
(* Two loops on one store, on a chain c that only grows.  What a loop does is *)
(* said of its locals x before and y after the step, of the records K, the    *)
(* last processed number P and the blocks V and logs G that were handed over  *)
(* before it, and of L, Q, W and H after it.                                  *)

Here == [pc |-> pc, blockNum |-> blockNum, last |-> last, target |-> target, block |-> block,
         pending |-> pending, replies |-> replies, fetchErr |-> fetchErr]

There ==
    [pc |-> pc2, blockNum |-> blockNum2, last |-> last2, target |-> target2, block |-> block2,
     pending |-> pending2, replies |-> replies2, fetchErr |-> fetchErr2]

Kept == {r \in blocks : r.chainId = ChainId}

\* The block of number n on c, and a batch of its logs.
BlockOn(n, c) == [number |-> n, hash |-> c[n + 1], parentHash |-> c[n]]
LogsOn(n, i, c) == [block |-> BlockOn(n, c), batch |-> i, from |-> c[n + 1]]

\* Every block above the start block, up to number n, has been handed over.
UpTo(n, c, V, G) ==
    \A k \in GenesisBlockNumber + 1 .. n :
       BlockOn(k, c) \in V /\ \A i \in Batches : LogsOn(k, i, c) \in G

\* The records are blocks of the chain; nothing below one of them, or below the last
\* processed number, was skipped.
KeptInv(K, P, c, V, G) ==
    /\ \A r \in K : /\ r.number \in Nat
                    /\ GenesisBlockNumber <= r.number /\ r.number < Len(c)
                    /\ r.hash = c[r.number + 1]
                    /\ UpTo(r.number, c, V, G)
    /\ P \in Int /\ P < Len(c) /\ UpTo(P, c, V, G)

\* A loop in a call has skipped nothing below the block in hand; of that block's logs
\* each batch is asked for, has come, has been handed over, or one of them failed.
CallInv(x, c, V, G) ==
    /\ x.pc \in {"stopped", "waiting", "starting", "fetching", "logs", "pruning"}
    /\ x.pc = "starting" => x.blockNum = GenesisBlockNumber
    /\ x.pc # "logs" => x.replies = {}
    /\ x.pc \in {"fetching", "logs", "pruning"} =>
          /\ x.blockNum \in Nat /\ GenesisBlockNumber < x.blockNum
          /\ x.target \in Nat /\ x.blockNum <= x.target /\ x.target < Len(c)
          /\ UpTo(x.blockNum - 1, c, V, G)
    /\ x.pc \in {"fetching", "logs"} => x.last.hash = c[x.blockNum]
    /\ x.pc \in {"logs", "pruning"} => x.block = BlockOn(x.blockNum, c) /\ x.block \in V
    /\ x.pc = "logs" =>
          /\ \A reply \in x.replies : reply.from = c[x.blockNum + 1]
          /\ \A i \in Batches : \/ x.fetchErr \/ i \in x.pending
                                \/ \E reply \in x.replies : reply.batch = i
                                \/ LogsOn(x.blockNum, i, c) \in G
    /\ x.pc = "pruning" => \A i \in Batches : LogsOn(x.blockNum, i, c) \in G

Shared == canon \in Chains /\ lastProcessedBlocks \in [ChainIds -> Int]

SkipInv ==
    /\ Shared
    /\ KeptInv(Kept, Processed, canon, view, logged)
    /\ CallInv(Here, canon, view, logged)
    /\ CallInv(There, canon, view, logged)

\* Nothing is saved; records may be deleted.
Spares(K, P, L, Q) == L \subseteq K /\ Q = P

\* A record of block n with hash h is saved.
Saves(n, h, K, L, Q) ==
    \E new : /\ new.number = n /\ new.hash = h
             /\ L = {r \in K : r.number # n} \cup {new} /\ Q = n

\* What a step of a loop may be, as its locals see it: the call ends,
Ends(x, y) == y.pc \in {"stopped", "waiting"} /\ y.replies = {}

\* a loop that finds no last processed block begins at the start block,
Begins(x, y) ==
    /\ x.pc = "stopped" /\ y.pc = "starting"
    /\ y.blockNum = GenesisBlockNumber /\ y.replies = x.replies

\* a tick finds blocks above a record,
Ticks(x, y, K, c) ==
    /\ x.pc = "waiting" /\ y.pc = "fetching" /\ y.replies = x.replies
    /\ \E r \in K : /\ Len(c) - 1 > r.number /\ y.last = r
                    /\ y.target = Len(c) - 1 /\ y.blockNum = r.number + 1

Stays(x, y) ==
    y.blockNum = x.blockNum /\ y.target = x.target /\ y.last = x.last

\* the fetched block extends the last one, and all its batches are asked for,
Accepts(x, y, c) ==
    /\ x.pc = "fetching" /\ y.pc = "logs" /\ Stays(x, y)
    /\ y.block = BlockOn(x.blockNum, c)
    /\ y.pending = Batches /\ y.replies = x.replies

\* a batch is answered or fails,
Answers(x, y, c) ==
    /\ x.pc = "logs" /\ y.pc = "logs" /\ Stays(x, y) /\ y.block = x.block
    /\ \E i \in Batches :
          \/ /\ y.pending = x.pending \ {i} /\ y.fetchErr = x.fetchErr
             /\ y.replies = x.replies \cup {[batch |-> i, from |-> c[x.blockNum + 1]]}
          \/ y.fetchErr = TRUE /\ y.replies = x.replies

\* an answer is handed over,
Hands(x, y, H) ==
    /\ x.pc = "logs" /\ y.pc = "logs" /\ Stays(x, y) /\ y.block = x.block
    /\ y.pending = x.pending /\ y.fetchErr = x.fetchErr
    /\ \E reply \in x.replies :
          /\ y.replies = x.replies \ {reply}
          /\ [block |-> x.block, batch |-> reply.batch, from |-> reply.from] \in H

\* no answer is left,
Commits(x, y) ==
    /\ x.pc = "logs" /\ y.pc = "pruning" /\ Stays(x, y) /\ y.block = x.block
    /\ x.pending = {} /\ ~x.fetchErr /\ x.replies = {} /\ y.replies = {}

\* and the next block is up.
Advances(x, y) ==
    /\ x.pc = "pruning" /\ y.pc = "fetching" /\ y.replies = x.replies
    /\ y.blockNum = x.blockNum + 1 /\ y.target = x.target /\ x.blockNum < x.target
    /\ y.last.hash = x.block.hash

\* What it does to the store and tells the handler: a save is of the start block or
\* of the block whose logs have all been handed over.
LoopMoves(x, y, K, P, L, Q, V, G, W, H, c) ==
    /\ V \subseteq W /\ G \subseteq H
    /\ \/ Ends(x, y) \/ Begins(x, y) \/ y = x \/ Ticks(x, y, K, c)
       \/ Accepts(x, y, c) /\ y.block \in W
       \/ Answers(x, y, c) \/ Hands(x, y, H) \/ Commits(x, y) \/ Advances(x, y)
    /\ \/ Spares(K, P, L, Q)
       \/ x.pc = "starting" /\ Saves(x.blockNum, c[x.blockNum + 1], K, L, Q)
       \/ Commits(x, y) /\ Saves(x.block.number, x.block.hash, K, L, Q)

\* The numbers of the setting, and that the start block is on every chain.
LEMMA SkipNumbers ==
    ASSUME GrowingSetting
    PROVE  /\ GenesisBlockNumber \in Nat \ {0} /\ Store!NoBlock = -1
           /\ \A c \in Chains : /\ c \in Seq(Hash) /\ Len(c) \in Nat
                                /\ GenesisBlockNumber < Len(c)
BY ConfigAssumption, ChainAssumption DEF GrowingSetting, Store!NoBlock

\* What has been handed over stays so.
LEMMA HandedStays ==
    ASSUME NEW c, NEW V, NEW G, NEW W, NEW H, V \subseteq W, G \subseteq H
    PROVE  /\ \A n : UpTo(n, c, V, G) => UpTo(n, c, W, H)
           /\ \A K, P : KeptInv(K, P, c, V, G) => KeptInv(K, P, c, W, H)
           /\ \A x : CallInv(x, c, V, G) => CallInv(x, c, W, H)
<1>1. ASSUME NEW n, UpTo(n, c, V, G) PROVE UpTo(n, c, W, H)
  BY <1>1 DEF UpTo
<1>2. ASSUME NEW K, NEW P, KeptInv(K, P, c, V, G) PROVE KeptInv(K, P, c, W, H)
  BY <1>1, <1>2 DEF KeptInv
<1>3. ASSUME NEW x, CallInv(x, c, V, G) PROVE CallInv(x, c, W, H)
  BY <1>1, <1>3 DEF CallInv
<1> QED
  BY <1>1, <1>2, <1>3

\* One block more.
LEMMA HandedNext ==
    ASSUME NEW n \in Nat, GenesisBlockNumber \in Nat, GenesisBlockNumber < n,
           NEW c, NEW V, NEW G, UpTo(n - 1, c, V, G),
           BlockOn(n, c) \in V, \A i \in Batches : LogsOn(n, i, c) \in G
    PROVE  UpTo(n, c, V, G)
<1>1. ASSUME NEW k \in GenesisBlockNumber + 1 .. n
      PROVE  k = n \/ k \in GenesisBlockNumber + 1 .. n - 1
  OBVIOUS
<1> QED
  BY <1>1 DEF UpTo

\* The locals after a step.
LEMMA CallMoves ==
    ASSUME GrowingSetting,
           NEW x, NEW y, NEW K, NEW P, NEW L, NEW Q, NEW V, NEW G, NEW W, NEW H,
           NEW c \in Chains,
           KeptInv(K, P, c, V, G), CallInv(x, c, V, G),
           LoopMoves(x, y, K, P, L, Q, V, G, W, H, c)
    PROVE  CallInv(y, c, W, H)
<1>1. /\ GenesisBlockNumber \in Nat \ {0} /\ Len(c) \in Nat
      /\ V \subseteq W /\ G \subseteq H
  BY SkipNumbers DEF LoopMoves
<1>2. CallInv(x, c, W, H) /\ KeptInv(K, P, c, W, H)
  BY <1>1, HandedStays
<1>3. CASE Ends(x, y)
  BY <1>3 DEF Ends, CallInv
<1>4. CASE Begins(x, y)
  BY <1>2, <1>4 DEF Begins, CallInv
<1>5. CASE y = x
  BY <1>2, <1>5
<1>6. CASE Ticks(x, y, K, c)
  <2>1. PICK r \in K : /\ Len(c) - 1 > r.number /\ y.last = r
                       /\ y.target = Len(c) - 1 /\ y.blockNum = r.number + 1
    BY <1>6 DEF Ticks
  <2>2. /\ r.number \in Nat /\ GenesisBlockNumber <= r.number
        /\ r.hash = c[r.number + 1] /\ UpTo(r.number, c, W, H)
    BY <1>2 DEF KeptInv
  <2>3. /\ y.blockNum \in Nat /\ GenesisBlockNumber < y.blockNum /\ y.blockNum - 1 = r.number
        /\ y.target \in Nat /\ y.blockNum <= y.target /\ y.target < Len(c)
    BY <1>1, <2>1, <2>2
  <2>4. UpTo(y.blockNum - 1, c, W, H) /\ y.last.hash = c[y.blockNum]
    BY <2>1, <2>2, <2>3
  <2>5. y.pc = "fetching" /\ y.replies = {}
    BY <1>2, <1>6 DEF Ticks, CallInv
  <2> QED
    BY <2>3, <2>4, <2>5 DEF CallInv
<1>7. CASE Accepts(x, y, c) /\ y.block \in W
  BY <1>2, <1>7 DEF Accepts, Stays, CallInv
<1>8. CASE Answers(x, y, c)
  <2>1. PICK i \in Batches :
          \/ /\ y.pending = x.pending \ {i} /\ y.fetchErr = x.fetchErr
             /\ y.replies = x.replies \cup {[batch |-> i, from |-> c[x.blockNum + 1]]}
          \/ y.fetchErr = TRUE /\ y.replies = x.replies
    BY <1>8 DEF Answers
  <2>2. /\ x.pc = "logs" /\ y.pc = "logs" /\ y.block = x.block
        /\ y.blockNum = x.blockNum /\ y.target = x.target /\ y.last = x.last
    BY <1>8 DEF Answers, Stays
  <2>3. /\ \A reply \in y.replies : reply.from = c[y.blockNum + 1]
        /\ \A j \in Batches : \/ y.fetchErr \/ j \in y.pending
                              \/ \E reply \in y.replies : reply.batch = j
                              \/ LogsOn(y.blockNum, j, c) \in H
    <3>1. /\ \A reply \in x.replies : reply.from = c[x.blockNum + 1]
          /\ \A j \in Batches : \/ x.fetchErr \/ j \in x.pending
                                \/ \E reply \in x.replies : reply.batch = j
                                \/ LogsOn(x.blockNum, j, c) \in H
      BY <1>2, <2>2 DEF CallInv
    <3>2. CASE y.fetchErr = TRUE /\ y.replies = x.replies
      BY <2>2, <3>1, <3>2
    <3>3. CASE /\ y.pending = x.pending \ {i} /\ y.fetchErr = x.fetchErr
               /\ y.replies = x.replies \cup {[batch |-> i, from |-> c[x.blockNum + 1]]}
      <4> DEFINE new == [batch |-> i, from |-> c[x.blockNum + 1]]
      <4>1. new.batch = i /\ new.from = c[x.blockNum + 1] /\ y.replies = x.replies \cup {new}
        BY <3>3
      <4> HIDE DEF new
      <4>2. \A reply \in y.replies : reply.from = c[y.blockNum + 1]
        BY <2>2, <3>1, <4>1
      <4>3. ASSUME NEW j \in Batches, ~ y.fetchErr, j \notin y.pending,
                   LogsOn(y.blockNum, j, c) \notin H
            PROVE  \E reply \in y.replies : reply.batch = j
        BY <2>2, <3>1, <3>3, <4>1, <4>3
      <4> QED
        BY <4>2, <4>3
    <3> QED
      BY <2>1, <3>2, <3>3
  <2> QED
    BY <1>2, <2>2, <2>3 DEF CallInv
<1>9. CASE Hands(x, y, H)
  <2>1. PICK reply \in x.replies :
          /\ y.replies = x.replies \ {reply}
          /\ [block |-> x.block, batch |-> reply.batch, from |-> reply.from] \in H
    BY <1>9 DEF Hands
  <2>2. /\ x.pc = "logs" /\ y.pc = "logs" /\ y.block = x.block
        /\ y.blockNum = x.blockNum /\ y.target = x.target /\ y.last = x.last
        /\ y.pending = x.pending /\ y.fetchErr = x.fetchErr
    BY <1>9 DEF Hands, Stays
  <2>3. x.block = BlockOn(x.blockNum, c) /\ reply.from = c[x.blockNum + 1]
    BY <1>2, <2>2 DEF CallInv
  <2>4. LogsOn(x.blockNum, reply.batch, c) \in H
    BY <2>1, <2>3 DEF LogsOn
  <2>5. /\ \A r \in y.replies : r.from = c[y.blockNum + 1]
        /\ \A j \in Batches : \/ y.fetchErr \/ j \in y.pending
                              \/ \E r \in y.replies : r.batch = j
                              \/ LogsOn(y.blockNum, j, c) \in H
    BY <1>2, <2>1, <2>2, <2>4 DEF CallInv
  <2> QED
    BY <1>2, <2>2, <2>5 DEF CallInv
<1>10. CASE Commits(x, y)
  BY <1>2, <1>10 DEF Commits, Stays, CallInv
<1>11. CASE Advances(x, y)
  <2>1. /\ x.blockNum \in Nat /\ GenesisBlockNumber < x.blockNum
        /\ x.target \in Nat /\ x.target < Len(c)
        /\ UpTo(x.blockNum - 1, c, W, H)
        /\ x.block = BlockOn(x.blockNum, c) /\ x.block \in W
        /\ \A i \in Batches : LogsOn(x.blockNum, i, c) \in H
    BY <1>2, <1>11 DEF Advances, CallInv
  <2>2. UpTo(x.blockNum, c, W, H)
    BY <1>1, <2>1, HandedNext
  <2>3. /\ y.pc = "fetching" /\ y.replies = {}
        /\ y.blockNum = x.blockNum + 1 /\ y.target = x.target /\ x.blockNum < x.target
        /\ y.last.hash = x.block.hash
    BY <1>2, <1>11 DEF Advances, CallInv
  <2>4. /\ y.blockNum \in Nat /\ GenesisBlockNumber < y.blockNum /\ y.blockNum - 1 = x.blockNum
        /\ y.target \in Nat /\ y.blockNum <= y.target /\ y.target < Len(c)
    BY <1>1, <2>1, <2>3
  <2>5. UpTo(y.blockNum - 1, c, W, H) /\ y.last.hash = c[y.blockNum]
    BY <2>1, <2>2, <2>3, <2>4 DEF BlockOn
  <2> QED
    BY <2>3, <2>4, <2>5 DEF CallInv
<1> QED
  BY <1>3, <1>4, <1>5, <1>6, <1>7, <1>8, <1>9, <1>10, <1>11 DEF LoopMoves

\* The store after a step.
LEMMA KeptMoves ==
    ASSUME GrowingSetting,
           NEW x, NEW y, NEW K, NEW P, NEW L, NEW Q, NEW V, NEW G, NEW W, NEW H,
           NEW c \in Chains,
           KeptInv(K, P, c, V, G), CallInv(x, c, V, G),
           LoopMoves(x, y, K, P, L, Q, V, G, W, H, c)
    PROVE  KeptInv(L, Q, c, W, H)
<1>1. /\ GenesisBlockNumber \in Nat \ {0} /\ Len(c) \in Nat /\ GenesisBlockNumber < Len(c)
      /\ V \subseteq W /\ G \subseteq H
  BY SkipNumbers DEF LoopMoves
<1>2. CallInv(x, c, W, H) /\ KeptInv(K, P, c, W, H)
  BY <1>1, HandedStays
<1>3. ASSUME NEW n \in Nat, GenesisBlockNumber <= n, n < Len(c), UpTo(n, c, W, H),
             Saves(n, c[n + 1], K, L, Q)
      PROVE  KeptInv(L, Q, c, W, H)
  <2>1. PICK new : /\ new.number = n /\ new.hash = c[n + 1]
                   /\ L = {r \in K : r.number # n} \cup {new} /\ Q = n
    BY <1>3 DEF Saves
  <2>2. \A r \in L : r = new \/ r \in K
    BY <2>1
  <2> QED
    BY <1>2, <1>3, <2>1, <2>2 DEF KeptInv
<1>4. CASE Spares(K, P, L, Q)
  BY <1>2, <1>4 DEF Spares, KeptInv
<1>5. CASE x.pc = "starting" /\ Saves(x.blockNum, c[x.blockNum + 1], K, L, Q)
  <2>1. x.blockNum = GenesisBlockNumber
    BY <1>2, <1>5 DEF CallInv
  <2>2. UpTo(GenesisBlockNumber, c, W, H)
    BY <1>1 DEF UpTo
  <2> QED
    BY <1>1, <1>3, <1>5, <2>1, <2>2
<1>6. CASE Commits(x, y) /\ Saves(x.block.number, x.block.hash, K, L, Q)
  <2> DEFINE n == x.blockNum
  <2>1. /\ n \in Nat /\ GenesisBlockNumber < n
        /\ x.target \in Nat /\ n <= x.target /\ x.target < Len(c)
        /\ UpTo(n - 1, c, W, H)
        /\ x.block = BlockOn(n, c) /\ x.block \in W
        /\ \A i \in Batches : LogsOn(n, i, c) \in H
    BY <1>2, <1>6 DEF Commits, CallInv
  <2>2. x.block.number = n /\ x.block.hash = c[n + 1]
    BY <2>1 DEF BlockOn
  <2> HIDE DEF n
  <2>3. UpTo(n, c, W, H)
    BY <1>1, <2>1, HandedNext
  <2>4. GenesisBlockNumber <= n /\ n < Len(c)
    BY <1>1, <2>1
  <2> QED
    BY <1>3, <1>6, <2>1, <2>2, <2>3, <2>4
<1> QED
  BY <1>4, <1>5, <1>6 DEF LoopMoves

\* The chain grows.
LEMMA SkipGrows ==
    ASSUME GrowingSetting, NEW c \in Chains, NEW d \in Chains, <<c, d>> \in Moves,
           NEW V, NEW G
    PROVE  /\ \A K, P : KeptInv(K, P, c, V, G) => KeptInv(K, P, d, V, G)
           /\ \A x : CallInv(x, c, V, G) => CallInv(x, d, V, G)
<1>1. /\ Len(c) <= Len(d) /\ Len(c) \in Nat /\ Len(d) \in Nat
      /\ \A n \in 1 .. Len(c) : c[n] = d[n]
  BY SkipNumbers DEF GrowingSetting
<1>2. GenesisBlockNumber \in Nat \ {0}
  BY SkipNumbers
<1>3. ASSUME NEW n \in Nat, n > 0, n < Len(c)
      PROVE  /\ c[n] = d[n] /\ c[n + 1] = d[n + 1] /\ n < Len(d)
             /\ BlockOn(n, c) = BlockOn(n, d)
             /\ \A i : LogsOn(n, i, c) = LogsOn(n, i, d)
  <2>1. n \in 1 .. Len(c) /\ n + 1 \in 1 .. Len(c) /\ n < Len(d)
    BY <1>1, <1>3
  <2>2. c[n] = d[n] /\ c[n + 1] = d[n + 1]
    BY <1>1, <2>1
  <2> QED
    BY <2>1, <2>2 DEF BlockOn, LogsOn
<1>4. ASSUME NEW n \in Int, n < Len(c), UpTo(n, c, V, G) PROVE UpTo(n, d, V, G)
  <2>1. ASSUME NEW k \in GenesisBlockNumber + 1 .. n
        PROVE  BlockOn(k, d) \in V /\ \A i \in Batches : LogsOn(k, i, d) \in G
    <3>1. k \in Nat /\ k > 0 /\ k < Len(c)
      BY <1>1, <1>2, <1>4
    <3>2. BlockOn(k, c) \in V /\ \A i \in Batches : LogsOn(k, i, c) \in G
      BY <1>4 DEF UpTo
    <3> QED
      BY <1>3, <3>1, <3>2
  <2> QED
    BY <2>1 DEF UpTo
<1>5. ASSUME NEW K, NEW P, KeptInv(K, P, c, V, G) PROVE KeptInv(K, P, d, V, G)
  <2>1. ASSUME NEW r \in K
        PROVE  /\ r.number \in Nat /\ GenesisBlockNumber <= r.number
               /\ r.number < Len(d) /\ r.hash = d[r.number + 1] /\ UpTo(r.number, d, V, G)
    <3>1. /\ r.number \in Nat /\ GenesisBlockNumber <= r.number
          /\ r.number < Len(c) /\ r.hash = c[r.number + 1] /\ UpTo(r.number, c, V, G)
      BY <1>5 DEF KeptInv
    <3>2. r.number > 0
      BY <1>2, <3>1
    <3> QED
      BY <1>3, <1>4, <3>1, <3>2
  <2>2. P \in Int /\ P < Len(d) /\ UpTo(P, d, V, G)
    BY <1>1, <1>4, <1>5 DEF KeptInv
  <2> QED
    BY <2>1, <2>2 DEF KeptInv
<1>6. ASSUME NEW x, CallInv(x, c, V, G) PROVE CallInv(x, d, V, G)
  <2>1. CASE x.pc \notin {"fetching", "logs", "pruning"}
    BY <1>6, <2>1 DEF CallInv
  <2>2. CASE x.pc \in {"fetching", "logs", "pruning"}
    <3> DEFINE n == x.blockNum
    <3>1. /\ n \in Nat /\ GenesisBlockNumber < n
          /\ x.target \in Nat /\ n <= x.target /\ x.target < Len(c)
          /\ UpTo(n - 1, c, V, G)
      BY <1>6, <2>2 DEF CallInv
    <3>2. n > 0 /\ n < Len(c) /\ n - 1 \in Int /\ n - 1 < Len(c) /\ x.target < Len(d)
      BY <1>1, <1>2, <3>1
    <3>3. UpTo(n - 1, d, V, G)
      BY <1>4, <3>1, <3>2
    <3>4. /\ c[n] = d[n] /\ c[n + 1] = d[n + 1]
          /\ BlockOn(n, c) = BlockOn(n, d)
          /\ \A i : LogsOn(n, i, c) = LogsOn(n, i, d)
      BY <1>3, <3>1, <3>2
    <3> QED
      BY <1>6, <3>1, <3>2, <3>3, <3>4 DEF CallInv
  <2> QED
    BY <2>1, <2>2
<1> QED
  BY <1>5, <1>6

\* SaveBlock, as it is seen in the records of the poller's chain.
LEMMA SavedHereToo ==
    ASSUME Shared, canon' = canon, NEW b, b.number \in Nat,
           Store!SaveBlock(RecordOf(b, ChainId))
    PROVE  Shared' /\ Saves(b.number, b.hash, Kept, Kept', Processed')
<1> DEFINE new == RecordOf(b, ChainId)
<1>1. new.chainId = ChainId /\ new.number = b.number /\ new.hash = b.hash
  BY DEF RecordOf
<1>2. Store!SaveBlock(new)
  OBVIOUS
<1> HIDE DEF new
<1>3. Kept' = {r \in Kept : r.number # b.number} \cup {new}
  BY <1>1, <1>2 DEF Store!SaveBlock, Store!GetBlock, Store!HasKey, Kept
<1>4. lastProcessedBlocks' = [lastProcessedBlocks EXCEPT ![ChainId] = b.number]
  BY <1>1, <1>2 DEF Store!SaveBlock
<1>5. Processed' = b.number /\ lastProcessedBlocks' \in [ChainIds -> Int]
  BY <1>4, ConfigAssumption DEF Shared, Processed
<1> QED
  BY <1>1, <1>3, <1>4, <1>5 DEF Saves, Shared

\* The blocks the endpoint shows.
LEMMA BlockShown ==
    ASSUME GrowingSetting, canon \in Chains, NEW n \in Nat, GenesisBlockNumber <= n, n < Len(canon)
    PROVE  GetBlockByNumber(n) = BlockOn(n, canon) /\ LogsAt(n) = canon[n + 1]
BY SkipNumbers DEF GetBlockByNumber, LogsAt, BlockOn

\* What the first loop does in a step, on a chain that only grows: it never meets a
\* block that does not extend the last one.
LEMMA HereMoves ==
    ASSUME GrowingSetting, Shared, KeptInv(Kept, Processed, canon, view, logged),
           CallInv(Here, canon, view, logged),
           \/ Cancel \/ Start \/ ProcessNextBlock
           \/ ProcessBlockLogs \/ ReconcileReorg
    PROVE  /\ canon' = canon /\ Shared'
           /\ LoopMoves(Here, Here', Kept, Processed, Kept', Processed', view, logged,
                        view', logged', canon)
<1> DEFINE Moved == /\ canon' = canon /\ Shared'
                    /\ LoopMoves(Here, Here', Kept, Processed, Kept', Processed',
                                 view, logged, view', logged', canon)
<1> USE DEF Here
<1>1. GenesisBlockNumber \in Nat \ {0} /\ Len(canon) \in Nat /\ GenesisBlockNumber < Len(canon)
  BY SkipNumbers DEF Shared
<1>2. /\ pc \in {"stopped", "waiting", "starting", "fetching", "logs", "pruning"}
      /\ pc # "logs" => replies = {}
  BY DEF CallInv
<1>3. UNCHANGED <<canon, storeVars>> =>
         canon' = canon /\ Shared' /\ Spares(Kept, Processed, Kept', Processed')
  BY DEF storeVars, Shared, Spares, Kept, Processed
<1>4. ASSUME UNCHANGED <<canon, storeVars, handlerVars>>,
             pc' \in {"stopped", "waiting"}, replies' = {}
      PROVE  Moved
  BY <1>3, <1>4 DEF LoopMoves, Ends, handlerVars
<1>5. ASSUME UNCHANGED <<canon, storeVars, pc, loopVars, logVars, handlerVars>>
      PROVE  Moved
  BY <1>3, <1>5 DEF LoopMoves, loopVars, logVars, handlerVars
<1>6. CASE Cancel
  BY <1>5, <1>6 DEF Cancel
<1>7. CASE Start
  <2>1. CASE StartResume \/ StartFails
    BY <1>2, <1>4, <2>1 DEF StartResume, StartFails, LocalsDropped, logVars
  <2>2. CASE StartFresh
    <3>1. /\ pc = "stopped" /\ pc' = "starting" /\ blockNum' = GenesisBlockNumber
          /\ UNCHANGED <<canon, storeVars, replies, view, logged>>
      BY <1>1, <2>2 DEF StartFresh, logVars, handlerVars
    <3> QED
      BY <1>3, <3>1 DEF LoopMoves, Begins
  <2>3. CASE StartAnchor
    <3>1. /\ pc = "starting" /\ pc' = "waiting" /\ replies' = {}
          /\ blockNum = GenesisBlockNumber
          /\ UNCHANGED <<canon, view, logged>>
      BY <2>3 DEF StartAnchor, Return, LocalsDropped, handlerVars, CallInv
    <3> DEFINE b == GetBlockByNumber(blockNum)
    <3>2. blockNum \in Nat /\ b = BlockOn(blockNum, canon)
      BY <1>1, <3>1, BlockShown DEF Shared
    <3>3. b.number = blockNum /\ b.hash = canon[blockNum + 1]
      BY <3>2 DEF BlockOn
    <3>4. Store!SaveBlock(RecordOf(b, ChainId))
      BY <2>3 DEF StartAnchor
    <3> HIDE DEF b
    <3>5. Shared' /\ Saves(b.number, b.hash, Kept, Kept', Processed')
      BY <3>1, <3>2, <3>3, <3>4, SavedHereToo
    <3> QED
      BY <3>1, <3>3, <3>5 DEF LoopMoves, Ends
  <2> QED
    BY <1>7, <2>1, <2>2, <2>3 DEF Start
<1>8. CASE ProcessNextBlock
  <2>1. CASE TickSkips
    BY <1>5, <2>1 DEF TickSkips, vars
  <2>2. CASE LoopExits \/ FetchFails
    BY <1>2, <1>4, <2>2 DEF LoopExits, FetchFails, Return, LocalsDropped, logVars
  <2>3. CASE Tick
    <3>1. PICK r \in LastRecord :
             /\ GetLatestBlock > r.number
             /\ last' = r /\ target' = GetLatestBlock /\ blockNum' = r.number + 1
      BY <2>3 DEF Tick
    <3>2. r \in Kept
      BY <3>1 DEF LastRecord, Store!GetLastProcessedBlock, Store!GetBlock,
                  Store!HasKey, Kept
    <3>3. /\ pc = "waiting" /\ pc' = "fetching"
          /\ UNCHANGED <<canon, storeVars, replies, view, logged>>
      BY <2>3 DEF Tick, logVars, handlerVars
    <3>4. Ticks(Here, Here', Kept, canon)
      BY <3>1, <3>2, <3>3 DEF GetLatestBlock, Ticks
    <3> QED
      BY <1>3, <3>3, <3>4 DEF LoopMoves
  <2>4. ASSUME pc = "fetching"
        PROVE  /\ GetBlockByNumber(blockNum) = BlockOn(blockNum, canon)
               /\ BlockOn(blockNum, canon).parentHash = last.hash
    <3>1. /\ blockNum \in Nat /\ GenesisBlockNumber < blockNum
          /\ target \in Nat /\ blockNum <= target /\ target < Len(canon)
          /\ last.hash = canon[blockNum]
      BY <2>4 DEF CallInv
    <3>2. blockNum < Len(canon) /\ GenesisBlockNumber <= blockNum
      BY <1>1, <3>1
    <3>3. GetBlockByNumber(blockNum) = BlockOn(blockNum, canon)
      BY <3>1, <3>2, BlockShown DEF Shared
    <3> QED
      BY <3>1, <3>3 DEF BlockOn
  <2>5. CASE FetchReorg
    BY <2>4, <2>5 DEF FetchReorg
  <2>6. CASE FetchAccept
    <3>1. /\ pc = "fetching" /\ pc' = "logs" /\ UNCHANGED <<canon, storeVars>>
          /\ UNCHANGED <<blockNum, target, last, replies, logged>>
          /\ block' = GetBlockByNumber(blockNum) /\ pending' = Batches
      BY <2>6 DEF FetchAccept
    <3>2. view' = view \cup {GetBlockByNumber(blockNum)}
      BY <2>6 DEF FetchAccept, Fails, GrowingSetting, DeliverySetting
    <3>3. Accepts(Here, Here', canon)
      BY <2>4, <3>1 DEF Accepts, Stays
    <3>4. view \subseteq view' /\ block' \in view'
      BY <3>1, <3>2
    <3> QED
      BY <1>3, <3>1, <3>3, <3>4 DEF LoopMoves
  <2> QED
    BY <1>8, <2>1, <2>2, <2>3, <2>5, <2>6 DEF ProcessNextBlock
<1>9. CASE ProcessBlockLogs
  <2>1. ASSUME NEW i \in Batches, BatchReply(i) \/ BatchFails(i) PROVE Moved
    <3>1. /\ pc = "logs" /\ pc' = "logs"
          /\ UNCHANGED <<canon, storeVars, view, logged, blockNum, target, last, block>>
      BY <2>1 DEF BatchReply, BatchFails, loopVars, handlerVars
    <3>2. /\ blockNum \in Nat /\ GenesisBlockNumber < blockNum
          /\ target \in Nat /\ blockNum <= target /\ target < Len(canon)
          /\ block.number = blockNum
      BY <3>1 DEF CallInv, BlockOn
    <3>3. LogsAt(blockNum) = canon[blockNum + 1]
      BY <1>1, <3>2, BlockShown DEF Shared
    <3>4. \/ /\ pending' = pending \ {i} /\ fetchErr' = fetchErr
             /\ replies' = replies \cup {[batch |-> i, from |-> canon[blockNum + 1]]}
          \/ fetchErr' = TRUE /\ replies' = replies
      BY <2>1, <3>2, <3>3 DEF BatchReply, BatchFails
    <3>5. Answers(Here, Here', canon)
      BY <3>1, <3>4 DEF Answers, Stays
    <3> QED
      BY <1>3, <3>1, <3>5 DEF LoopMoves
  <2>2. ASSUME NEW reply \in replies, HandleLog(reply) PROVE Moved
    <3>1. /\ pc = "logs" /\ pc' = "logs"
          /\ UNCHANGED <<canon, storeVars, view, blockNum, target, last, block>>
          /\ UNCHANGED <<pending, fetchErr>>
          /\ replies' = replies \ {reply}
          /\ logged' = logged \cup {[block |-> block, batch |-> reply.batch, from |-> reply.from]}
      BY <2>2 DEF HandleLog, loopVars
    <3>2. Hands(Here, Here', logged')
      BY <3>1 DEF Hands, Stays
    <3>3. view \subseteq view' /\ logged \subseteq logged'
      BY <3>1
    <3> QED
      BY <1>3, <3>1, <3>2, <3>3 DEF LoopMoves
  <2>3. CASE LogsFetchFails \/ DecodeFails \/ HandleLogFails
    BY <1>4, <2>3 DEF LogsFetchFails, DecodeFails, HandleLogFails,
                     Return, LocalsDropped
  <2>4. ASSUME SaveProcessed \/ SaveProcessedFails
        PROVE  /\ Commits(Here, Here') /\ UNCHANGED <<canon, view, logged>>
               /\ pc = "logs"
    BY <2>4 DEF SaveProcessed, SaveProcessedFails, LogsHandled, loopVars,
                logVars, handlerVars, Commits, Stays
  <2>5. CASE SaveProcessed
    <3>1. Store!SaveBlock(RecordOf(block, ChainId))
      BY <2>5 DEF SaveProcessed
    <3>2. block.number \in Nat
      BY <2>4, <2>5 DEF CallInv, BlockOn
    <3>3. Shared' /\ Saves(block.number, block.hash, Kept, Kept', Processed')
      BY <2>4, <2>5, <3>1, <3>2, SavedHereToo
    <3> QED
      BY <2>4, <2>5, <3>3 DEF LoopMoves
  <2>6. CASE SaveProcessedFails
    BY <1>3, <2>4, <2>6 DEF LoopMoves, SaveProcessedFails
  <2>7. CASE Prune \/ PruneSkips
    <3>1. pc = "pruning" /\ Advance /\ UNCHANGED <<canon, view, logged>>
      BY <2>7 DEF Prune, PruneSkips, handlerVars
    <3>2. Shared' /\ Spares(Kept, Processed, Kept', Processed')
      <4>1. CASE Prune
        BY <3>1, <4>1 DEF Prune, Store!DeleteBlock, Shared, Spares, Kept, Processed
      <4>2. CASE PruneSkips
        BY <1>3, <4>2 DEF PruneSkips
      <4> QED
        BY <2>7, <4>1, <4>2
    <3>3. Ends(Here, Here') \/ Advances(Here, Here')
      BY <3>1 DEF Advance, Return, LocalsDropped, logVars, RecordOf, Ends, Advances
    <3> QED
      BY <3>1, <3>2, <3>3 DEF LoopMoves
  <2> QED
    BY <1>9, <2>1, <2>2, <2>3, <2>5, <2>6, <2>7 DEF ProcessBlockLogs
<1>10. CASE ReconcileReorg
  BY <1>2, <1>10 DEF ReconcileReorg, WalkFails, WalkOrphan, WalkMatch,
                    WalkMissing, WalkExhausted, Settle, SettleFails,
                    Report, Undo, UndoFails
<1> QED
  BY <1>6, <1>7, <1>8, <1>9, <1>10

\* What the other loop does in a step, on a chain that only grows: it never meets a
\* block that does not extend the last one.
LEMMA ThereMoves ==
    ASSUME GrowingSetting, Shared, KeptInv(Kept, Processed, canon, view, logged),
           CallInv(There, canon, view, logged),
           \/ Other!Cancel \/ Other!Start \/ Other!ProcessNextBlock
           \/ Other!ProcessBlockLogs \/ Other!ReconcileReorg
    PROVE  /\ canon' = canon /\ Shared'
           /\ LoopMoves(There, There', Kept, Processed, Kept', Processed', view, logged,
                        view', logged', canon)
<1> DEFINE Moved == /\ canon' = canon /\ Shared'
                    /\ LoopMoves(There, There', Kept, Processed, Kept', Processed',
                                 view, logged, view', logged', canon)
<1> USE DEF There
<1>1. GenesisBlockNumber \in Nat \ {0} /\ Len(canon) \in Nat /\ GenesisBlockNumber < Len(canon)
  BY SkipNumbers DEF Shared
<1>2. /\ pc2 \in {"stopped", "waiting", "starting", "fetching", "logs", "pruning"}
      /\ pc2 # "logs" => replies2 = {}
  BY DEF CallInv
<1>3. UNCHANGED <<canon, Other!storeVars>> =>
         canon' = canon /\ Shared' /\ Spares(Kept, Processed, Kept', Processed')
  BY DEF Other!storeVars, Shared, Spares, Kept, Processed
<1>4. ASSUME UNCHANGED <<canon, Other!storeVars, Other!handlerVars>>,
             pc2' \in {"stopped", "waiting"}, replies2' = {}
      PROVE  Moved
  BY <1>3, <1>4 DEF LoopMoves, Ends, Other!handlerVars
<1>5. ASSUME UNCHANGED <<canon, Other!storeVars, pc2, Other!loopVars, Other!logVars, Other!handlerVars>>
      PROVE  Moved
  BY <1>3, <1>5 DEF LoopMoves, Other!loopVars, Other!logVars, Other!handlerVars
<1>6. CASE Other!Cancel
  BY <1>5, <1>6 DEF Other!Cancel
<1>7. CASE Other!Start
  <2>1. CASE Other!StartResume \/ Other!StartFails
    BY <1>2, <1>4, <2>1 DEF Other!StartResume, Other!StartFails, Other!LocalsDropped, Other!logVars
  <2>2. CASE Other!StartFresh
    <3>1. /\ pc2 = "stopped" /\ pc2' = "starting" /\ blockNum2' = GenesisBlockNumber
          /\ UNCHANGED <<canon, Other!storeVars, replies2, view, logged>>
      BY <1>1, <2>2 DEF Other!StartFresh, Other!logVars, Other!handlerVars
    <3> QED
      BY <1>3, <3>1 DEF LoopMoves, Begins
  <2>3. CASE Other!StartAnchor
    <3>1. /\ pc2 = "starting" /\ pc2' = "waiting" /\ replies2' = {}
          /\ blockNum2 = GenesisBlockNumber
          /\ UNCHANGED <<canon, view, logged>>
      BY <2>3 DEF Other!StartAnchor, Other!Return, Other!LocalsDropped, Other!handlerVars, CallInv
    <3> DEFINE b == GetBlockByNumber(blockNum2)
    <3>2. blockNum2 \in Nat /\ b = BlockOn(blockNum2, canon)
      BY <1>1, <3>1, BlockShown DEF Shared
    <3>3. b.number = blockNum2 /\ b.hash = canon[blockNum2 + 1]
      BY <3>2 DEF BlockOn
    <3>4. Store!SaveBlock(RecordOf(b, ChainId))
      BY <2>3 DEF Other!StartAnchor,
                  Store!SaveBlock, Store!GetBlock, Store!HasKey, RecordOf, Other!RecordOf,
                  Other!Store!SaveBlock, Other!Store!GetBlock, Other!Store!HasKey,
                  GetBlockByNumber, NullBlock, Other!GetBlockByNumber, Other!NullBlock
    <3> HIDE DEF b
    <3>5. Shared' /\ Saves(b.number, b.hash, Kept, Kept', Processed')
      BY <3>1, <3>2, <3>3, <3>4, SavedHereToo
    <3> QED
      BY <3>1, <3>3, <3>5 DEF LoopMoves, Ends
  <2> QED
    BY <1>7, <2>1, <2>2, <2>3 DEF Other!Start
<1>8. CASE Other!ProcessNextBlock
  <2>1. CASE Other!TickSkips
    BY <1>5, <2>1 DEF Other!TickSkips, Other!vars
  <2>2. CASE Other!LoopExits \/ Other!FetchFails
    BY <1>2, <1>4, <2>2 DEF Other!LoopExits, Other!FetchFails, Other!Return, Other!LocalsDropped, Other!logVars
  <2>3. CASE Other!Tick
    <3>1. PICK r \in Other!LastRecord :
             /\ Other!GetLatestBlock > r.number
             /\ last2' = r /\ target2' = Other!GetLatestBlock /\ blockNum2' = r.number + 1
      BY <2>3 DEF Other!Tick
    <3>2. r \in Kept
      BY <3>1 DEF Other!LastRecord, Other!Store!GetLastProcessedBlock, Other!Store!GetBlock,
                  Other!Store!HasKey, Kept
    <3>3. /\ pc2 = "waiting" /\ pc2' = "fetching"
          /\ UNCHANGED <<canon, Other!storeVars, replies2, view, logged>>
      BY <2>3 DEF Other!Tick, Other!logVars, Other!handlerVars
    <3>4. Ticks(There, There', Kept, canon)
      BY <3>1, <3>2, <3>3 DEF Other!GetLatestBlock, Ticks
    <3> QED
      BY <1>3, <3>3, <3>4 DEF LoopMoves
  <2>4. ASSUME pc2 = "fetching"
        PROVE  /\ Other!GetBlockByNumber(blockNum2) = BlockOn(blockNum2, canon)
               /\ BlockOn(blockNum2, canon).parentHash = last2.hash
    <3>1. /\ blockNum2 \in Nat /\ GenesisBlockNumber < blockNum2
          /\ target2 \in Nat /\ blockNum2 <= target2 /\ target2 < Len(canon)
          /\ last2.hash = canon[blockNum2]
      BY <2>4 DEF CallInv
    <3>2. blockNum2 < Len(canon) /\ GenesisBlockNumber <= blockNum2
      BY <1>1, <3>1
    <3>3. GetBlockByNumber(blockNum2) = BlockOn(blockNum2, canon)
      BY <3>1, <3>2, BlockShown DEF Shared
    <3> QED
      BY <3>1, <3>3 DEF BlockOn, GetBlockByNumber, NullBlock, Other!GetBlockByNumber, Other!NullBlock
  <2>5. CASE Other!FetchReorg
    BY <2>4, <2>5 DEF Other!FetchReorg
  <2>6. CASE Other!FetchAccept
    <3>1. /\ pc2 = "fetching" /\ pc2' = "logs" /\ UNCHANGED <<canon, Other!storeVars>>
          /\ UNCHANGED <<blockNum2, target2, last2, replies2, logged>>
          /\ block2' = Other!GetBlockByNumber(blockNum2) /\ pending2' = Batches
      BY <2>6 DEF Other!FetchAccept
    <3>2. view' = view \cup {Other!GetBlockByNumber(blockNum2)}
      BY <2>6 DEF Other!FetchAccept, Other!Fails, GrowingSetting, DeliverySetting
    <3>3. Accepts(There, There', canon)
      BY <2>4, <3>1 DEF Accepts, Stays
    <3>4. view \subseteq view' /\ block2' \in view'
      BY <3>1, <3>2
    <3> QED
      BY <1>3, <3>1, <3>3, <3>4 DEF LoopMoves
  <2> QED
    BY <1>8, <2>1, <2>2, <2>3, <2>5, <2>6 DEF Other!ProcessNextBlock
<1>9. CASE Other!ProcessBlockLogs
  <2>1. ASSUME NEW i \in Batches, Other!BatchReply(i) \/ Other!BatchFails(i) PROVE Moved
    <3>1. /\ pc2 = "logs" /\ pc2' = "logs"
          /\ UNCHANGED <<canon, Other!storeVars, view, logged, blockNum2, target2, last2, block2>>
      BY <2>1 DEF Other!BatchReply, Other!BatchFails, Other!loopVars, Other!handlerVars
    <3>2. /\ blockNum2 \in Nat /\ GenesisBlockNumber < blockNum2
          /\ target2 \in Nat /\ blockNum2 <= target2 /\ target2 < Len(canon)
          /\ block2.number = blockNum2
      BY <3>1 DEF CallInv, BlockOn
    <3>3. LogsAt(blockNum2) = canon[blockNum2 + 1]
      BY <1>1, <3>2, BlockShown DEF Shared
    <3>4. \/ /\ pending2' = pending2 \ {i} /\ fetchErr2' = fetchErr2
             /\ replies2' = replies2 \cup {[batch |-> i, from |-> canon[blockNum2 + 1]]}
          \/ fetchErr2' = TRUE /\ replies2' = replies2
      BY <2>1, <3>2, <3>3 DEF Other!BatchReply, Other!BatchFails, LogsAt, Other!LogsAt
    <3>5. Answers(There, There', canon)
      BY <3>1, <3>4 DEF Answers, Stays
    <3> QED
      BY <1>3, <3>1, <3>5 DEF LoopMoves
  <2>2. ASSUME NEW reply \in replies2, Other!HandleLog(reply) PROVE Moved
    <3>1. /\ pc2 = "logs" /\ pc2' = "logs"
          /\ UNCHANGED <<canon, Other!storeVars, view, blockNum2, target2, last2, block2>>
          /\ UNCHANGED <<pending2, fetchErr2>>
          /\ replies2' = replies2 \ {reply}
          /\ logged' = logged \cup {[block |-> block2, batch |-> reply.batch, from |-> reply.from]}
      BY <2>2 DEF Other!HandleLog, Other!loopVars
    <3>2. Hands(There, There', logged')
      BY <3>1 DEF Hands, Stays
    <3>3. view \subseteq view' /\ logged \subseteq logged'
      BY <3>1
    <3> QED
      BY <1>3, <3>1, <3>2, <3>3 DEF LoopMoves
  <2>3. CASE Other!LogsFetchFails \/ Other!DecodeFails \/ Other!HandleLogFails
    BY <1>4, <2>3 DEF Other!LogsFetchFails, Other!DecodeFails, Other!HandleLogFails,
                     Other!Return, Other!LocalsDropped
  <2>4. ASSUME Other!SaveProcessed \/ Other!SaveProcessedFails
        PROVE  /\ Commits(There, There') /\ UNCHANGED <<canon, view, logged>>
               /\ pc2 = "logs"
    BY <2>4 DEF Other!SaveProcessed, Other!SaveProcessedFails, Other!LogsHandled, Other!loopVars,
                Other!logVars, Other!handlerVars, Commits, Stays
  <2>5. CASE Other!SaveProcessed
    <3>1. Store!SaveBlock(RecordOf(block2, ChainId))
      BY <2>5 DEF Other!SaveProcessed,
                  Store!SaveBlock, Store!GetBlock, Store!HasKey, RecordOf, Other!RecordOf,
                  Other!Store!SaveBlock, Other!Store!GetBlock, Other!Store!HasKey
    <3>2. block2.number \in Nat
      BY <2>4, <2>5 DEF CallInv, BlockOn
    <3>3. Shared' /\ Saves(block2.number, block2.hash, Kept, Kept', Processed')
      BY <2>4, <2>5, <3>1, <3>2, SavedHereToo
    <3> QED
      BY <2>4, <2>5, <3>3 DEF LoopMoves
  <2>6. CASE Other!SaveProcessedFails
    BY <1>3, <2>4, <2>6 DEF LoopMoves, Other!SaveProcessedFails
  <2>7. CASE Other!Prune \/ Other!PruneSkips
    <3>1. pc2 = "pruning" /\ Other!Advance /\ UNCHANGED <<canon, view, logged>>
      BY <2>7 DEF Other!Prune, Other!PruneSkips, Other!handlerVars
    <3>2. Shared' /\ Spares(Kept, Processed, Kept', Processed')
      <4>1. CASE Other!Prune
        BY <3>1, <4>1 DEF Other!Prune, Other!Store!DeleteBlock, Shared, Spares, Kept, Processed
      <4>2. CASE Other!PruneSkips
        BY <1>3, <4>2 DEF Other!PruneSkips
      <4> QED
        BY <2>7, <4>1, <4>2
    <3>3. Ends(There, There') \/ Advances(There, There')
      BY <3>1 DEF Other!Advance, Other!Return, Other!LocalsDropped, Other!logVars, Other!RecordOf, Ends, Advances
    <3> QED
      BY <3>1, <3>2, <3>3 DEF LoopMoves
  <2> QED
    BY <1>9, <2>1, <2>2, <2>3, <2>5, <2>6, <2>7 DEF Other!ProcessBlockLogs
<1>10. CASE Other!ReconcileReorg
  BY <1>2, <1>10 DEF Other!ReconcileReorg, Other!WalkFails, Other!WalkOrphan, Other!WalkMatch,
                    Other!WalkMissing, Other!WalkExhausted, Other!Settle, Other!SettleFails,
                    Other!Report, Other!Undo, Other!UndoFails
<1> QED
  BY <1>6, <1>7, <1>8, <1>9, <1>10

\* The invariant holds before either loop has run.
LEMMA SkipInit == ASSUME GrowingSetting, BothInit PROVE SkipInv
<1>1. /\ canon \in Chains /\ blocks = {} /\ pc = "stopped" /\ pc2 = "stopped"
      /\ replies = {} /\ replies2 = {}
      /\ lastProcessedBlocks = [c \in ChainIds |-> Store!NoBlock]
  BY DEF BothInit, Init, Store!New, Other!Init
<1>2. Kept = {} /\ Processed = -1 /\ Shared
  BY <1>1, ConfigAssumption, SkipNumbers DEF Kept, Processed, Shared
<1>3. /\ Here.pc = "stopped" /\ Here.replies = {}
      /\ There.pc = "stopped" /\ There.replies = {}
  BY <1>1 DEF Here, There
<1>4. KeptInv(Kept, Processed, canon, view, logged)
  BY <1>2, SkipNumbers DEF KeptInv, UpTo, Shared
<1> QED
  BY <1>2, <1>3, <1>4 DEF SkipInv, CallInv

\* A store without records has none of a block that was skipped.
LEMMA SkipEmpty ==
    ASSUME GrowingSetting, Shared, blocks' = {},
           lastProcessedBlocks' = [c \in ChainIds |-> Store!NoBlock], canon' = canon
    PROVE  Shared' /\ KeptInv(Kept', Processed', canon', view', logged')
<1>1. Kept' = {} /\ Processed' = -1 /\ Shared'
  BY ConfigAssumption, SkipNumbers DEF Kept, Processed, Shared
<1> QED
  BY <1>1, SkipNumbers DEF KeptInv, UpTo, Shared

\* Every step of the loops and of what is around them keeps it.
LEMMA SkipNext ==
    ASSUME GrowingSetting, SkipInv, [BothNext]_bothVars
    PROVE  SkipInv'
<1>1. /\ Shared /\ canon \in Chains
      /\ KeptInv(Kept, Processed, canon, view, logged)
      /\ CallInv(Here, canon, view, logged) /\ CallInv(There, canon, view, logged)
  BY DEF SkipInv, Shared
<1>2. SUFFICES /\ Shared'
               /\ KeptInv(Kept', Processed', canon', view', logged')
               /\ CallInv(Here', canon', view', logged')
               /\ CallInv(There', canon', view', logged')
  BY <1>2 DEF SkipInv
<1>3. CASE ChainMoves /\ UNCHANGED locals2
  <2>1. /\ Kept' = Kept /\ Processed' = Processed /\ Here' = Here /\ There' = There
        /\ view' = view /\ logged' = logged
    BY <1>3 DEF ChainMoves, locals2, loopVars, logVars, storeVars, handlerVars, Kept, Processed,
                Here, There
  <2>2. <<canon, canon'>> \in Moves /\ canon' \in Chains /\ Shared'
    BY <1>1, <1>3 DEF ChainMoves, storeVars, Shared
  <2> QED
    BY <1>1, <2>1, <2>2, SkipGrows
<1>4. CASE CloseStore /\ UNCHANGED locals2
  <2>1. /\ Here' = Here /\ There' = There
        /\ canon' = canon /\ view' = view /\ logged' = logged
    BY <1>4 DEF CloseStore, locals2, loopVars, logVars, handlerVars, Here, There
  <2>2. Shared' /\ KeptInv(Kept', Processed', canon', view', logged')
    BY <1>1, <1>4, <2>1, SkipEmpty DEF CloseStore, Store!Close
  <2> QED
    BY <1>1, <2>1, <2>2
<1>5. CASE BothCrash
  <2>1. /\ Here'.pc = "stopped" /\ Here'.replies = {}
        /\ There'.pc = "stopped" /\ There'.replies = {}
        /\ canon' = canon /\ view' = view /\ logged' = logged
    BY <1>5 DEF BothCrash, Crash, LocalsDropped, Other!LocalsDropped, handlerVars, Here, There
  <2>2. Shared' /\ KeptInv(Kept', Processed', canon', view', logged')
    <3>1. CASE UNCHANGED storeVars
      <4>1. Kept' = Kept /\ Processed' = Processed /\ Shared'
        BY <1>1, <2>1, <3>1 DEF storeVars, Kept, Processed, Shared
      <4> QED
        BY <1>1, <2>1, <4>1
    <3>2. CASE blocks' = {} /\ lastProcessedBlocks' = [c \in ChainIds |-> Store!NoBlock]
      BY <1>1, <2>1, <3>2, SkipEmpty
    <3> QED
      BY <1>5, <3>1, <3>2 DEF BothCrash, Crash
  <2> QED
    BY <2>1, <2>2 DEF CallInv
<1>6. CASE Loop
  <2>1. There' = There
    BY <1>6 DEF Loop, locals2, There
  <2>2. /\ canon' = canon /\ Shared'
        /\ LoopMoves(Here, Here', Kept, Processed, Kept', Processed', view, logged,
                     view', logged', canon)
    BY <1>1, <1>6, HereMoves DEF Loop
  <2>3. view \subseteq view' /\ logged \subseteq logged'
    BY <2>2 DEF LoopMoves
  <2>4. CallInv(There, canon, view', logged')
    BY <1>1, <2>3, HandedStays
  <2> QED
    BY <1>1, <2>1, <2>2, <2>4, CallMoves, KeptMoves
<1>7. CASE OtherLoop
  <2>1. Here' = Here
    BY <1>7 DEF OtherLoop, locals, loopVars, logVars, Here
  <2>2. /\ canon' = canon /\ Shared'
        /\ LoopMoves(There, There', Kept, Processed, Kept', Processed', view, logged,
                     view', logged', canon)
    BY <1>1, <1>7, ThereMoves DEF OtherLoop
  <2>3. view \subseteq view' /\ logged \subseteq logged'
    BY <2>2 DEF LoopMoves
  <2>4. CallInv(Here, canon, view', logged')
    BY <1>1, <2>3, HandedStays
  <2> QED
    BY <1>1, <2>1, <2>2, <2>4, CallMoves, KeptMoves
<1>8. CASE UNCHANGED bothVars
  <2>1. /\ Kept' = Kept /\ Processed' = Processed /\ Here' = Here /\ There' = There
        /\ canon' = canon /\ view' = view /\ logged' = logged /\ Shared'
    BY <1>1, <1>8 DEF bothVars, vars, locals2, loopVars, logVars, storeVars, handlerVars, Kept,
                      Processed, Here, There, Shared
  <2> QED
    BY <1>1, <2>1
<1> QED
  BY <1>3, <1>4, <1>5, <1>6, <1>7, <1>8 DEF BothNext

\* Two loops on one store skip no block while the chain only grows: in whatever
\* order they are scheduled, whatever each saves and prunes of the other's, and
\* whichever calls fail, every block up to the last processed one has been handed
\* over with every batch of its own logs (evmChainPoller.go:161, 205, 316).
THEOREM TwoLoopsSkipNothing ==
    ASSUME GrowingSetting
    PROVE  BothSpec => []NothingSkipped
<1>1. BothInit => SkipInv
  BY SkipInit
<1>2. SkipInv /\ [BothNext]_bothVars => SkipInv'
  BY SkipNext
<1>3. SkipInv => NothingSkipped
  <2> SUFFICES ASSUME SkipInv, NEW n \in GenesisBlockNumber + 1 .. Processed
               PROVE  HandedOver(n)
    BY DEF NothingSkipped
  <2>1. /\ canon \in Chains /\ Processed \in Int /\ Processed < Len(canon)
        /\ UpTo(Processed, canon, view, logged)
    BY DEF SkipInv, Shared, KeptInv
  <2>2. n \in Nat /\ GenesisBlockNumber <= n /\ n < Len(canon)
    BY <2>1, SkipNumbers
  <2>3. GetBlockByNumber(n) = BlockOn(n, canon)
    BY <2>1, <2>2, BlockShown
  <2>4. BlockOn(n, canon).hash = canon[n + 1]
    BY DEF BlockOn
  <2>5. BlockOn(n, canon) \in view /\ \A i \in Batches : LogsOn(n, i, canon) \in logged
    BY <2>1 DEF UpTo
  <2> QED
    BY <2>3, <2>4, <2>5 DEF HandedOver, LogsOn
<1> QED
  BY <1>1, <1>2, <1>3, PTL DEF BothSpec

=============================================================================
