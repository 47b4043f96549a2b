----------------------- MODULE ChainPersistenceProofs -----------------------
(***************************************************************************)
(* Theorems about ChainPersistence, for any number of chains, block        *)
(* numbers and hashes.                                                     *)
(***************************************************************************)
EXTENDS ChainPersistence, TLAPS

-----------------------------------------------------------------------------
(* Type correctness *)

\* The new store has its type.
LEMMA StoreTypeInit == Init => TypeOK
BY DEF Init, New, TypeOK

\* Every method keeps the type of the store.
LEMMA StoreTypeStep ==
    ASSUME TypeOK, [Next]_vars
    PROVE  TypeOK'
<1>1. ASSUME NEW b \in BlockRecord, SaveBlock(b)
      PROVE  TypeOK'
  BY <1>1 DEF TypeOK, SaveBlock, GetBlock, HasKey, BlockRecord
<1>2. ASSUME NEW c \in ChainIds, NEW n \in Numbers, DeleteBlock(c, n)
      PROVE  TypeOK'
  BY <1>2 DEF TypeOK, DeleteBlock
<1>3. CASE Close
  BY <1>3 DEF TypeOK, Close
<1>4. CASE UNCHANGED vars
  BY <1>4 DEF TypeOK, vars
<1> QED
  BY <1>1, <1>2, <1>3, <1>4 DEF Next

\* In every reachable state the two maps have their types: no sequence of saves,
\* deletions and closes leaves two records under one key (memory.go:35).
THEOREM StoreTypeCorrect == Spec => []TypeOK
BY StoreTypeInit, StoreTypeStep, PTL DEF Spec

-----------------------------------------------------------------------------
(* The action properties *)

\* What a step may do to the last processed record of a chain.
LastKept(c) ==
    LET before == GetLastProcessedBlock(c)
        after  == GetBlock(c, lastProcessedBlocks[c])'
    IN  \/ after \subseteq before
        \/ \E b \in BlockRecord : SaveBlock(b) /\ b.chainId = c /\ after = {b}

\* No step moves the last processed block of a chain but a save on that chain.
LEMMA LastKeptByStep ==
    ASSUME TypeOK, [Next]_vars, NEW c \in ChainIds
    PROVE  LastKept(c)
<1>1. ASSUME NEW b \in BlockRecord, SaveBlock(b)
      PROVE  LastKept(c)
  <2>1. CASE b.chainId = c
    <3>1. lastProcessedBlocks'[c] = b.number
      BY <1>1, <2>1 DEF SaveBlock, TypeOK
    <3>2. GetBlock(c, lastProcessedBlocks[c])' = {b}
      BY <1>1, <2>1, <3>1 DEF SaveBlock, GetBlock, HasKey
    <3> QED
      BY <1>1, <2>1, <3>2 DEF LastKept
  <2>2. CASE b.chainId # c
    <3>1. lastProcessedBlocks'[c] = lastProcessedBlocks[c]
      BY <1>1, <2>2 DEF SaveBlock, TypeOK
    <3> QED
      BY <1>1, <2>2, <3>1 DEF LastKept, GetLastProcessedBlock, SaveBlock, GetBlock, HasKey
  <2> QED
    BY <2>1, <2>2
<1>2. ASSUME NEW d \in ChainIds, NEW n \in Numbers, DeleteBlock(d, n)
      PROVE  LastKept(c)
  BY <1>2 DEF LastKept, GetLastProcessedBlock, DeleteBlock, GetBlock
<1>3. CASE Close
  BY <1>3 DEF LastKept, GetBlock, Close
<1>4. CASE UNCHANGED vars
  BY <1>4 DEF LastKept, GetLastProcessedBlock, GetBlock, vars
<1> QED
  BY <1>1, <1>2, <1>3, <1>4 DEF Next

\* Whatever the callers of the store do, the answer of GetLastProcessedBlock for a
\* chain changes only to an error or to the record just saved on that chain
\* (memory.go:40, 79).
THEOREM LastMovesOnlyBySave == Spec => LastChangesOnlyBySave
<1>1. TypeOK /\ [Next]_vars => [\A c \in ChainIds : LastKept(c)]_vars
  BY LastKeptByStep
<1> QED
  BY <1>1, StoreTypeCorrect, PTL DEF Spec, LastChangesOnlyBySave, LastKept

\* What a step may do to a record.
Kept(r) ==
    \/ r \in blocks'
    \/ closed'
    \/ DeleteBlock(r.chainId, r.number)
    \/ \E b \in BlockRecord : SaveBlock(b) /\ HasKey(r, b.chainId, b.number)

\* No step removes a record but a save or deletion of its key, or Close.
LEMMA KeptByStep ==
    ASSUME TypeOK, [Next]_vars, NEW r \in blocks
    PROVE  Kept(r)
<1>1. ASSUME NEW b \in BlockRecord, SaveBlock(b)
      PROVE  Kept(r)
  BY <1>1 DEF Kept, SaveBlock, GetBlock
<1>2. ASSUME NEW c \in ChainIds, NEW n \in Numbers, DeleteBlock(c, n)
      PROVE  Kept(r)
  BY <1>2 DEF Kept, DeleteBlock, GetBlock, HasKey
<1>3. CASE Close
  BY <1>3 DEF Kept, Close
<1>4. CASE UNCHANGED vars
  BY <1>4 DEF Kept, vars
<1> QED
  BY <1>1, <1>2, <1>3, <1>4 DEF Next

\* A record is there, unchanged, until its key is saved or deleted or the store is
\* closed: no write at another height or on another chain disturbs it
\* (memory.go:64, 103).
THEOREM RecordsAreStable == Spec => RecordsStayPut
<1>1. TypeOK /\ [Next]_vars => [\A r \in blocks : Kept(r)]_vars
  BY KeptByStep
<1> QED
  BY <1>1, StoreTypeCorrect, PTL DEF Spec, RecordsStayPut, Kept

=============================================================================
