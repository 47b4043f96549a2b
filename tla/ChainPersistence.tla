-------------------------- MODULE ChainPersistence --------------------------
(***************************************************************************)
(* The block store behind IChainPollerPersistence, as implemented by       *)
(* InMemoryChainPollerPersistence (persistence/memory/memory.go).          *)
(*                                                                         *)
(* Every method holds the store's mutex from its first to its last line,   *)
(* so every method is one atomic step.  The two Go maps are modelled by    *)
(* their meaning: "blocks" is a set of records with at most one record per *)
(* key (chain, number), "lastProcessedBlocks" gives each chain the number  *)
(* it last saved, or NoBlock.                                              *)
(***************************************************************************)
EXTENDS Integers

CONSTANTS
    ChainIds,   \* the chains that share the store
    Numbers,    \* the block numbers of the domain (uint64)
    Hashes      \* the block hashes, the empty string of a zero block included

ASSUME NumbersAssumption == Numbers \subseteq Nat

VARIABLES
    closed,               \* has Close been called?
    lastProcessedBlocks,  \* chain -> number of the block saved last, or NoBlock
    blocks                \* the block records

vars == <<closed, lastProcessedBlocks, blocks>>

\* A chain that is not a key of the Go map lastProcessedBlocks.
NoBlock == -1

BlockRecord ==
    [chainId : ChainIds, number : Numbers, hash : Hashes, parentHash : Hashes]

-----------------------------------------------------------------------------
(* The read operations: the set of records they return, empty for an error *)

\* Mutant: a key without the chain.
HasKeyOfAnyChain(r, c, n) == r.number = n

HasKey(r, c, n) == r.chainId = c /\ r.number = n

GetBlock(c, n) == {r \in blocks : HasKey(r, c, n)}

GetLastProcessedBlock(c) == GetBlock(c, lastProcessedBlocks[c])

-----------------------------------------------------------------------------
(* The operations that change the store *)

New ==
    /\ closed = FALSE
    /\ lastProcessedBlocks = [c \in ChainIds |-> NoBlock]
    /\ blocks = {}

\* Mutant: an append where the map replaces.
SaveBlockAppends(b) ==
    /\ ~closed
    /\ blocks' = blocks \cup {b}
    /\ lastProcessedBlocks' = [lastProcessedBlocks EXCEPT ![b.chainId] = b.number]
    /\ UNCHANGED closed

\* The record replaces the one with its key, and its number becomes the last
\* processed one of its chain, whether it is higher or lower than before.
SaveBlock(b) ==
    /\ ~closed
    /\ blocks' = (blocks \ GetBlock(b.chainId, b.number)) \cup {b}
    /\ lastProcessedBlocks' = [lastProcessedBlocks EXCEPT ![b.chainId] = b.number]
    /\ UNCHANGED closed

\* Mutant: everything up to the number goes with it.
DeleteBlockAndBelow(c, n) ==
    /\ ~closed
    /\ GetBlock(c, n) # {}
    /\ blocks' = {r \in blocks : r.chainId # c \/ r.number > n}
    /\ UNCHANGED <<closed, lastProcessedBlocks>>

\* Deleting a record leaves lastProcessedBlocks alone, even when the record
\* deleted is the last processed one.
DeleteBlock(c, n) ==
    /\ ~closed
    /\ GetBlock(c, n) # {}
    /\ blocks' = blocks \ GetBlock(c, n)
    /\ UNCHANGED <<closed, lastProcessedBlocks>>

\* Close drops both maps.
Close ==
    /\ ~closed
    /\ closed' = TRUE
    /\ lastProcessedBlocks' = [c \in ChainIds |-> NoBlock]
    /\ blocks' = {}

-----------------------------------------------------------------------------
(* The store on its own, used by any number of callers *)

Init == New

Next ==
    \/ \E b \in BlockRecord : SaveBlock(b)
    \/ \E c \in ChainIds, n \in Numbers : DeleteBlock(c, n)
    \/ Close

Spec == Init /\ [][Next]_vars

-----------------------------------------------------------------------------
(* Properties *)

\* The maps keep their types: no two records share a key (memory.go:35), and a
\* chain with no record saved has no last processed block.
TypeOK ==
    /\ closed \in BOOLEAN
    /\ lastProcessedBlocks \in [ChainIds -> Numbers \cup {NoBlock}]
    /\ blocks \subseteq BlockRecord
    /\ \A r, s \in blocks : HasKey(r, s.chainId, s.number) => r = s

\* What GetLastProcessedBlock answers for a chain (memory.go:40) changes only by
\* becoming an error or by a SaveBlock on that very chain, whose record it then
\* is: a deletion never brings back an older record, and pollers of other
\* chains that share the store never move it.
LastChangesOnlyBySave ==
    [][\A c \in ChainIds :
          LET before == GetLastProcessedBlock(c)
              after  == GetBlock(c, lastProcessedBlocks[c])'
          IN  \/ after \subseteq before
              \/ \E b \in BlockRecord :
                    SaveBlock(b) /\ b.chainId = c /\ after = {b}]_vars

\* A saved record stays readable, unchanged, until its own key is saved again or
\* deleted or the store is closed (memory.go:64, 103): writes at other heights
\* and on other chains do not disturb it, which the ancestor search relies on.
RecordsStayPut ==
    [][\A r \in blocks :
          \/ r \in blocks'
          \/ closed'
          \/ DeleteBlock(r.chainId, r.number)
          \/ \E b \in BlockRecord : SaveBlock(b) /\ HasKey(r, b.chainId, b.number)]_vars

=============================================================================
