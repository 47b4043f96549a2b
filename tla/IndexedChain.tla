---------------------------- MODULE IndexedChain ----------------------------
(***************************************************************************)
(* What the poller promises of the records it goes by: they are a piece of *)
(* one chain.  The piece is begun at some block, grows by one child of its *)
(* tip at a time, is cut back from the top by a reorg, forgets old blocks, *)
(* and is given up when the store is lost.                                 *)
(***************************************************************************)
EXTENDS Integers

CONSTANT Block      \* the blocks there are: records with number, hash, parentHash

VARIABLE index      \* the piece of the chain that is indexed

Init == index = {}

IsTip(t) == t \in index /\ \A b \in index : b.number <= t.number

\* Begin, or begin anew, at a block.
Anchor(b) == index' = {b}

\* Only a child of the tip is added.
Extend(b) ==
    /\ \E t \in index : IsTip(t) /\ b.number = t.number + 1 /\ b.parentHash = t.hash
    /\ index' = index \cup {b}

\* A reorg drops a block and everything above it.
Rollback(b) == index' = {a \in index : a.number < b.number}

\* Only a block below the tip is forgotten.
Forget(b) ==
    /\ ~IsTip(b)
    /\ index' = index \ {b}

Lose == index' = {}

Next ==
    \/ \E b \in Block : Anchor(b) \/ Extend(b)
    \/ \E b \in index : Rollback(b) \/ Forget(b)
    \/ Lose

Spec == Init /\ [][Next]_index

=============================================================================
