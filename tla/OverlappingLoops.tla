-------------------------- MODULE OverlappingLoops --------------------------
(***************************************************************************)
(* Two poll loops of one poller: Start begins a loop and nothing keeps it  *)
(* from being called again (evmChainPoller.go:161), by mistake or because  *)
(* the application restarts the poller before the old loop has seen that   *)
(* its context is cancelled.  The loops share the store and the handler;   *)
(* the other loop's locals have names of their own here.                   *)
(***************************************************************************)
EXTENDS EVMChainPoller

VARIABLES pc2, cancelled2, last2, target2, blockNum2, block2, pending2, replies2, fetchErr2,
          parentNum2, parentRec2, orphans2

Other == INSTANCE EVMChainPoller WITH
    pc <- pc2, cancelled <- cancelled2,
    last <- last2, target <- target2, blockNum <- blockNum2, block <- block2,
    pending <- pending2, replies <- replies2, fetchErr <- fetchErr2,
    parentNum <- parentNum2, parentRec <- parentRec2, orphans <- orphans2

locals == <<pc, cancelled, loopVars, logVars, walkVars>>
locals2 == <<pc2, cancelled2, last2, target2, blockNum2, block2, pending2, replies2, fetchErr2,
             parentNum2, parentRec2, orphans2>>
bothVars == <<vars, locals2>>

-----------------------------------------------------------------------------
BothInit == Init /\ Other!Init

Loop == (Cancel \/ Start \/ ProcessNextBlock \/ ProcessBlockLogs \/ ReconcileReorg)
        /\ UNCHANGED locals2

OtherLoop ==
    (Other!Cancel \/ Other!Start \/ Other!ProcessNextBlock \/ Other!ProcessBlockLogs
       \/ Other!ReconcileReorg)
    /\ UNCHANGED locals

\* The process dies with both loops.
BothCrash == Crash /\ pc2' = "stopped" /\ cancelled2' = FALSE /\ Other!LocalsDropped

BothNext ==
    ((ChainMoves \/ CloseStore) /\ UNCHANGED locals2) \/ BothCrash \/ Loop \/ OtherLoop

BothSpec == BothInit /\ [][BothNext]_bothVars

\* The start block is configured and exists, no call of HandleBlock fails, and the
\* chain only grows.
GrowingSetting ==
    /\ GenesisBlockNumber > 0 /\ \A c \in Chains : GenesisBlockNumber < Len(c)
    /\ DeliverySetting
    /\ \A m \in Moves : /\ Len(m[1]) <= Len(m[2])
                        /\ \A n \in 1 .. Len(m[1]) : m[1][n] = m[2][n]

-----------------------------------------------------------------------------
(* Properties *)

\* The block of number n has been handed over, and every batch of its own logs.
HandedOver(n) ==
    LET b == GetBlockByNumber(n)
    IN  /\ b \in view
        /\ \A i \in Batches : [block |-> b, batch |-> i, from |-> b.hash] \in logged

\* While the chain only grows, no block is skipped: each up to the last processed
\* one has been delivered with its logs (evmChainPoller.go:205, 316).  This holds
\* although a loop may set the last processed block back or forth under the other,
\* prune the record the other has just made the last one, and begin again at the
\* start block when it finds none, in whatever order the two are scheduled, and when
\* the store fails, is closed, or goes down with the process.
NothingSkipped == \A n \in GenesisBlockNumber + 1 .. Processed : HandedOver(n)

=============================================================================
