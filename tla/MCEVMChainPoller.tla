-------------------------- MODULE MCEVMChainPoller --------------------------
(***************************************************************************)
(* Instances of EVMChainPoller for TLC: trees of blocks, the chains they   *)
(* hold and the ways an endpoint may pass from one to another.             *)
(***************************************************************************)
EXTENDS EVMChainPoller, SequencesExt

\* The prefixes, of at least n blocks, of a set of chains.
PrefixesFrom(n, chains) ==
    UNION {{SubSeq(c, 1, k) : k \in n .. Len(c)} : c \in chains}

\* Any chain may follow any other: growth, reorgs, endpoints that lag behind.
AnyMove(chains) == {m \in chains \X chains : m[1] # m[2]}

\* The longest chain wins.
LongerMove(chains) == {m \in chains \X chains : Len(m[1]) < Len(m[2])}

-----------------------------------------------------------------------------
(* A tree that forks above blocks 2 and 3: reorgs of one and two blocks, and *)
(* of a fork by another fork                                                  *)

ShallowA == <<"g", "a1", "a2", "a3", "a4", "a5">>
ShallowB == <<"g", "a1", "a2", "b3", "b4", "b5">>
ShallowC == <<"g", "a1", "a2", "b3", "c4", "c5">>
ShallowHash == {"g", "a1", "a2", "a3", "a4", "a5", "b3", "b4", "b5", "c4", "c5"}
ShallowChains == PrefixesFrom(3, {ShallowA, ShallowB, ShallowC})

\* Block 3 is final when it is two blocks below the head, and on the second fork
\* one block below.
ShallowFinal ==
    [c \in ShallowChains |-> IF Len(c) = 6 \/ (Len(c) = 5 /\ c[4] = "b3") THEN 3 ELSE 2]
ShallowMoves ==
    {m \in AnyMove(ShallowChains) :
       /\ ShallowFinal[m[1]] <= ShallowFinal[m[2]]
       /\ \A n \in 1 .. ShallowFinal[m[1]] + 1 : m[1][n] = m[2][n]}
ASSUME ShallowSetting ==
    Moves = ShallowMoves => FinalSetting(ShallowFinal) /\ HistorySetting /\ ViewSetting

ShallowLonger == LongerMove(ShallowChains)

-----------------------------------------------------------------------------
(* One fork, above block 1: reorgs of one and two blocks                      *)

LowA == <<"g", "a1", "a2", "a3">>
LowB == <<"g", "a1", "b2", "b3", "b4">>
LowHash == {"g", "a1", "a2", "a3", "b2", "b3", "b4"}
LowChains == PrefixesFrom(2, {LowA, LowB})

\* The longest chain wins, and there is no way back from the fork.
LowLeft == [c \in LowChains |-> IF IsPrefix(c, LowA) THEN {} ELSE {"a2", "a3"}]
LowForward == {m \in LongerMove(LowChains) : LowLeft[m[1]] \subseteq LowLeft[m[2]]}

LowFinal == [c \in LowChains |-> IF Len(c) = 5 THEN 2 ELSE 1]
ASSUME LowSetting ==
    Moves = LowForward => FinalSetting(LowFinal) /\ NoReturn(LowLeft) /\ DeliverySetting

-----------------------------------------------------------------------------
(* A tree that forks above blocks 0 and 1: reorgs deeper than a search of two *)
(* blocks, below what a history of two blocks keeps, and down to block 0,     *)
(* where no search goes                                                       *)

DeepA == <<"g", "a1", "a2", "a3">>
DeepB == <<"g", "a1", "b2", "b3", "b4">>
DeepC == <<"g", "c1", "c2", "c3">>
DeepHash == {"g", "a1", "a2", "a3", "b2", "b3", "b4", "c1", "c2", "c3"}
DeepChains == PrefixesFrom(1, {DeepA, DeepB, DeepC})
DeepMoves == LongerMove(DeepChains)

=============================================================================
