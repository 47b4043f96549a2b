------------------------- MODULE MCOverlappingLoops -------------------------
(* An instance of OverlappingLoops for TLC: a chain that only grows, past the  *)
(* height at which one loop prunes a block the other may be at                 *)
EXTENDS OverlappingLoops

Line == <<"g", "a1", "a2", "a3", "a4">>
LineHash == {"g", "a1", "a2", "a3", "a4"}
LineChains == {SubSeq(Line, 1, n) : n \in 2 .. 5}
Growth == {m \in LineChains \X LineChains : Len(m[1]) < Len(m[2])}

\* The setting of the theorem about two loops is that of the run.
ASSUME LineSetting == GrowingSetting

=============================================================================
