----------------------------- MODULE MCLogFetch -----------------------------
(* An instance of LogFetch for TLC: a contract that is configured in two       *)
(* spellings next to an empty entry, one that may also be registered, and one  *)
(* that can only be registered                                                 *)
EXTENDS LogFetch

Spellings == {"", "a", "A", "b", "c"}
ToLower == [s \in Spellings |-> IF s = "A" THEN "a" ELSE s]
Configured == <<"A", "", "a", "c">>

=============================================================================
