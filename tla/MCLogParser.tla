----------------------------- MODULE MCLogParser -----------------------------
(* An instance of LogParser for TLC: events with the indexed inputs first and  *)
(* not, declared in one version or the second of two, an event without topics, *)
(* and ABIs that are too short, not JSON, empty in one version, or have two    *)
(* receive functions                                                           *)
EXTENDS LogParser

Words == {"vault", "Vault", "0xa", "0xA", "0xb"}
ToLower == [s \in Words |-> CASE s = "Vault" -> "vault" [] s = "0xA" -> "0xa" [] OTHER -> s]

Input(n, t, i) == [name |-> n, type |-> t, indexed |-> i]
Deposit == [id |-> "Deposit",
            inputs |-> <<Input("from", "address", TRUE), Input("paid", "bool", FALSE)>>]
OldDeposit == [id |-> "Deposit",
            inputs |-> <<Input("from", "address", FALSE), Input("paid", "bool", FALSE)>>]
Withdraw == [id |-> "Withdraw",
             inputs |-> <<Input("done", "bool", FALSE), Input("to", "address", TRUE)>>]
NoTopic == [id |-> "", inputs |-> <<>>]
ReceiveFunction == [id |-> "receive", inputs |-> <<>>]

EmittedByAddress == [a \in Words |-> IF a = "0xa" THEN {Deposit, Withdraw, NoTopic} ELSE {Deposit}]

Contract(n, a, c, v) == [name |-> n, address |-> a, chainId |-> c, abiVersions |-> v]
GivenContracts == {
    Contract("Vault", "0xA", 1, <<<<Withdraw>>, <<Deposit, ReceiveFunction>>>>),
    Contract("vault", "0xa", 1, <<<<ReceiveFunction, OldDeposit>>, <<ReceiveFunction, Deposit>>>>),
    Contract("Vault", "0xb", 2, <<<<OldDeposit>>, <<Deposit>>>>),
    Contract("Vault", "0xb", 1, <<<<>>, <<Deposit>>>>),
    Contract("vault", "0xb", 1, <<TooShort>>),
    Contract("vault", "0xa", 2, <<<<Deposit>>, Malformed>>)}
Lists == {<<>>, <<1>>, <<2, 1>>}

\* Every list of at most two contracts, of the same ones twice too.
UpToTwo == UNION {[1 .. n -> GivenContracts] : n \in 0 .. 2}

=============================================================================
