-------------------------- MODULE MCEthereumClient --------------------------
(* Instances of EthereumClient for TLC *)
EXTENDS EthereumClient

\* The first two of the code's backoffs, 1, 3, 5, 10, 20, 30 and 60 seconds.
ShortBackoffs == <<1, 3>>

=============================================================================
