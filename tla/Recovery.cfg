\* Crashes, restarts, closing, failing requests and log handlers, and reorgs
\* deeper than the search goes; the store itself does not fail.
CONSTANTS
    ChainIds = {0, 1}
    ChainId = 1
    ClientChainId = 0
    Hash <- DeepHash
    NoHash = "none"
    ZeroHash = "zero"
    Chains <- DeepChains
    Moves <- DeepMoves
    MaxReorgDepth = 2
    BlockHistorySize = 2
    GenesisBlockNumber = 0
    MaxUint64 = 15
    Batches = {1}
    Undecodable = {"b4"}
    Faults = {"rpc", "logs", "logHandler", "close", "cancel", "crash"}
    Durable = TRUE
SPECIFICATION Spec
INVARIANT RecordsLinked
INVARIANT LinkedInv
PROPERTY ImplementsIndexedChain
