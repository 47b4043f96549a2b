\* Interruptions that cease, reorgs within MaxReorgDepth to forks that do not
\* return, logs in two batches, a durable store, log handlers that fail.
CONSTANTS
    ChainIds = {0, 1}
    ChainId = 1
    ClientChainId = 0
    Hash <- LowHash
    NoHash = "none"
    ZeroHash = "zero"
    Chains <- LowChains
    Moves <- LowForward
    MaxReorgDepth = 3
    BlockHistorySize = 3
    GenesisBlockNumber = 1
    MaxUint64 = 15
    Batches = {1, 2}
    Undecodable = {}
    Faults = {"rpc", "logs", "logHandler", "cancel", "crash"}
    Durable = TRUE
SPECIFICATION FairSpec
INVARIANT LogsMatchBlock
INVARIANT CommittedDelivered
PROPERTY CatchesUp
