\* Two loops on one store, a chain that grows, calls and the store failing, restarts.
CONSTANTS
    ChainIds = {0, 1}
    ChainId = 1
    ClientChainId = 0
    Hash <- LineHash
    NoHash = "none"
    ZeroHash = "zero"
    Chains <- LineChains
    Moves <- Growth
    MaxReorgDepth = 2
    BlockHistorySize = 2
    GenesisBlockNumber = 1
    MaxUint64 = 15
    Batches = {1}
    Undecodable = {}
    Faults = {"rpc", "logs", "logHandler", "store", "close", "cancel", "crash"}
    Durable = TRUE
SPECIFICATION BothSpec
INVARIANT NothingSkipped
