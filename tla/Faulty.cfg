\* Every call may fail, the store's too; reorgs deeper than the search goes.
CONSTANTS
    ChainIds = {0, 1}
    ChainId = 1
    ClientChainId = 0
    Hash <- DeepHash
    NoHash = "none"
    ZeroHash = "zero"
    Chains <- DeepChains
    Moves <- DeepMoves
    MaxReorgDepth = 2
    BlockHistorySize = 2
    GenesisBlockNumber = 1
    MaxUint64 = 15
    Batches = {}
    Undecodable = {}
    Faults = {"rpc", "blockHandler", "store", "close", "cancel", "crash"}
    Durable = TRUE
SPECIFICATION Spec
PROPERTY RewindBounded
