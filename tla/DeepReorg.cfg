\* A reorg of as many blocks as MaxReorgDepth, all calls succeeding.
CONSTANTS
    ChainIds = {0, 1}
    ChainId = 1
    ClientChainId = 0
    Hash <- ShallowHash
    NoHash = "none"
    ZeroHash = "zero"
    Chains <- ShallowChains
    Moves <- ShallowLonger
    MaxReorgDepth = 2
    BlockHistorySize = 3
    GenesisBlockNumber = 1
    MaxUint64 = 15
    Batches = {1}
    Undecodable = {}
    Faults = {}
    Durable = FALSE
SPECIFICATION Spec
INVARIANT LastExists
