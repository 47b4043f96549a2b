\* A reorg of the block the poller started at.
CONSTANTS
    ChainIds = {0, 1}
    ChainId = 1
    ClientChainId = 0
    Hash <- ShallowHash
    NoHash = "none"
    ZeroHash = "zero"
    Chains <- ShallowChains
    Moves <- ShallowLonger
    MaxReorgDepth = 3
    BlockHistorySize = 3
    GenesisBlockNumber = 0
    MaxUint64 = 15
    Batches = {1}
    Undecodable = {}
    Faults = {}
    Durable = FALSE
SPECIFICATION Spec
INVARIANT MissingBlockSaved
