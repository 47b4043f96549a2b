\* Reorgs of fewer than MaxReorgDepth blocks, a store that fails only when closed.
CONSTANTS
    ChainIds = {0, 1}
    ChainId = 1
    ClientChainId = 0
    Hash <- ShallowHash
    NoHash = "none"
    ZeroHash = "zero"
    Chains <- ShallowChains
    Moves <- ShallowMoves
    MaxReorgDepth = 3
    BlockHistorySize = 3
    GenesisBlockNumber = 1
    MaxUint64 = 15
    Batches = {1}
    Undecodable = {}
    Faults = {"rpc", "blockHandler", "close", "cancel"}
    Durable = FALSE
SPECIFICATION Spec
INVARIANT TypeOK
INVARIANT ViewIsChain
INVARIANT ViewMatchesRecords
INVARIANT LastExists
INVARIANT HistoryBounded
