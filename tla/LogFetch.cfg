\* Two writers of the registry, batches of two addresses.
CONSTANTS
    Addresses <- Spellings
    Lower <- ToLower
    Writers = {w1, w2}
    NoWriter = NoWriter
    NoCall = NoCall
    InterestingContracts <- Configured
    EmptyAddress = ""
    MaxAddressesPerLogsRequest = 2
    DefaultSize = 3
SPECIFICATION FairSpec
INVARIANT TypeOK
INVARIANT NothingMissed
INVARIANT NothingTwice
PROPERTY NoUpdateLost
PROPERTY FetchReturns
