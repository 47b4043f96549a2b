\* Contracts of two chains are added and overridden while a poller decodes.
CONSTANTS
    Spellings <- Words
    Lower <- ToLower
    ChainIds = {1, 2}
    TooShort = TooShort
    Malformed = Malformed
    ChainId = 1
    Names = {"vault", "Vault"}
    Given <- GivenContracts
    Loaded <- UpToTwo
    Interesting = {"0xA", "0xb"}
    ChainIdLists <- Lists
    Emitted <- EmittedByAddress
    MaxContracts = 2
SPECIFICATION FairSpec
CHECK_DEADLOCK FALSE
INVARIANT IndexedFirstInPlace
INVARIANT OwnContract
INVARIANT ListedIsFound
INVARIANT AddRepeatsNothing
PROPERTY RepairUnblocks
