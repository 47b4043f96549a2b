\* Events with an input in the data before an indexed one.
CONSTANTS
    Spellings <- Words
    Lower <- ToLower
    ChainIds = {1, 2}
    TooShort = TooShort
    Malformed = Malformed
    ChainId = 1
    Names = {"vault", "Vault"}
    Given <- GivenContracts
    Loaded <- UpToTwo
    Interesting = {"0xA", "0xb"}
    ChainIdLists <- Lists
    Emitted <- EmittedByAddress
    MaxContracts = 2
SPECIFICATION Spec
CHECK_DEADLOCK FALSE
INVARIANT ValuesInPlace
