\* Five requests in chunks of two, a context that expires under way.
CONSTANTS
    N = 5
    ChunkSize = 2
    Backoffs <- ShortBackoffs
    RequestTimeout = 1
    Deadline = 8
    NoResponse = NoResponse
SPECIFICATION FairSpec
INVARIANT TypeOK
INVARIANT ResultsInOrder
INVARIANT InFlightBounded
INVARIANT DurationBounded
INVARIANT NilMeansExhausted
PROPERTY BatchReturns
CHECK_DEADLOCK FALSE
