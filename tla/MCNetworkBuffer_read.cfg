SPECIFICATION FairSpec
CONSTANTS
    Length = 3
    m_readAhead = 2
    maxRedirects = 0
    ReadSize = 2
    MaxChunk = 2
    MaxSeeks = 1
    MaxFailures = 1
    MaxRedirections = 2
INVARIANTS TypeOK InPlaceUntilFailure ReadsWhereAsked
PROPERTIES ReadReturns DieReleasesReader
