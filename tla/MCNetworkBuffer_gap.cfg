SPECIFICATION Spec
CONSTANTS
    Length = 5
    m_readAhead = 4
    maxRedirects = 0
    ReadSize = 2
    MaxChunk = 2
    MaxSeeks = 0
    MaxFailures = 1
    MaxRedirections = 0
INVARIANT BytesInPlace
