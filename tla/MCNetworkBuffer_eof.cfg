SPECIFICATION Spec
CONSTANTS
    Length = 3
    m_readAhead = 2
    maxRedirects = 0
    ReadSize = 2
    MaxChunk = 2
    MaxSeeks = 0
    MaxFailures = 0
    MaxRedirections = 0
PROPERTY ZeroMeansEOF
