CONSTANTS
    Streams = {0, 1, 2}
    Decoders = {1, 2}
    queueReadAheadSize = 1
    IsLive = TRUE
    DemuxBatch = 1
    MaxRunPackages = 1
    MaxEpochs = 1
SPECIFICATION FairSpec
INVARIANTS
    TypeOK
    FeedUnbroken
    RequestIsOutstanding
PROPERTIES
    ImplementsFeed
    TerminateReturns
