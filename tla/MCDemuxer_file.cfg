SPECIFICATION FairSpec
CONSTANTS
    Streams = {0, 1}
    Decoders = {0, 1}
    queueReadAheadSize = 1
    IsLive = FALSE
    DemuxBatch = 2
    MaxRunPackages = 2
    MaxEpochs = 1
INVARIANTS
    FeedUnbroken
    RequestIsOutstanding
    OneRequestAtATime
PROPERTIES
    EndOfStreamMeansDrained
    ImplementsFeed
    NextPackageReturns
    TerminateReturns
