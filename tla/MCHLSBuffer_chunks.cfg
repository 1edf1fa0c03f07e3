SPECIFICATION FairSpec
CONSTANTS
    MaxSequence = 2
    MaxFailures = 1
    MaxStalls = 1
INVARIANT TypeOK
PROPERTIES ChunksIncrease UnreadChunkIsServed StopReleasesReader
