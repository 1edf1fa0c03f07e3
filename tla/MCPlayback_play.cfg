SPECIFICATION FairSpec
CONSTANTS
    Decoders = {"audio", "video"}
    Last = 2
    Targets = {1}
    Tolerance = 0
    ReadAhead <- MCReadAhead
    MaxCalls = 2
    MaxSeeks = 1
    MaxQueue = 2
INVARIANTS
    TypeOK ReadyIsReported
PROPERTIES
    PositionsInOrder PlayIsAnswered PlaysOut
CHECK_DEADLOCK FALSE
