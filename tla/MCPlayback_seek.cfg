SPECIFICATION FairSpec
CONSTANTS
    Decoders = {"audio"}
    Last = 4
    Targets = {1}
    Tolerance = 2
    ReadAhead <- MCReadAhead
    MaxCalls = 3
    MaxSeeks = 1
    MaxQueue = 2
PROPERTIES
    SeekEnds
CHECK_DEADLOCK FALSE
