SPECIFICATION FairSpec
CONSTANTS
    Requests = {r1}
    Handles = {h1}
    NoHandle = NoHandle
    LocalFiles = {}
    Downloads = {}
    Deferred = {r1}
    Multiparts = {}
    MaxBlocks = 1
    MaxChunks = 1
    MaxSuspends = 0
PROPERTIES
    ResumeIsNotLost
CHECK_DEADLOCK FALSE
