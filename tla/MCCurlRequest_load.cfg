SPECIFICATION FairSpec
CONSTANTS
    Requests = {r1}
    Handles = {h1}
    NoHandle = NoHandle
    LocalFiles = {r1}
    Downloads = {r1}
    Deferred = {r1}
    Multiparts = {r1}
    MaxBlocks = 2
    MaxChunks = 2
    MaxSuspends = 1
INVARIANTS
    TypeOK RetainedWhileReferenced HandlesAreMapped ClientHearsInOrder
PROPERTIES
    ResumeReachesHandle LoadEnds IsReleased CancelLeavesNoFile
CHECK_DEADLOCK FALSE
