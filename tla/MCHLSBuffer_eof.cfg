SPECIFICATION Spec
CONSTANTS
    MaxSequence = 2
    MaxFailures = 0
    MaxStalls = 0
PROPERTY EOFMeansAllRead
