\* Three records, a buffer of two, one crash, full and empty log files.
SPECIFICATION FairSpec
CONSTANTS
    Keep = 2
    MaxLines = 1
    MaxRecords = 3
    MaxBuffer = 2
    MaxChunk = 1
    MaxRemote = 2
    MaxBatch = 1
    MaxCrashes = 1
    Malformed = {2}
    Flush = Flush
INVARIANTS LogIsInOrder NoRowTwice
PROPERTIES LinesAgeOut LogDrains
