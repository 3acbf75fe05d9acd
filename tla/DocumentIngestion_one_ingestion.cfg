SPECIFICATION FairSpec
CONSTANTS
    d1 = d1
    d2 = d2
    up = up
    re1 = re1
    re2 = re2
    del = del
    Documents = {d1}
    Uploaders = {up}
    Reindexers = {up}
    Deleters = {del}
    ForeignKeys = TRUE
    Faults = {"file", "object", "pipeline", "vectors", "crash"}
    MaxBatches = 4
CHECK_DEADLOCK FALSE
INVARIANT NoStaleVectors
PROPERTY ProcessingEnds
