SPECIFICATION Spec
CONSTANTS
    d1 = d1
    d2 = d2
    up = up
    re1 = re1
    re2 = re2
    del = del
    Documents = {d1}
    Uploaders = {up}
    Reindexers = {re1, re2}
    Deleters = {del}
    ForeignKeys = FALSE
    Faults = {"object", "pipeline", "crash"}
    MaxBatches = 3
CHECK_DEADLOCK FALSE
SYMMETRY ReindexSymmetry
INVARIANT RowsHaveContent
INVARIANT StatusMatchesChunks
