SPECIFICATION Spec
CONSTANTS
    d1 = d1
    d2 = d2
    up = up
    re1 = re1
    re2 = re2
    del = del
    Documents = {d1}
    Uploaders = {up}
    Reindexers = {}
    Deleters = {del}
    ForeignKeys = TRUE
    Faults = {}
    MaxBatches = 3
CHECK_DEADLOCK FALSE
INVARIANT DeletedIsForgotten
