SPECIFICATION DeliveriesSpec
CONSTANTS
    Mails = {m1}
    Requests = {q1, q2}
    Faults = {"smtp", "crash"}
    MaxSent = 2
    Messages = {x1, x2, x3}
    Anonymous = {x2, x3}
    Syncs = {s1, s2}
    Shared = {x2}
    Limit = 2
    SyncFaults = {"flag", "expunge", "abort"}
    Clients = {c1}
    Runs = {run1, run2}
    Every = every
    QUEUE_SIZE = 2
    MaxEvents = 6
CHECK_DEADLOCK FALSE
INVARIANT OneOutcome
INVARIANT SeenIsStoredOnce
INVARIANT GapsReported
PROPERTY SentIsFinal
PROPERTY ProcessingEnds
PROPERTY MailIsStored
PROPERTY CatchesUp
