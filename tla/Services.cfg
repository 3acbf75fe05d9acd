SPECIFICATION ServicesSpec
CONSTANTS
    MaxLength = 8
    MaxSize = 5
    Texts <- Passages
    Budgets <- Limits
    Horizon = 5
    DAY = 3
    MaxEvents = 3
    Entries = {e1, e2, e3}
    Callers = {q1, q2}
    Matches = 2
    Replicas = {a, b}
    Publishers = {ask1, ask2}
    Placement = {{ask1, a}, {ask2, b}}
    HANDLERS = 2
    MaxRetrieved = 3
    MaxPublished = 2
    Chunks = {1, 2, 3}
    Depth = 3
    TopK = 2
    Scale = 15249024
    MaxDeltas = 2
INVARIANT NothingLost
INVARIANT FilledToBudget
INVARIANT SlotsAreTheGaps
INVARIANT RowsDecideRecall
INVARIANT LocalFirstInOrder
INVARIANT AgreementWins
INVARIANT AnswerAccounted
CHECK_DEADLOCK FALSE
