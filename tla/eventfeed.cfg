SPECIFICATION Spec
CONSTANTS
    usage = usage
    payment = payment
    p1 = p1
    p2 = p2
    Topics <- TwoTopics
    Polls <- TwoPolls
    maxBuffered = 2
    MAX_ROWS = 2
    MaxRecords <- ThreeRecords
    MaxRestarts = 1
INVARIANTS
    TypeOK
    RingIsTheTail
    NothingSkipped
    RowsNewestFirst
PROPERTIES
    BufferedIsShown
