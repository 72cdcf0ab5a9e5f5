SPECIFICATION Spec
CONSTANTS
    pat = pat
    e1 = e1
    e2 = e2
    e3 = e3
    kafka = kafka
    other = other
    timer = timer
    Customers <- OnlyPat
    Events <- OneEvent
    CustomerOf <- AllPats
    Deliverers <- OneConsumer
    Timer = timer
    ingestBatchMax = 2
    Second = 1
    Period = 1
    ClockLag = 1
    MaxTime = 2
    MaxDeliveries <- EachTwice
    MaxRestarts = 0
    MaxContainers = 3
    MaxWindows = 3
\* The bounded clock and counters stop, so the bounded system may too.
CHECK_DEADLOCK FALSE
INVARIANTS
    TypeOK
    BilledTwiceIfCrossedOnly
    PreviewReturnsIfOvertakenOnly
PROPERTIES
    UsageFollowsLedger
