SPECIFICATION Spec
CONSTANTS
    pat = pat
    e1 = e1
    e2 = e2
    e3 = e3
    kafka = kafka
    other = other
    timer = timer
    Customers <- OnlyPat
    Events <- OneEvent
    CustomerOf <- AllPats
    Deliverers <- OneConsumer
    Timer = timer
    ingestBatchMax = 2
    Second = 1
    Period = 1
    ClockLag = 0
    MaxTime = 3
    MaxDeliveries <- EachTwice
    MaxRestarts = 0
    MaxContainers = 1
    MaxWindows = 2
\* The bounded clock and counters stop, so the bounded system may too.
CHECK_DEADLOCK FALSE
INVARIANTS
    NothingFiledIntoABilledWindow
