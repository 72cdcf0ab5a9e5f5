SPECIFICATION Spec
CONSTANTS
    pat = pat
    e1 = e1
    e2 = e2
    e3 = e3
    kafka = kafka
    other = other
    timer = timer
    Customers <- OnlyPat
    Events <- ThreeEvents
    CustomerOf <- AllPats
    Deliverers <- TwoDeliverers
    Timer = timer
    ingestBatchMax = 2
    Second = 1
    Period = 1
    ClockLag = 0
    MaxTime = 1
    MaxDeliveries <- FirstTwice
    MaxRestarts = 1
    MaxContainers = 0
    MaxWindows = 0
\* The bounded clock and counters stop, so the bounded system may too.
CHECK_DEADLOCK FALSE
INVARIANTS
    NothingVanishes
    NothingRefused
PROPERTIES
    EverythingIsFlushed
