SPECIFICATION Spec
CONSTANTS
    pat = pat
    NoMeta = NoMeta
    NoKey = NoKey
    Customers <- OnlyPat
    Failing <- NoFailing
    Metas <- NoMetas
    Keys <- NoKeys
    Second = 1
    PeriodSecs = 2
    ClockLag = 0
    FeeMicros = 3
    MicrosPerCent = 3
    ItemMicros <- NoUsage
    MaxTime = 1
    MaxContainers = 2
    MaxDrafts = 2
    MaxUsage = 2
    MaxOwed = 3
\* The bounded clock and counters stop, so the bounded system may too.
CHECK_DEADLOCK FALSE
PROPERTIES
    EndsOnlyWhenEmpty
VIEW ServerState
