SPECIFICATION Spec
CONSTANTS
    pat = pat
    NoMeta = NoMeta
    NoKey = NoKey
    Customers <- OnlyPat
    Failing <- OnlyPat
    Metas <- NoMetas
    Keys <- NoKeys
    Second = 2
    PeriodSecs = 2
    ClockLag = 1
    FeeMicros = 4
    MicrosPerCent = 8
    ItemMicros <- OneMicro
    MaxTime = 8
    MaxContainers = 1
    MaxDrafts = 1
    MaxUsage = 1
    MaxOwed = 2
\* The bounded clock and counters stop, so the bounded system may too.
CHECK_DEADLOCK FALSE
INVARIANTS
    TypeOK
    PeriodsTile
    NoPeriodSkipped
    NoSecondChargedTwice
    EmptyContainerAwaitsFinal
PROPERTIES
    DuePeriodsEnd
    InvoicesFollowLifecycle
VIEW ServerStateButUsage
