SPECIFICATION Spec
CONSTANTS
    pat = pat
    key = key
    r1 = r1
    NoMeta = 0
    NoKey = NoKey
    Customers <- OnlyPat
    Failing <- NoFailing
    Metas <- LinkIds
    Keys <- OneKey
    Second = 1
    PeriodSecs = 1
    ClockLag = 0
    FeeMicros = 1
    MicrosPerCent = 1
    ItemMicros <- OneMicro
    MaxTime = 1
    MaxContainers = 2
    MaxDrafts = 2
    MaxUsage = 1
    MaxOwed = 2
    Requests <- OneRequest
    Faulty = FALSE
    MaxCalls = 3
    MaxLinks = 2
    MaxGroups = 1
\* The bounded clock and counters stop, so the bounded system may too.
CHECK_DEADLOCK FALSE
PROPERTIES
    DraftsAreBilled
    DrivenLifecycle
