SPECIFICATION Spec
CONSTANTS
    pat = pat
    key = key
    r1 = r1
    NoMeta = 0
    NoKey = NoKey
    Customers <- OnlyPat
    Failing <- OnlyPat
    Metas <- LinkIds
    Keys <- NoKeys
    Second = 1
    PeriodSecs = 1
    ClockLag = 0
    FeeMicros = 1
    MicrosPerCent = 1
    ItemMicros <- OneMicro
    MaxTime = 0
    MaxContainers = 2
    MaxDrafts = 2
    MaxUsage = 2
    MaxOwed = 2
    Requests <- OneRequest
    Faulty = TRUE
    MaxCalls = 5
    MaxLinks = 2
    MaxGroups = 2
\* The bounded clock and counters stop, so the bounded system may too.
CHECK_DEADLOCK FALSE
INVARIANTS
    TypeOK
    PricedInFull
    PaymentsAreOfAnnouncedInvoices
    CancelledIsRetired
    StripeStaysSound
VIEW State
