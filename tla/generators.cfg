SPECIFICATION Spec
CONSTANTS
    g1 = g1
    g2 = g2
    burst = burst
    Generators <- TwoGenerators
    Counts <- SomeCounts
    Requests <- OneBurst
    MaxBatch = 1
    MaxStarts = 2
    MaxEvents = 2
\* The bounds stop every generator in the end.
CHECK_DEADLOCK FALSE
INVARIANTS
    TypeOK
    OneLoopEach
    EmittedIsPublished
PROPERTIES
    DeletedFallSilent
