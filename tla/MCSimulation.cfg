\* Every program; at 416 and 52 kb/s a send of dumbbell falls on its stop.  At 10 b/s, 12.5 s
\* and 28.995216 s some SYNs come after their sinks' stop, one of them at that very time; at
\* 50 s some never come.
CONSTANTS
    Rates = {500000, 416000, 52000, 10}
    Latencies = {0, 2000, 12500000, 28995216, 50000000}
    MaxBytes = {0, 1, 2, 10000}
    Spokes = {0, 1, 8}
    Programs <- AllPrograms
SPECIFICATION Spec
\* A simulation ends.
CHECK_DEADLOCK FALSE
INVARIANTS
    TypeOK
    KeepsPace
    OneChain
    SourcesReachSinks
