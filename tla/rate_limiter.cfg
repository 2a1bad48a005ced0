\* Three clients for a shard of two; a token takes a tick and a half, a sweep may be due every tick.
SPECIFICATION Spec
CONSTANTS
    Clients = {a, b, c}
    PerShard = 2
    Burst = 2
    Unit = 3
    Refill = 2
    TicksPerSecond = 1
    IdleTTL = 3
    SweepInterval = 1
    Enforce = TRUE
    MaxTime = 5
SYMMETRY ClientSymmetry
INVARIANTS TypeOK BudgetKept
PROPERTIES HonestRetryAfter LoggedOncePerEpisode
