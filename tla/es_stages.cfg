CONSTANTS
    Workers = {w1, w2}
    NoWorker = NoWorker
    Reapers = {r1}
    Clients = {c1, c2}
    MaxAttempts = 1
    LeaseTicks = 1
    WorkTicks = 1
    RetryDelay = 0
    MaxAge = 1
    MaxStageRuns = 2
    MaxCrashes = 1
SPECIFICATION CastSpec
SYMMETRY ProcessSymmetry
INVARIANTS
    ChainMatchesJobs
    RunningTogether
PROPERTIES
    ClosedByOwner
    LedgerSpec
