CONSTANTS
    Workers = {w1}
    NoWorker = NoWorker
    Reapers = {}
    Clients = {c1}
    MaxAttempts = 1
    LeaseTicks = 1
    WorkTicks = 1
    RetryDelay = 0
    MaxAge = 1
    MaxStageRuns = 1
    MaxCrashes = 0
SPECIFICATION CastSpec
PROPERTY QueuedCancelIsAtomic
