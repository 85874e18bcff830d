CONSTANTS
    Workers = {w1}
    NoWorker = NoWorker
    Reapers = {r1}
    Clients = {c1}
    MaxAttempts = 1
    LeaseTicks = 1
    WorkTicks = 1
    RetryDelay = 0
    MaxAge = 1
    MaxStageRuns = 2
    MaxCrashes = 1
SPECIFICATION LiveSpec
PROPERTIES StagesSettle
