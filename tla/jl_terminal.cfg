CONSTANTS
    Jobs = {j1}
    Workers = {w1, w2}
    Clients = {}
    NoJob = NoJob
    NoWorker = NoWorker
    MaxAttempts = 2
    LeaseTicks = 1
    WorkTicks = 2
    RetryDelay = 1
    MaxAge = 1
    MaxCrashes = 1
SPECIFICATION Spec
PROPERTY TerminalIsFinal
