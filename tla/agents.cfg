\* What keeps work moving: the queue, the planner, the sandbox worker,
\* the environment of a verification.
SPECIFICATION AgentsSpec
CONSTANTS
    Jobs = {j1}
    Workers = {w1}
    Clients = {c1}
    NoJob = NoJob
    NoWorker = NoWorker
    MaxAttempts = 2
    LeaseTicks = 1
    WorkTicks = 2
    RetryDelay = 1
    MaxAge = 1
    MaxCrashes = 2
    Requests = {r1, r2}
    MaxReadRounds = 1
    MaxPlanRepairs = 1
    Limits = {2}
    MaxEdits = 1
    MaxEpochs = 1
    MaxCalls = 2
    MaxTries = 1
    MaxPolls = 1
    MaxUses = 1
    MaxGatewayCrashes = 1
    Pieces = 2
    MaxStageRuns = 2
    MaxFaults = 1
    MaxLosses = 1
    MaxCancels = 1
    MaxVerifyRuns = 2
    MaxDeaths = 1
    MaxHolds = 2
INVARIANTS
    CallsNearBudget
    AnswerIsWhole
    NothingRunsOn
PROPERTIES
    
    VerifiedInItsBundle
    BundlesAreReclaimed
    AgentsSettle
CHECK_DEADLOCK FALSE
