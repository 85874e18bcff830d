\* What is written outside the database: GitHub, the vault, models, volumes.
SPECIFICATION ServicesSpec
CONSTANTS
    MaxAttempts = 2
    MaxPreviews = 2
    MaxReviews = 2
    MaxCommits = 1
    MaxAccounts = 2
    Overlap = FALSE
    Kinds = {"text", "ready", "cla"}
    MaxPullChanges = 2
    MaxWrites = 2
    Keys = {k1, k2, k3}
    NoKey = NoKey
    Publications = {p1}
    MaxProbes = 1
    d1 = d1
    d2 = d2
    d3 = d3
    w1 = w1
    w2 = w2
    Calls = {d1, d2, d3}
    CleanupWorkers = {w1, w2}
    WorkerOf <- MCWorkerOf
    NoCleaner = NoCleaner
    MaxDisposalAttempts = 3
    MaxLosses = 2
    Analysts = {w1, w2}
    NoAnalyst = NoAnalyst
    MaxCalls = 3
    MaxTokens = 4
    MaxRetries = 2
    Usages = {1, 3}
INVARIANTS
    AtMostOnePost
    ConfirmedIsCurrent
    SentAtMostOnce
    PublicationKeepsAccount
    SuccessIsReal
    OverspendIsHidden
CHECK_DEADLOCK FALSE
