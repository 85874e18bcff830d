\* The job queue and what hands it work: scans, planning and execution with
\* the models selected for a task, the coding session.
SPECIFICATION RequestsSpec
CONSTANTS
    \* job queue
    Jobs = {j1}
    Workers = {w1, w2}
    Clients = {c1, c2}
    NoJob = NoJob
    NoWorker = NoWorker
    MaxAttempts = 2
    LeaseTicks = 1
    WorkTicks = 2
    RetryDelay = 1
    MaxAge = 1
    MaxCrashes = 1
    \* discovery
    Issues = {i1}
    Preference = Preference
    Facts = {"good", "poor"}
    EligibleFacts = {"good"}
    Decisions = {"shortlisted", "neutral"}
    Deciders = {e1, e2}
    TopN = 1
    MaxScans = 3
    MaxDays = 2
    MaxDecisions = 2
    MaxEvents = 4
    \* models of a task
    m1 = m1
    env = env
    Handlers = {u1, u2}
    Profiles = {m1}
    Environment = env
    Offers <- MCOffers
    MaxSaves = 1
    MaxBindings = 2
    MaxHistory = 4
    MaxRecords = 8
    \* coding session
    Chatters = {x1, x2}
    ChatWorkers = {y1, y2}
    NoChatWorker = NoChatWorker
    ChatTries = 2
    MaxTurns = 3
    MaxChatJobs = 4
    MaxRewrites = 1
SYMMETRY RequestSymmetry
INVARIANTS
    AttemptsFence
    AcceptedIsClosed
    LeaderboardIsWhole
    NewMatchesAreNew
    AuthorizedAsConfirmed
    StrayWorkIsBounded
    TranscriptReads
    ModelJobsAreBounded
PROPERTIES
    ResultIsCurrent
    CancelIsDurable
    FenceSpec
