\* The main process: plans, automation, proposals, conversation.
SPECIFICATION ContributionSpec
CONSTANTS
    MaxPlans = 2
    MaxHeads = 1
    MaxStates = 6
    MaxEvents = 2
    MaxStartRuns = 2
    MaxRuns = 2
    MaxRepairs = 1
    MaxApproved = 3
    MaxStarts = 2
    MaxLog = 3
    Coders = {c1, c2}
    NoCoder = NoCoder
    CallLimit = 3
    MoreCalls = 1
    MaxTries = 2
    MaxResumes = 1
    MaxMessages = 3
    MaxTalk = 4
    MaxTurnCalls = 1
    MaxTurnTries = 2
    MaxConfirms = 1
    t1 = t1
    t2 = t2
    a = a
    s = s
    Tasks = {t1, t2}
    Contents = {a, s}
    Stores <- MCStores
    NoContent = NoContent
    NoTask = NoTask
    MaxErasures = 2
    MaxVisibilityChanges = 3
    MaxKills = 1
INVARIANTS
    AttemptIsApproved
    
    LineageIsBounded
    HidingIsSafe
PROPERTIES
    PausedIsQuiet
    ContributionSettles
CHECK_DEADLOCK FALSE
