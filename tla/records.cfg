\* The records: stage versions, repair rounds, the evidence of whole tasks.
SPECIFICATION RecordsSpec
CONSTANTS
    Callers = {c1, c2}
    ClientKeys = {k1, k2}
    Hashes = {h1, h2}
    Outcomes = {"failed", "cancelled"}
    MaxVersions = 9
    MaxRepeats = 1
    Paths = {p1, p2}
    Contents = {a, b}
    Missing = Missing
    MaxRepairs = 2
    Tasks = {t1, t2}
    Requesters = {r1, r2}
    MaxTries = 2
    MaxNews = 1
    LoneStates = 11
    LoneAudit = 8
    SharedStates = 7
    SharedAudit = 4
    MaxEvidenceRuns = 2
    CommandCount = 2
SYMMETRY CallerSymmetry
INVARIANTS
    ChainHolds
    ViewIsReviewed
    RecordsHold
    EvidenceIsReadable
PROPERTIES
    RepairIsExact
CHECK_DEADLOCK FALSE
