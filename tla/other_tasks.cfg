\* Erasing a task leaves the records of the others readable.
SPECIFICATION EvidenceSpec
CONSTANTS
    Tasks = {t1, t2}
    Requesters = {r1}
    MaxTries = 1
    MaxNews = 1
    LoneStates = 3
    LoneAudit = 3
    SharedStates = 4
    SharedAudit = 4
INVARIANT OthersStayReadable
CHECK_DEADLOCK FALSE
