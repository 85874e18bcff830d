\* A repair that restores an original file.
SPECIFICATION RepairSpec
CONSTANTS
    Paths = {p1}
    Contents = {a, b}
    Missing = Missing
    MaxRepairs = 1
INVARIANT ValidatedIsImplemented
CHECK_DEADLOCK FALSE
