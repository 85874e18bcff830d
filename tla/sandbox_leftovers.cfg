\* One attempt, nothing of which goes wrong but its inputs.
SPECIFICATION SandboxSpec
CONSTANTS
    MaxStageRuns = 2
    MaxFaults = 0
    MaxLosses = 0
    MaxCancels = 0
INVARIANTS
    FailureDeletesVolume
CHECK_DEADLOCK FALSE
