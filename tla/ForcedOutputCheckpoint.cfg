SPECIFICATION Spec
CONSTANTS
    LastStep = 5
    SaveFreq = 2
    KeepLimits = {1, 2}
    MaxRuns = 3
CHECK_DEADLOCK FALSE
INVARIANTS
    ResumesTogether
    RestartLosesLittle
    NamedCheckpointKept
