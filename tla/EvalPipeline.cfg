SPECIFICATION Spec
CONSTANTS
    Datasets = {1, 2}
    ProbeDataset = 1
    Rlcr = FALSE
    MergedAlready = FALSE
    MaxRuns = 3
    MaxInterrupts = 1
CHECK_DEADLOCK FALSE
INVARIANTS
    ResultsSound
    InputsReady
PROPERTIES
    FinishedKept
    Completes
