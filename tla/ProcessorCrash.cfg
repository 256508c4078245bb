SPECIFICATION Spec
CONSTANTS
    TotalSamples = 6
    RequiredSamples = 1
    TriggerSyncStep = 2
    MaxRequiredSamples = 3
    ServerSlots = 2
    PendingMax = 1
    PartialRollout = FALSE
    TestFreq = 1
    MaxFaults = 0
INVARIANTS
    NeverCrashes
