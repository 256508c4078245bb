SPECIFICATION FairSpec
CONSTANTS
    TotalSamples = 6
    RequiredSamples = 1
    TriggerSyncStep = 2
    MaxRequiredSamples = 2
    ServerSlots = 2
    PendingMax = 1
    PartialRollout = FALSE
    TestFreq = 2
    MaxFaults = 0
INVARIANTS
    OnPolicy
    OutstandingCapped
PROPERTIES
    Finishes
