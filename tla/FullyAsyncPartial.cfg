SPECIFICATION FairSpec
CONSTANTS
    TotalSamples = 6
    RequiredSamples = 1
    TriggerSyncStep = 2
    MaxRequiredSamples = 4
    ServerSlots = 1
    PendingMax = 2
    PartialRollout = TRUE
    TestFreq = 2
    MaxFaults = 1
INVARIANTS
    SampleInOnePlace
    NoTransferWhileGenerating
PROPERTIES
    Finishes
