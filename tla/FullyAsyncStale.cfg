SPECIFICATION Spec
CONSTANTS
    TotalSamples = 9
    RequiredSamples = 2
    TriggerSyncStep = 1
    MaxRequiredSamples = 3
    ServerSlots = 2
    PendingMax = 1
    PartialRollout = FALSE
    TestFreq = 1
    MaxFaults = 0
INVARIANTS
    TypeOK
    AgeBounded
    CleanFinish
PROPERTIES
    ImplementsLossyFifo
