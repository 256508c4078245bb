SPECIFICATION FairSpec
CONSTANTS
    TotalSamples = 5
    RequiredSamples = 1
    TriggerSyncStep = 2
    MaxRequiredSamples = 4
    ServerSlots = 2
    PendingMax = 2
    PartialRollout = TRUE
    TestFreq = 1
    MaxFaults = 0
PROPERTIES
    RolloutRecovers
CHECK_DEADLOCK FALSE
