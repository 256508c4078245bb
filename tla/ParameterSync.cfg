SPECIFICATION FairSpec
CONSTANTS
    ActorNum = 2
    RolloutNum = 1
    Bytes <- ThreeParameters
    AlignSize = 2
    DeviceBufferSize = 4
    OverlapModes <- BothModes
    Garbage = Garbage
    TriggerSyncStep = 2
    TestFreq = 2
    ValBeforeTrain = TRUE
    ParallelModes <- BothModes
    PartialModes <- BothModes
    MaxSteps = 4
INVARIANTS
    TypeOK
    HandedOverKept
    ResultsOfOneVersion
    EveryResultLogged
PROPERTIES
    ImplementsWeightServing
    Finishes
