SPECIFICATION Spec
CONSTANTS
    Messages = {m1, m2, m3, m4}
    Consumers = {c1, c2}
    MaxQueueSize = 2
    MaxVersion = 1
INVARIANTS
    TypeOK
    QueueIsNewest
    NoLostWakeup
    EverySampleCounted
PROPERTIES
    GettersLeaveAfterShutdown
    ImplementsLossyFifo
