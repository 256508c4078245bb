SPECIFICATION FairSpec
CONSTANTS
    NumSamples = 1
    Rows = 2
    Servers = {r1, r2}
    Loops <- BothLoops
    Script <- CallThenText
    ResponseLengths <- ThreeLengths
    MaxSyncs <- TwoOrOne
INVARIANTS
    QuietTransfer
    ResponsesWhole
    LabelsBound
PROPERTIES
    EveryTaskEnds
