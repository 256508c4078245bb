SPECIFICATION Spec
CONSTANTS
    Prompts = 2
    GroupSize = 2
    ResponseLength = 3
    NumAnswers = 2
    Configs <- AllConfigs
    Lengths <- AllLengths
    Naturals <- AllNaturals
    Answers <- AllAnswers
    Confidences <- AllConfidences
    Penalties <- AllPenalties
    Unit = 1728
INVARIANTS
    TruncationsSound
    UnanimousTeachNothing
    ProbeReadsOwnTrace
    RightBeatsWrong
