SPECIFICATION Spec
CONSTANTS
    Streams = {a}
    CaptureMemory = "auto"
    RunLengths = {0}
    Patience = 2
PROPERTY
    FairChance
