SPECIFICATION LiveSpec
CONSTANTS
    Streams = {a, b}
    CaptureMemory = "auto"
    RunLengths = {0, 1}
    Patience = 0
INVARIANTS
    TypeOK
    RepeatAvailable
    StaticRepeat
PROPERTIES
    AllStop
    RequestAnswered
