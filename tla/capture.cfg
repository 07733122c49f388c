SPECIFICATION LiveSpec
CONSTANTS
    PoolSize = 5
    Buffers = 2
    RequireDma = FALSE
    HasConverter = TRUE
    MaxPictures = 5
INVARIANTS
    TypeOK
    Intact
    NoStarvation
    Accounted
PROPERTIES
    FrameSpec
    PoolKept
    SessionEnds
\* A destroyed session has stopped.
CHECK_DEADLOCK FALSE
