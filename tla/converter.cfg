SPECIFICATION Spec
CONSTANTS
    Buffers = {b1, b2}
    Fds = {1, 2}
    MaxMade = 4
INVARIANTS
    TypeOK
    FreshImport
    GpuReadsSettled
    RtNeverBlocked
\* The worker ends.
CHECK_DEADLOCK FALSE
