SPECIFICATION Spec
CONSTANTS
    Versions = {1, 2}
    Times = {0, 2}
    Gpus = {1, 2}
    MaxPayload = 3
    MaxPts = 3
INVARIANTS
    TypeOK
    RightBackend
    JoinsAnywhere
CHECK_DEADLOCK FALSE
