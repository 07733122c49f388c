SPECIFICATION LiveSpec
CONSTANTS
    Serials = {q1, q2}
    Grace = 2
    MaxChanges = 4
    MaxDeaths = 1
    MaxCrashes = 1
INVARIANTS
    TypeOK
    TunnelUp
PROPERTIES
    DetachOnlyAbsent
    MonitorsFollow
