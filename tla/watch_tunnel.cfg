SPECIFICATION Spec
CONSTANTS
    Serials = {q1, q2}
    Grace = 2
    MaxChanges = 4
    MaxDeaths = 1
    MaxCrashes = 0
INVARIANT
    TunnelBack
