SPECIFICATION Spec
CONSTANTS
    Hosts = {h1, h2}
    Monitors = {m1, m2}
    Nodes = {n1, n2}
SYMMETRY Symmetry
INVARIANTS
    TypeOK
    StaysPublished
    OneOwner
PROPERTY
    MonitorSpec
CHECK_DEADLOCK FALSE
