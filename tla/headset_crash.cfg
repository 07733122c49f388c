SPECIFICATION Spec
CONSTANTS
    Physical = {p1, p2}
INVARIANT
    OnAfterCrash
