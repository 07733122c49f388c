SPECIFICATION LiveSpec
CONSTANTS
    Physical = {p1, p2}
INVARIANTS
    TypeOK
    NeverLeftOff
    AlwaysAScreen
PROPERTIES
    ScreenSpec
    LaptopReturns
