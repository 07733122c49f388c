SPECIFICATION Spec
CONSTANTS
    s1 = s1
    s2 = s2
    Streams <- MCTwo
    QueueLimit = 2
    ByteLimit = 3
    MaxFrame = 2
    FrameSizes <- MCSizes
    MaxAU = 2
    MaxBacklog = 1
    MaxConnections = 2
SYMMETRY Interchangeable
INVARIANTS
    TypeOK
    NoSilentDrop
    StartsPromptly
    DeadLinkIsEmpty
    QueueBooks
PROPERTY
    WireSpec
