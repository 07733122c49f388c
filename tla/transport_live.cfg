SPECIFICATION LiveSpec
CONSTANTS
    s1 = s1
    s2 = s2
    Streams <- MCOne
    QueueLimit = 2
    ByteLimit = 3
    MaxFrame = 2
    FrameSizes <- MCLargeSizes
    MaxAU = 3
    MaxBacklog = 1
    MaxConnections = 2
PROPERTIES
    ClientReleased
    ServerAnswers
