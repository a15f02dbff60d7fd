SPECIFICATION Spec
CONSTANTS
    s1 = s1
    s2 = s2
    Spans <- TwoSpans
    Shapes <- MixedShapes
    Reporters <- BothReporters
    MaxSpanBytes = 12
    UdpLimit = 14
    EmptyBytes = 1
    NoteBytes = 2
    NoSpan = NoSpan
    NoBatch = NoBatch
INVARIANTS
    TypeOK
    RangeInLogs
    EachLogOnceInOrder
    PacketFits
    AllLogsExist
    CutOnlyIfNeeded
PROPERTIES
    ImplementsDelivery
    Termination
