SPECIFICATION Spec
CONSTANTS
    s1 = s1
    s2 = s2
    Spans <- OneSpan
    Shapes <- SingleLogShapes
    Reporters <- UdpOnly
    MaxSpanBytes = 12
    UdpLimit = 14
    EmptyBytes = 1
    NoteBytes = 2
    NoSpan = NoSpan
    NoBatch = NoBatch
INVARIANTS
    OmissionAnnounced
