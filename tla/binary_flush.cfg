SPECIFICATION FairSpec
CONSTANTS
    Spans <- MCSpans
    PayloadOf <- MCPayloadOf
    MaxConns = 2
    Window = 6
    Descriptors <- MCDescriptors
    NoSocket = NoSocket
    MaxAddresses = 2
    Pieces <- MCPieces
    RecvTimeouts <- MCRecvTimeouts
    MaxRecvRetries = 1
    MaxFrameSize = 2
    Waits <- MCWaits
INVARIANTS
    TypeOK
    NoDescriptorLeaks
    AcceptedOnce
    SpansKeptUntilSent
PROPERTY
    FlushEnds
