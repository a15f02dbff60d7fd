SPECIFICATION Spec
CONSTANTS
    Garbage = Garbage
    Width = 3
    Bytes <- MCBytes
    Sizes <- MCSizes
    Maxima <- MCMaxima
    Writes <- MCWrites
    Lengths <- MCLengths
INVARIANTS
    TypeOK
    PositionsInBuffer
    WrittenBeforeRead
PROPERTIES
    RefusedOnlyNearMaximum
    ImplementsQueue
