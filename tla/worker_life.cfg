SPECIFICATION FairSpec
CONSTANTS
    a = a
    b = b
    c = c
    SpanIds <- TwoSpans
    Services = {"gate"}
    Percents = {50}
    Flags = {2}
    NoSpan = NoSpan
    Remote = Remote
    None = None
PROPERTIES
    ImplementsLifecycle
    EventuallyReported
