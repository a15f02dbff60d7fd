SPECIFICATION Spec
CONSTANTS
    a = a
    b = b
    c = c
    SpanIds <- TwoSpans
    Services = {"gate"}
    Percents = {50}
    Flags = {0, 1}
    NoSpan = NoSpan
    Remote = Remote
    None = None
INVARIANTS
    ServiceRestored
