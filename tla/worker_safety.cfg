SPECIFICATION Spec
CONSTANTS
    a = a
    b = b
    c = c
    SpanIds <- ThreeSpans
    Services = {"gate"}
    Percents = {50}
    Flags = {1}
    NoSpan = NoSpan
    Remote = Remote
    None = None
SYMMETRY AnyIds
INVARIANTS
    TypeOK
    ActiveSpansStored
    SampledSpanMarksTracer
    ReportedOnce
    OneDecisionPerTrace
PROPERTIES
    NoSilentLoss
