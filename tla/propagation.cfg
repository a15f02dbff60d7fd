SPECIFICATION Spec
CONSTANTS
    WordDigits = 2
    p = p
    q = q
    Processes <- TwoProcesses
    NewIds <- MCNewIds
    Callers <- MCCallers
    Percents = 50
    Payloads <- MCPayloads
    MaxSpans = 3
SYMMETRY AnyProcess
INVARIANTS
    TraceSurvives
    NeverStartsAnew
    PayloadKept
