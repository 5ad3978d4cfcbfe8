SPECIFICATION Spec
CONSTANTS
    Workers = {w1, w2}
    Watchdogs = {d1}
    Readers = {r1}
    Requests = {q1}
    Stamps <- MCStamps
    NoStamp = NoStamp
    MaxAttempts = 2
    AttemptCap = 2
    MaxCalls = 1
    MaxCrashes = 0
SYMMETRY MCSymmetry
CHECK_DEADLOCK FALSE
INVARIANTS
    NoRequeuePastCeiling

    
