SPECIFICATION FairSpec
CONSTANTS
    Workers = {w1}
    Watchdogs = {d1}
    Readers = {}
    Requests = {q1}
    Stamps <- MCStamps
    NoStamp = NoStamp
    MaxAttempts = 2
    AttemptCap = 5
    MaxCalls = 2
    MaxCrashes = 1
CHECK_DEADLOCK FALSE
INVARIANTS
    PlayableInv
PROPERTIES
    FinishedIsKept
    ImplementsContract
    UploadedSettles
