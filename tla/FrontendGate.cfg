SPECIFICATION Spec
CONSTANTS
    User = {u1}
    Worker = {w1}
    Rebuild = {r1}
    MaxTokens = 1
    MaxFaults = 0
    MaxPending = 1
    MaxCrashes = 0
INVARIANT SealedStaysClosed
CHECK_DEADLOCK FALSE
