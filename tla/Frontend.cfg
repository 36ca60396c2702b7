SPECIFICATION Spec
CONSTANTS
    User = {u1}
    Worker = {w1, w2}
    Rebuild = {r1}
    MaxTokens = 2
    MaxFaults = 1
    MaxPending = 1
    MaxCrashes = 1
INVARIANTS TypeOK SealIsFinal RebuildHoldsGate
PROPERTIES KeepsBackend RebuildReleases StopCompletes ClientsAnswered
CHECK_DEADLOCK FALSE
