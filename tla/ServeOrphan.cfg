SPECIFICATION Spec
CONSTANTS
    Cfg = {A, B}
    NoCfg = NoCfg
    Legacy = {B}
    AutoRestart = FALSE
    FaultSets = {{"exit"}}
    MaxGens = 2
    MaxCalls = 2
    MaxExits = 1
CHECK_DEADLOCK FALSE
INVARIANT NeverOrphaned
