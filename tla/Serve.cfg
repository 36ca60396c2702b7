SPECIFICATION Spec
CONSTANTS
    Cfg = {A, B}
    NoCfg = NoCfg
    Legacy = {B}
    AutoRestart = TRUE
    FaultSets = {{}, {"outbox", "store", "exit"}}
    MaxGens = 2
    MaxCalls = 3
    MaxExits = 1
CHECK_DEADLOCK FALSE
INVARIANTS TypeOK OneEngine SignalledRecorded StopIsFinal ReceiptsExact
PROPERTIES DeadChildForgotten ForcedStopKills
