SPECIFICATION RanksSpec
CONSTANTS
    Rank = {r0, r1, r2}
    Primary = r0
    m1 = m1
    m2 = m2
    m3 = m3
    Message = {m1, m2, m3}
    Steps <- SmallSteps
INVARIANT CaughtUpMeansEmpty
PROPERTIES ImplementsLockstep EveryoneProcesses
CHECK_DEADLOCK FALSE
