SPECIFICATION Spec
CONSTANTS
    Uid = {u1, u2}
    Slot = {s1, s2}
    NoSlot = NoSlot
    NumPages = 1
    PageCounts = {1}
    PageSize = 4
    PrefillBudget = 4
    ConfigMaxSeqLen = 4
    PromptLens = {1}
    OutLens = {1}
    TombstoneCap = 3
    MaxAborts = 0
    MaxRebuilds = 0
    Overlap = TRUE
INVARIANTS AllocationFits
CHECK_DEADLOCK FALSE
