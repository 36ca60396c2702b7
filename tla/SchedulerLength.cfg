SPECIFICATION Spec
CONSTANTS
    Uid = {u1}
    Slot = {s1, s2}
    NoSlot = NoSlot
    NumPages = 6
    PageCounts = {6}
    PageSize = 1
    PrefillBudget = 2
    ConfigMaxSeqLen = 6
    PromptLens = {1, 3}
    OutLens = {1, 3}
    TombstoneCap = 3
    MaxAborts = 0
    MaxRebuilds = 0
    Overlap = TRUE
INVARIANTS LengthMeansFullBudget
CHECK_DEADLOCK FALSE
