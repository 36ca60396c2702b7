SPECIFICATION Spec
CONSTANTS
    Uid = {u1, u2, u3}
    Slot = {s1, s2}
    NoSlot = NoSlot
    NumPages = 3
    PageCounts = {3}
    PageSize = 2
    PrefillBudget = 2
    ConfigMaxSeqLen = 5
    PromptLens = {1, 3, 5}
    OutLens = {1, 3}
    TombstoneCap = 3
    MaxAborts = 1
    MaxRebuilds = 1
    Overlap = TRUE
SYMMETRY Symm
INVARIANTS TypeOK SlotsConserved Ownership PagesConserved InflightSafe AllocationFits AccountedOnce IdleIntegrity RebuildOwnsAll
PROPERTIES NothingAfterTerminal ImplementsBackend
CHECK_DEADLOCK FALSE
