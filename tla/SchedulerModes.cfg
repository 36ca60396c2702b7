SPECIFICATION ModeSpec
CONSTANTS
    Uid = {u1, u2}
    Slot = {s1, s2}
    NoSlot = NoSlot
INVARIANT LengthMeansFullBudget
PROPERTIES EveryRequestEnds RebuildAnswered
CHECK_DEADLOCK FALSE
