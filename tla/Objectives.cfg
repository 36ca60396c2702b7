SPECIFICATION Spec
CONSTANTS
    MaxCands = 2
    MaxScore = 2
    Parent <- Chain
    UsesLib = {1, 2}
    Members <- Router
    Author <- OneModel
    RequireAudit = TRUE
    FullRanks = 1
    Slots = 2
    Plans <- Meetings
CHECK_DEADLOCK FALSE
INVARIANTS TypeOK NothingDangles CutInUse
PROPERTIES EveryCandidateSettles
