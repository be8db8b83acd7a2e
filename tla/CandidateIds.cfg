\* An automation turn and a turn of the researcher that both bring candidates.
SPECIFICATION Spec
CONSTANTS
    a1 = a1
    MaxCards = 0
    Launches = {}
    Approvers = {a1}
    MaxMessages = 5
    MaxCandidates = 1
    MaxPosts = 2
    MaxFires = 1
    MaxCrashes = 0
INVARIANT
    CandidateIdsUnique
CHECK_DEADLOCK FALSE
