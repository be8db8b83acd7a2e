\* A turn with launch cards, an approval, an automation turn and a crash.
SPECIFICATION FairSpec
CONSTANTS
    a1 = a1
    MaxCards = 2
    Launches = {1, 2}
    Approvers = {a1}
    MaxMessages = 5
    MaxCandidates = 0
    MaxPosts = 2
    MaxFires = 1
    MaxCrashes = 1
INVARIANTS
    TypeOK
    RunsAreAttributed
PROPERTIES
    ImplementsDialogue
    MessagesSettle
CHECK_DEADLOCK FALSE
