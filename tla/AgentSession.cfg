\* The session loop: crashes, resumes and compactions around one effect and one read.
SPECIFICATION FairSpec
CONSTANTS
    e1 = e1
    r1 = r1
    Effects = {e1}
    Reads = {r1}
    Tool <- MCTool
    MaxTurns = 2
    KeepLast = 1
    MaxInvalid = 2
    MaxReasks = 1
    MaxAttempts = 2
INVARIANTS
    TypeOK
    TurnBudgetHolds
    RolloutMatchesMemory
    ActionsAreAnswered
PROPERTIES
    CommittedNeverRerun
    SessionEnds
CHECK_DEADLOCK FALSE
