\* Two interruptions and a compaction around one effect.
SPECIFICATION Spec
CONSTANTS
    e1 = e1
    r1 = r1
    Effects = {e1}
    Reads = {r1}
    Tool <- MCTool
    MaxTurns = 3
    KeepLast = 1
    MaxInvalid = 2
    MaxReasks = 1
    MaxAttempts = 3
PROPERTY
    RecordedNeverRerun
CHECK_DEADLOCK FALSE
