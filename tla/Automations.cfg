\* Two processes, a scheduled and a run_completed automation, a stale PATCH and a crash.
SPECIFICATION FairSpec
CONSTANTS
    p1 = p1
    p2 = p2
    s1 = s1
    c1 = c1
    Procs = {p1, p2}
    Schedules = {s1}
    OnCompletion = {c1}
    Listed <- MCListed
    MaxRuns = 2
    Window = 1
    Interval = 1
    MaxNotified = 1
    MaxTime = 2
    MaxDisturbances = 1
INVARIANT TypeOK
PROPERTIES
    SwitchedOffStaysOff
    CompletedIsAnnounced
CHECK_DEADLOCK FALSE
