\* Two jobs, two worker processes on one device with different limits.
CONSTANTS
    j1 = j1  j2 = j2
    w1 = w1  w2 = w2
    local = local
    None = None
    Jobs = {j1, j2}
    Workers = {w1, w2}
    Devices = {local}
    Priorities = {0, 1}
    MaxAttempts = 2
    MaxRequeues = 1
    DeviceOf <- MCDeviceOf
    MaxRunning <- MCMaxRunning
SPECIFICATION FairSpec
INVARIANTS TypeOK FenceUnique DeadOnlyExhausted
PROPERTIES OutcomeByLatestClaim SettledIsFinal EveryJobSettles
CHECK_DEADLOCK FALSE
