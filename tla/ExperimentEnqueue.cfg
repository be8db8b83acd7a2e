\* One spec, two processes that enqueue it, one worker.
CONSTANTS
    j1 = j1  j2 = j2  w1 = w1  w2 = w2  e1 = e1  e2 = e2
    s1 = s1  s2 = s2  d1 = d1  d2 = d2  local = local
    None = None
    Jobs = {j1}
    Workers = {w1}
    Devices = {local}
    Priorities = {0}
    MaxAttempts = 1
    MaxRequeues = 0
    DeviceOf <- MCDeviceOf
    MaxRunning <- MCMaxRunning
    Enqueuers = {e1, e2}
    Specs = {s1}
    DatasetOf <- OneDataset
    Prio = 0
    Device = local
    MaxEnqueues = 2
SPECIFICATION RecoverySpec
PROPERTY IntentBecomesJob
CHECK_DEADLOCK FALSE
