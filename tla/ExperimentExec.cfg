\* One experiment, two workers, one resurrection: reclaims, disowned workers,
\* dead letters.
CONSTANTS
    j1 = j1  j2 = j2  w1 = w1  w2 = w2  e1 = e1  e2 = e2
    s1 = s1  s2 = s2  d1 = d1  d2 = d2  local = local
    None = None
    Jobs = {j1}
    Workers = {w1, w2}
    Devices = {local}
    Priorities = {0}
    MaxAttempts = 1
    MaxRequeues = 1
    DeviceOf <- MCDeviceOf
    MaxRunning <- MCMaxRunning
    Enqueuers = {e1}
    Specs = {s1}
    DatasetOf <- OneDataset
    Prio = 0
    Device = local
    MaxEnqueues = 1
SPECIFICATION Spec
SYMMETRY Symmetry
INVARIANTS TypeOK StoresAgree NoLostIntent
PROPERTY ImplementsQueue
CHECK_DEADLOCK FALSE
