\* One object, two backups, two restores and any three kills or I/O failures.
CONSTANTS
    r1 = r1
    Rows = {r1}
    MaxBackups = 2
    MaxRestores = 2
    MaxFaults = 3
SPECIFICATION Spec
INVARIANTS TypeOK RowsKept
PROPERTY RestoreIsAtomic
