SPECIFICATION Spec
CONSTANTS
    c1 = c1
    h1 = h1
    h2 = h2
    Client = {c1}
    Worker = Worker
    Hash = {h1, h2}
    Absent = Absent
    Dir = Dir
    MaxTime = 1
    MaxRecoveries = 2
    MaxCrashes = 0
INVARIANT RecoveryIsExact
CHECK_DEADLOCK FALSE
