SPECIFICATION AloneSpec
CONSTANTS
    c1 = c1
    c2 = c2
    h1 = h1
    h2 = h2
    Client = {c1, c2}
    Worker = Worker
    Hash = {h1, h2}
    Absent = Absent
    Dir = Dir
    MaxTime = 1
    MaxRecoveries = 1
    MaxCrashes = 1
INVARIANT TypeOK
INVARIANT RecoveryIsExact
INVARIANT OwedIsLogged
INVARIANT OwedIsWhereCurrentLeads
INVARIANT NeverPartlyRecovered
PROPERTY WorkerCatchesUp
CHECK_DEADLOCK FALSE
