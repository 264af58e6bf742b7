SPECIFICATION OneWriterSpec
CONSTANTS
    w = w
    r = r
    Handle <- MCHandle
    Writers <- MCWriters
    FirstLen = 2
    MaxSize = 3
    MaxBlocks = 6
    MaxStores = 4
    MaxCrashes = 1
INVARIANT TypeOK
INVARIANT ChainsDisjoint
INVARIANT StoreStaysInside
INVARIANT LoadIsExact
INVARIANT RootIsStored
CHECK_DEADLOCK FALSE
