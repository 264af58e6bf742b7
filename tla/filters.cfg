SPECIFICATION Spec
CONSTANTS
    a = a
    b = b
    c = c
    Pair <- MCPair
    KvLists <- MCKvLists
    Queries <- MCQueries
    Depth <- MCDepth
    MaxBatch = 2
    MaxIndex = 4
INVARIANT IdsAligned
INVARIANT RunsAreMaximal
INVARIANT NothingMissed
INVARIANT HitsAreMeant
INVARIANT LastConjunctHolds
INVARIANT ListsAgree
CHECK_DEADLOCK FALSE
