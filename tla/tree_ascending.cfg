SPECIFICATION NextSpec
CONSTANTS
    MaxKeys = 2
    B = 2
    Key <- MCKeyDeep
    v1 = v1
    v2 = v2
    v3 = v3
    Value = {v1, v2, v3}
    First = v1
    Second = v2
    Bulk = v3
    MaxRewrites = 2
    None = None
    Batches <- MCBatchesNext
    Ranges <- MCRanges
    MaxNodes = 20
INVARIANT TypeOK
INVARIANT ReaderSearch
INVARIANT RangeLastWins
PROPERTY ImplementsMap
CHECK_DEADLOCK FALSE
