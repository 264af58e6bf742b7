SPECIFICATION BatchSpec
CONSTANTS
    MaxKeys = 2
    B = 2
    Key <- MCKey
    v1 = v1
    Value = {v1}
    First = v1
    Second = None
    Bulk = v1
    MaxRewrites = 0
    None = None
    Batches <- MCBatches
    Ranges <- MCNoRanges
    MaxNodes = 20
INVARIANT QuiescentSearch
CHECK_DEADLOCK FALSE
