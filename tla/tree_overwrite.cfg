SPECIFICATION OverwriteSpec
CONSTANTS
    MaxKeys = 2
    B = 2
    Key <- MCKey
    v1 = v1
    v2 = v2
    Value = {v1, v2}
    First = v1
    Second = v2
    Bulk = None
    MaxRewrites = 0
    None = None
    Batches <- MCNoBatches
    Ranges <- MCNoRanges
    MaxNodes = 20
INVARIANT QuiescentSearch
CHECK_DEADLOCK FALSE
