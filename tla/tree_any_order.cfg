SPECIFICATION RewritingSpec
CONSTANTS
    MaxKeys = 2
    B = 2
    Key <- MCKeySmall
    v1 = v1
    v2 = v2
    Value = {v1, v2}
    First = v1
    Second = v2
    Bulk = None
    MaxRewrites = 2
    None = None
    Batches <- MCNoBatches
    Ranges <- MCNoRanges
    MaxNodes = 10
INVARIANT LatestValueReachable
INVARIANT UniformDepth
CHECK_DEADLOCK FALSE
