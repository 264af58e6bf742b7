SPECIFICATION QSpec
CONSTANTS
    h1 = h1
    h2 = h2
    kv1 = kv1
    kv2 = kv2
    c1 = c1
    Handler = {c1}
    Hash = {h1, h2}
    KV = {kv1, kv2}
    KVsOf <- MCKVsOf
    Requests <- MCSingle
    Window = 1
    MaxTime = 0
    MaxAdds = 1
    MaxCopies = 1
    MaxCrashes = 0
    Repeats <- MCRepeats
    Distance <- MCDistance
    TopK = {2}
    MaxQueries = 1
INVARIANT QueryNeverFails
CHECK_DEADLOCK FALSE
