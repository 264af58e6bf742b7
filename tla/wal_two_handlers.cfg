SPECIFICATION Spec
CONSTANTS
    h1 = h1
    h2 = h2
    kv1 = kv1
    kv2 = kv2
    c1 = c1
    c2 = c2
    Handler = {c1, c2}
    Hash = {h1, h2}
    KV = {kv1, kv2}
    KVsOf <- MCKVsOf
    Requests <- MCSingle
    Window = 1
    MaxTime = 0
    MaxAdds = 1
    MaxCopies = 1
    MaxCrashes = 0
INVARIANT AckedIsLogged
CHECK_DEADLOCK FALSE
