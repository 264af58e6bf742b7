SPECIFICATION FairSpec
CONSTANTS
    h1 = h1
    h2 = h2
    kv1 = kv1
    kv2 = kv2
    c1 = c1
    Handler = {c1}
    Hash = {h1, h2}
    KV = {kv1, kv2}
    KVsOf <- MCKVsOf
    Requests <- MCRequests
    Window = 1
    MaxTime = 2
    MaxAdds = 2
    MaxCopies = 1
    MaxCrashes = 1
INVARIANT TypeOK
INVARIANT WorkerView
INVARIANT NoDanglingPosting
INVARIANT FinishedIsIndexed
INVARIANT AckedIsLogged
INVARIANT HandlerView
INVARIANT CopiesBounded
PROPERTY FinishedNotPushed
PROPERTY KeepsPromise
PROPERTY AckedIsIndexed
CHECK_DEADLOCK FALSE
