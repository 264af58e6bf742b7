----------------------------- MODULE WalCommit ------------------------------
(***************************************************************************)
(* The write path of one namespace: request handlers append commits to the *)
(* write-ahead log (structures/wal.rs), a background worker moves what is  *)
(* logged and not finished into the vector list and the indexes            *)
(* (services/commit.rs), and the process may die at any point              *)
(* (main.rs starts the worker again with the first request it serves).     *)
(*                                                                         *)
(* Handlers and worker share the files of the namespace and nothing else:  *)
(* each has mappings of its own and no lock is held over any two of their  *)
(* steps.  An action is one read or one write of one file.                 *)
(*                                                                         *)
(* Abstractions.  A commit is its hash, and holds one vector, as those of  *)
(* the addVector route do.  The two trees of hashes are one leaf each      *)
(* (fewer than 63 keys; larger ones are MmapTree), so inserting reads the  *)
(* whole tree and writes it back.  The tree of seconds, whose keys come in *)
(* ascending order, is a root and its leaves: what searches and inserts    *)
(* see of it is one leaf, and what its ranges return besides, the copies   *)
(* that a leaf keeps of the half it has given away, is a variable of its   *)
(* own.  The uuid drawn for a vector is fresh, as its index is, and the    *)
(* index stands for both.                                                  *)
(***************************************************************************)
EXTENDS Integers, Sequences, FiniteSets

CONSTANTS
    Handler,        \* requests that may run at the same time
    Hash,           \* commits, by the hash of their content
    KV,             \* metadata key-value pairs
    KVsOf,          \* the pairs attached to a commit's vector
    Requests,       \* what one request logs: <<h>> for add_to_wal, more for batch_add_to_wal
    Window,         \* get_uncommitted looks at that many seconds back (100000)
    MaxTime,        \* bound: the clock stops there
    MaxAdds,        \* bound: how often each commit is logged in a behaviour
    MaxCopies,      \* bound: what splits leave of one second
    MaxCrashes      \* bound: process deaths

ASSUME WalAssumption ==
    /\ KVsOf \in [Hash -> SUBSET KV]
    /\ Requests \subseteq Seq(Hash) \ {<<>>}
    /\ Window \in Nat
    /\ MaxTime \in Nat
    /\ MaxAdds \in Nat
    /\ MaxCopies \in Nat
    /\ MaxCrashes \in Nat

Time == 0..MaxTime

VARIABLES
    \* on disk
    timestamps,     \* the log: the hashes received at each second
    copies,         \* the log: what leaves keep of seconds that have moved on
    commitList,     \* hashes whose content is stored
    commitFinish,   \* hashes marked as indexed
    vectors,        \* vectors.bin: the commit each vector came from
    metadata,       \* metadata.bin: items, by vector index
    postings,       \* inverted_index.bin: vector indices per pair
    \* a request handler
    hpc,            \* what it does next
    req,            \* the hashes it has to log
    ts,             \* the second it read from the clock
    vals,           \* the hashes it will store under ts
    leaf,           \* the timestamps leaf it has loaded
    list,           \* the commit list leaf it has loaded
    stored,         \* how many of req are in the commit list
    \* the commit worker
    spawned,        \* whether the process has started it
    wpc,            \* what it does next
    seen,           \* the range of the log it read, less what it has examined
    batch,          \* the commits it will index
    base,           \* its cached length of vectors
    metaLeft,       \* positions of batch whose metadata is not stored
    kvLeft,         \* pairs whose postings are not stored
    marked,         \* how many of batch are marked finished
    \* the environment
    now,
    adds,           \* how often each commit was logged
    crashes,
    acked           \* history: commits whose request was answered

disk == <<timestamps, copies, commitList, commitFinish, vectors, metadata, postings>>
handlerVars == <<hpc, req, ts, vals, leaf, list, stored>>
workerVars == <<wpc, seen, batch, base, metaLeft, kvLeft, marked>>
envVars == <<now, adds, crashes, acked>>
vars == <<disk, handlerVars, spawned, workerVars, envVars>>

HandlerStages == {"idle", "search", "split", "loadLeaf", "storeLeaf", "loadList", "storeList"}
WorkerStages == {"idle", "range", "collect", "metadata", "postings"}

Elements(s) == {s[i] : i \in DOMAIN s}

Item(i, h) == [index |-> i, commit |-> h]

-----------------------------------------------------------------------------
(***************************************************************************)
(* No request under way, and no commit.                                    *)
(***************************************************************************)
EmptyLog == [t \in Time |-> <<>>]

IdleHandlers ==
    /\ hpc = [c \in Handler |-> "idle"]
    /\ req = [c \in Handler |-> <<>>]
    /\ ts = [c \in Handler |-> 0]
    /\ vals = [c \in Handler |-> <<>>]
    /\ leaf = [c \in Handler |-> EmptyLog]
    /\ list = [c \in Handler |-> {}]
    /\ stored = [c \in Handler |-> 0]

IdleWorker ==
    /\ wpc = "idle"
    /\ seen = EmptyLog
    /\ batch = <<>>
    /\ base = 0
    /\ metaLeft = {}
    /\ kvLeft = {}
    /\ marked = 0

Init ==
    /\ timestamps = EmptyLog
    /\ copies = EmptyLog
    /\ commitList = {}
    /\ commitFinish = {}
    /\ vectors = <<>>
    /\ metadata = {}
    /\ postings = [kv \in KV |-> {}]
    /\ IdleHandlers
    /\ spawned = FALSE
    /\ IdleWorker
    /\ now = 0
    /\ adds = [h \in Hash |-> 0]
    /\ crashes = 0
    /\ acked = {}

-----------------------------------------------------------------------------
Occurrences(s, h) == Cardinality({i \in DOMAIN s : s[i] = h})

(***************************************************************************)
(* A request arrives: the worker is started if this process has none, the  *)
(* content is hashed and the clock read.                                   *)
(***************************************************************************)
Receive(c, hashes) ==
    /\ hpc[c] = "idle"
    /\ \A h \in Hash : adds[h] + Occurrences(hashes, h) <= MaxAdds
    /\ spawned' = TRUE
    /\ hpc' = [hpc EXCEPT ![c] = "search"]
    /\ req' = [req EXCEPT ![c] = hashes]
    /\ ts' = [ts EXCEPT ![c] = now]
    /\ adds' = [h \in Hash |-> adds[h] + Occurrences(hashes, h)]
    /\ UNCHANGED <<disk, vals, leaf, list, stored, workerVars, now, crashes, acked>>

(***************************************************************************)
(* SearchTimestamp, were the hashes found there forgotten.                 *)
(***************************************************************************)
SearchTimestampForgets(c) ==
    /\ hpc[c] = "search"
    /\ vals' = [vals EXCEPT ![c] = req[c]]
    /\ hpc' = [hpc EXCEPT ![c] = "split"]
    /\ UNCHANGED <<disk, req, ts, leaf, list, stored, spawned, workerVars, envVars>>

(***************************************************************************)
(* timestamps.search(ts), with the new hashes pushed onto what it finds.   *)
(***************************************************************************)
SearchTimestamp(c) ==
    /\ hpc[c] = "search"
    /\ vals' = [vals EXCEPT ![c] = timestamps[ts[c]] \o req[c]]
    /\ hpc' = [hpc EXCEPT ![c] = "split"]
    /\ UNCHANGED <<disk, req, ts, leaf, list, stored, spawned, workerVars, envVars>>

(***************************************************************************)
(* timestamps.insert(ts, vals) comes to a leaf.  If it is full, the half   *)
(* above its median m is stored in a new leaf, which the root now leads    *)
(* to; the old leaf is not stored without it, and ranges find both.        *)
(* Nothing is copied if the leaf is not full (m = MaxTime), nor if it is   *)
(* the root.                                                               *)
(***************************************************************************)
SplitTimestamps(c) ==
    /\ hpc[c] = "split"
    /\ \E m \in Time :
          /\ \A t \in Time : m < t => Len(copies[t] \o timestamps[t]) <= MaxCopies
          /\ copies' = [t \in Time |-> IF m < t THEN copies[t] \o timestamps[t] ELSE copies[t]]
    /\ hpc' = [hpc EXCEPT ![c] = "loadLeaf"]
    /\ UNCHANGED <<timestamps, commitList, commitFinish, vectors, metadata, postings,
                   req, ts, vals, leaf, list, stored, spawned, workerVars, envVars>>

(***************************************************************************)
(* LoadTimestamps, were the leaf cached from one request to the next.      *)
(***************************************************************************)
LoadTimestampsCached(c) ==
    /\ hpc[c] = "loadLeaf"
    /\ hpc' = [hpc EXCEPT ![c] = "storeLeaf"]
    /\ UNCHANGED <<disk, req, ts, vals, leaf, list, stored, spawned, workerVars, envVars>>

(***************************************************************************)
(* The insertion proper: load the leaf, then store it.                     *)
(***************************************************************************)
LoadTimestamps(c) ==
    /\ hpc[c] = "loadLeaf"
    /\ leaf' = [leaf EXCEPT ![c] = timestamps]
    /\ hpc' = [hpc EXCEPT ![c] = "storeLeaf"]
    /\ UNCHANGED <<disk, req, ts, vals, list, stored, spawned, workerVars, envVars>>

StoreTimestamps(c) ==
    /\ hpc[c] = "storeLeaf"
    /\ timestamps' = [leaf[c] EXCEPT ![ts[c]] = vals[c]]
    /\ hpc' = [hpc EXCEPT ![c] = "loadList"]
    /\ vals' = [vals EXCEPT ![c] = <<>>]
    /\ leaf' = [leaf EXCEPT ![c] = EmptyLog]
    /\ UNCHANGED <<copies, commitList, commitFinish, vectors, metadata, postings,
                   req, ts, list, stored, spawned, workerVars, envVars>>

(***************************************************************************)
(* add_to_commit_list, once for each hash: load the leaf, then store it.   *)
(* The request is answered after the last one.                             *)
(***************************************************************************)
LoadCommitList(c) ==
    /\ hpc[c] = "loadList"
    /\ list' = [list EXCEPT ![c] = commitList]
    /\ hpc' = [hpc EXCEPT ![c] = "storeList"]
    /\ UNCHANGED <<disk, req, ts, vals, leaf, stored, spawned, workerVars, envVars>>

(***************************************************************************)
(* StoreCommitList, were its loop to run once too often.                   *)
(***************************************************************************)
StoreCommitListOnceMore(c) ==
    /\ hpc[c] = "storeList"
    /\ commitList' = list[c] \cup {req[c][stored[c] + 1]}
    /\ list' = [list EXCEPT ![c] = {}]
    /\ stored' = [stored EXCEPT ![c] = @ + 1]
    /\ hpc' = [hpc EXCEPT ![c] = "loadList"]
    /\ UNCHANGED <<timestamps, copies, commitFinish, vectors, metadata, postings, req, ts,
                   vals, leaf, spawned, workerVars, envVars>>

StoreCommitList(c) ==
    /\ hpc[c] = "storeList"
    /\ commitList' = list[c] \cup {req[c][stored[c] + 1]}
    /\ list' = [list EXCEPT ![c] = {}]
    /\ \/ /\ stored[c] + 1 < Len(req[c])
          /\ stored' = [stored EXCEPT ![c] = @ + 1]
          /\ hpc' = [hpc EXCEPT ![c] = "loadList"]
          /\ UNCHANGED <<req, ts, acked>>
       \/ /\ stored[c] + 1 = Len(req[c])
          /\ stored' = [stored EXCEPT ![c] = 0]
          /\ hpc' = [hpc EXCEPT ![c] = "idle"]
          /\ req' = [req EXCEPT ![c] = <<>>]
          /\ ts' = [ts EXCEPT ![c] = 0]
          /\ acked' = acked \cup Elements(req[c])
    /\ UNCHANGED <<timestamps, copies, commitFinish, vectors, metadata, postings,
                   vals, leaf, spawned, workerVars, now, adds, crashes>>

Log(c) == \/ SearchTimestamp(c) \/ SplitTimestamps(c) \/ LoadTimestamps(c)
          \/ StoreTimestamps(c) \/ LoadCommitList(c) \/ StoreCommitList(c)

-----------------------------------------------------------------------------
(***************************************************************************)
(* The interval fires: the namespace is opened, and with it vectors.bin,   *)
(* whose length is read once.                                              *)
(***************************************************************************)
StartCommit ==
    /\ spawned
    /\ wpc = "idle"
    /\ wpc' = "range"
    /\ base' = Len(vectors)
    /\ UNCHANGED <<disk, handlerVars, spawned, seen, batch, metaLeft, kvLeft, marked, envVars>>

(***************************************************************************)
(* get_uncommitted: the clock and the log are read at once, the copies of  *)
(* a leaf too unless the window begins beyond it, and none is dropped for  *)
(* being there twice.  The two other trees are read for each hash in turn, *)
(* in the order of the leaves, which need not be that of the seconds.      *)
(***************************************************************************)
InWindowShort(t) == now - Window < t /\ t <= now    \* a mutant: its far end left out

InWindow(t) == now - Window <= t /\ t <= now

ReadRange ==
    /\ wpc = "range"
    /\ \E old \in SUBSET {t \in Time : copies[t] # <<>>} :
          seen' = [t \in Time |->
                      IF ~InWindow(t) THEN <<>>
                      ELSE IF t \in old THEN copies[t] \o timestamps[t]
                      ELSE timestamps[t]]
    /\ wpc' = "collect"
    /\ UNCHANGED <<disk, handlerVars, spawned, batch, base, metaLeft, kvLeft, marked, envVars>>

Finishable(h) == h \in commitList                       \* a mutant: commit_finish not consulted

Unfinished(h) == h \notin commitFinish /\ h \in commitList

Collect(t) ==
    /\ wpc = "collect"
    /\ seen[t] # <<>>
    /\ seen' = [seen EXCEPT ![t] = Tail(@)]
    /\ LET h == Head(seen[t])
       IN  batch' = IF Unfinished(h) THEN Append(batch, h) ELSE batch
    /\ UNCHANGED <<disk, handlerVars, spawned, wpc, base, metaLeft, kvLeft, marked, envVars>>

Examined == wpc = "collect" /\ seen = EmptyLog

ResetWorker ==
    /\ wpc' = "idle"
    /\ seen' = EmptyLog
    /\ batch' = <<>>
    /\ base' = 0
    /\ metaLeft' = {}
    /\ kvLeft' = {}
    /\ marked' = 0

NothingToCommit ==
    /\ Examined
    /\ batch = <<>>
    /\ ResetWorker
    /\ UNCHANGED <<disk, handlerVars, spawned, envVars>>

(***************************************************************************)
(* vectors.batch_push, at the length the worker has cached.                *)
(***************************************************************************)
KeptShort == SubSeq(vectors, 1, base - 1)               \* a mutant: off by one

Kept == SubSeq(vectors, 1, base)

PushVectors ==
    /\ Examined
    /\ batch # <<>>
    /\ vectors' = Kept \o batch
    /\ wpc' = "metadata"
    /\ metaLeft' = DOMAIN batch
    /\ kvLeft' = UNION {KVsOf[batch[j]] : j \in DOMAIN batch}
    /\ UNCHANGED <<timestamps, copies, commitList, commitFinish, metadata, postings,
                   handlerVars, spawned, seen, batch, base, marked, envVars>>

(***************************************************************************)
(* StoreMetadata, were one item to do for the whole batch.                 *)
(***************************************************************************)
StoreMetadataOnce(j) ==
    /\ wpc = "metadata"
    /\ j \in metaLeft
    /\ metadata' = metadata \cup {Item(base + j, batch[j])}
    /\ metaLeft' = {}
    /\ wpc' = "postings"
    /\ UNCHANGED <<timestamps, copies, commitList, commitFinish, vectors, postings,
                   handlerVars, spawned, seen, batch, base, kvLeft, marked, envVars>>

(***************************************************************************)
(* metadata_index.batch_insert stores an item at a time, sorted by uuid,   *)
(* which is no order at all.                                               *)
(***************************************************************************)
StoreMetadata(j) ==
    /\ wpc = "metadata"
    /\ j \in metaLeft
    /\ metadata' = metadata \cup {Item(base + j, batch[j])}
    /\ metaLeft' = metaLeft \ {j}
    /\ wpc' = IF metaLeft = {j} THEN "postings" ELSE wpc
    /\ UNCHANGED <<timestamps, copies, commitList, commitFinish, vectors, postings,
                   handlerVars, spawned, seen, batch, base, kvLeft, marked, envVars>>

(***************************************************************************)
(* StorePostings, were the whole batch filed under each of its pairs.      *)
(***************************************************************************)
StorePostingsOfAll(kv) ==
    /\ wpc = "postings"
    /\ kv \in kvLeft
    /\ postings' = [postings EXCEPT ![kv] = @ \cup {base + j : j \in DOMAIN batch}]
    /\ kvLeft' = kvLeft \ {kv}
    /\ UNCHANGED <<timestamps, copies, commitList, commitFinish, vectors, metadata,
                   handlerVars, spawned, wpc, seen, batch, base, metaLeft, marked, envVars>>

(***************************************************************************)
(* inverted_index.insert_append, once for each pair of the batch, in the   *)
(* order of a hash map.                                                    *)
(***************************************************************************)
StorePostings(kv) ==
    /\ wpc = "postings"
    /\ kv \in kvLeft
    /\ postings' = [postings EXCEPT ![kv] =
                       @ \cup {base + j : j \in {i \in DOMAIN batch : kv \in KVsOf[batch[i]]}}]
    /\ kvLeft' = kvLeft \ {kv}
    /\ UNCHANGED <<timestamps, copies, commitList, commitFinish, vectors, metadata,
                   handlerVars, spawned, wpc, seen, batch, base, metaLeft, marked, envVars>>

(***************************************************************************)
(* mark_commit_finished, commit by commit; the worker then sleeps.         *)
(***************************************************************************)
MarkFinished ==
    /\ wpc = "postings"
    /\ kvLeft = {}
    /\ commitFinish' = commitFinish \cup {batch[marked + 1]}
    /\ \/ /\ marked + 1 < Len(batch)
          /\ marked' = marked + 1
          /\ UNCHANGED <<wpc, seen, batch, base, metaLeft, kvLeft>>
       \/ /\ marked + 1 = Len(batch)
          /\ ResetWorker
    /\ UNCHANGED <<timestamps, copies, commitList, vectors, metadata, postings,
                   handlerVars, spawned, envVars>>

Work == \/ StartCommit
        \/ ReadRange
        \/ \E t \in Time : Collect(t)
        \/ NothingToCommit
        \/ PushVectors
        \/ \E j \in metaLeft : StoreMetadata(j)
        \/ \E kv \in kvLeft : StorePostings(kv)
        \/ MarkFinished

-----------------------------------------------------------------------------
(***************************************************************************)
(* The process dies and another one serves the namespace: nothing but the  *)
(* files survives, and the worker waits for a request.                     *)
(***************************************************************************)
Crash ==
    /\ crashes < MaxCrashes
    /\ crashes' = crashes + 1
    /\ spawned' = FALSE
    /\ hpc' = [c \in Handler |-> "idle"]
    /\ req' = [c \in Handler |-> <<>>]
    /\ ts' = [c \in Handler |-> 0]
    /\ vals' = [c \in Handler |-> <<>>]
    /\ leaf' = [c \in Handler |-> EmptyLog]
    /\ list' = [c \in Handler |-> {}]
    /\ stored' = [c \in Handler |-> 0]
    /\ ResetWorker
    /\ UNCHANGED <<disk, now, adds, acked>>

(***************************************************************************)
(* A query, or any other request that logs nothing.                        *)
(***************************************************************************)
OtherRequest ==
    /\ ~spawned
    /\ spawned' = TRUE
    /\ UNCHANGED <<disk, handlerVars, workerVars, envVars>>

(***************************************************************************)
(* Time passes.  A running worker and a running handler take less than     *)
(* Window, a bit more than a day, over what they are doing; a process that *)
(* died may stay down, and its namespace unused, for as long as it likes.  *)
(***************************************************************************)
Pending(t) == {h \in Elements(timestamps[t]) : h \in commitList /\ h \notin commitFinish}

Tick ==
    /\ now < MaxTime
    /\ \A t \in Time : t + Window = now =>
          /\ spawned => Pending(t) = {}
          /\ \A c \in Handler : hpc[c] = "idle" \/ ts[c] # t
    /\ now' = now + 1
    /\ UNCHANGED <<disk, handlerVars, spawned, workerVars, adds, crashes, acked>>

Next == \/ \E c \in Handler : (\E hashes \in Requests : Receive(c, hashes)) \/ Log(c)
        \/ Work
        \/ Crash
        \/ OtherRequest
        \/ Tick

Spec == Init /\ [][Next]_vars

(***************************************************************************)
(* The runtime polls the worker again and again, and clients go on using   *)
(* the namespace: nobody promises either that a request is sent or that a  *)
(* handler that is not polled proceeds.                                    *)
(***************************************************************************)
FairSpec == Spec /\ WF_vars(Work) /\ WF_vars(OtherRequest)

-----------------------------------------------------------------------------
(***************************************************************************)
(* The types of the files and of the locals of handlers and worker: among  *)
(* them, that neither reads past the end of the list it is working         *)
(* through, nor does the worker write past the end of vectors.bin.         *)
(***************************************************************************)
DiskOK ==
    /\ timestamps \in [Time -> Seq(Hash)]
    /\ copies \in [Time -> Seq(Hash)]
    /\ commitList \in SUBSET Hash
    /\ commitFinish \in SUBSET Hash
    /\ vectors \in Seq(Hash)
    /\ metadata \in SUBSET [index : Nat, commit : Hash]
    /\ postings \in [KV -> SUBSET Nat]

HandlersOK ==
    /\ hpc \in [Handler -> HandlerStages]
    /\ req \in [Handler -> Seq(Hash)]
    /\ ts \in [Handler -> Time]
    /\ vals \in [Handler -> Seq(Hash)]
    /\ leaf \in [Handler -> [Time -> Seq(Hash)]]
    /\ list \in [Handler -> SUBSET Hash]
    /\ stored \in [Handler -> Nat]
    /\ \A c \in Handler : IF hpc[c] = "idle" THEN stored[c] = 0 ELSE stored[c] < Len(req[c])

WorkerOK ==
    /\ spawned \in BOOLEAN
    /\ wpc \in WorkerStages
    /\ seen \in [Time -> Seq(Hash)]
    /\ batch \in Seq(Hash)
    /\ base \in 0..Len(vectors)
    /\ metaLeft \subseteq DOMAIN batch
    /\ kvLeft \subseteq KV
    /\ marked \in Nat
    /\ IF wpc \in {"metadata", "postings"} THEN marked < Len(batch) ELSE marked = 0

EnvOK ==
    /\ now \in Time
    /\ adds \in [Hash -> Nat]
    /\ crashes \in Nat
    /\ acked \subseteq Hash

TypeOK == DiskOK /\ HandlersOK /\ WorkerOK /\ EnvOK

(***************************************************************************)
(* What the worker takes for granted of the files, from its first read of  *)
(* them to its last write: that vectors.bin is as long as its handle has   *)
(* cached, that nothing it collected was finished meanwhile, and that what *)
(* it has gone through of batch is on disk at the index it computed.       *)
(***************************************************************************)
WorkerView ==
    /\ wpc \in {"idle", "range"} => batch = <<>>
    /\ wpc \in {"range", "collect"} =>
          /\ base = Len(vectors)
          /\ \A j \in DOMAIN batch : batch[j] \notin commitFinish
    /\ wpc \in {"metadata", "postings"} =>
          \A j \in DOMAIN batch :
              /\ base + j \in DOMAIN vectors
              /\ vectors[base + j] = batch[j]
              /\ j \in metaLeft \/ Item(base + j, batch[j]) \in metadata
              /\ \A kv \in KVsOf[batch[j]] \ kvLeft : base + j \in postings[kv]
    /\ wpc = "postings" => metaLeft = {}

(***************************************************************************)
(* A query never meets a posting whose vector or whose metadata item is    *)
(* not there yet, nor one under a pair the vector does not have, wherever  *)
(* the worker stands or was killed: the order push, metadata, postings.    *)
(***************************************************************************)
NoDanglingPosting ==
    \A kv \in KV : \A i \in postings[kv] :
        /\ i \in DOMAIN vectors
        /\ kv \in KVsOf[vectors[i]]
        /\ Item(i, vectors[i]) \in metadata

(***************************************************************************)
(* A commit marked finished, which no later run of the worker looks at, is *)
(* wholly indexed, whatever crashes came between its steps.                *)
(***************************************************************************)
Indexed(h) ==
    \E i \in DOMAIN vectors : /\ vectors[i] = h
                              /\ Item(i, h) \in metadata
                              /\ \A kv \in KVsOf[h] : i \in postings[kv]

FinishedIsIndexed == \A h \in commitFinish : Indexed(h)

(***************************************************************************)
(* A request answered "Success" is in the log and its content is stored,   *)
(* so that the worker, or a point-in-time recovery, finds it (the "Durable *)
(* (WAL)" of README.md).  True of requests served one at a time.           *)
(***************************************************************************)
InLog(h) == h \in commitList /\ \E t \in Time : h \in Elements(timestamps[t])

AckedIsLogged == \A h \in acked : InLog(h)

(***************************************************************************)
(* Why that is so: what a handler has read of the log is still what is on  *)
(* disk when it writes it back with its own additions.                     *)
(***************************************************************************)
Sees(c) ==
    /\ hpc[c] \in {"search", "split", "loadLeaf", "storeLeaf"} => stored[c] = 0
    /\ hpc[c] \in {"split", "loadLeaf", "storeLeaf"} => vals[c] = timestamps[ts[c]] \o req[c]
    /\ hpc[c] = "storeLeaf" => leaf[c] = timestamps
    /\ hpc[c] \in {"loadList", "storeList"} =>
          /\ Elements(req[c]) \subseteq Elements(timestamps[ts[c]])
          /\ \A i \in 1..stored[c] : req[c][i] \in commitList
    /\ hpc[c] = "storeList" => list[c] = commitList

HandlerView == \A c \in Handler : Sees(c)

(***************************************************************************)
(* A commit is not indexed more often than it was logged, and copied where *)
(* a leaf was split, but for a repeat of these per death of the process:   *)
(* being logged twice in one second, or standing twice in one batch, adds  *)
(* nothing more.                                                           *)
(***************************************************************************)
Copied(h) == UNION {{t} \X {i \in DOMAIN copies[t] : copies[t][i] = h} : t \in Time}

TimesLogged(h) == adds[h] + Cardinality(Copied(h))

CopiesBounded == \A h \in Hash : Occurrences(vectors, h) <= TimesLogged(h) * (1 + crashes)

(***************************************************************************)
(* What is marked finished is never pushed again, by this process or by a  *)
(* later one, as long as commit_finish is one leaf: its keys are hashes,   *)
(* in no order, and a larger tree may not find one (FreshSpec of           *)
(* MmapTree).                                                              *)
(***************************************************************************)
FinishedNotPushed ==
    [][\A i \in DOMAIN vectors' \ DOMAIN vectors : vectors'[i] \notin commitFinish]_vars

(***************************************************************************)
(* A request that was answered is indexed in the end, whatever the worker  *)
(* had read of the log when it was stored, and across restarts: unless the *)
(* namespace was out of use for so long that get_uncommitted, which looks  *)
(* Window seconds back, has forgotten it.  The two trees of hashes are one *)
(* leaf here too.                                                          *)
(***************************************************************************)
Forgotten(h) == \A t \in Time : h \in Elements(timestamps[t]) => t + Window < now

AckedIsIndexed == \A h \in Hash : h \in acked ~> Indexed(h) \/ Forgotten(h)

-----------------------------------------------------------------------------
Received == {h \in Hash : adds[h] > 0}

Promise == INSTANCE DurableIndex WITH
    received <- Received,
    indexed <- {h \in Hash : Indexed(h)}

(***************************************************************************)
(* The write path keeps the promise of DurableIndex: each of its steps,    *)
(* a crash included, is a step of it or changes nothing it speaks of.      *)
(***************************************************************************)
KeepsPromise == Promise!Spec
=============================================================================
