------------------------------ MODULE QueryPath -----------------------------
(***************************************************************************)
(* A query served while handlers log and the worker commits: main.rs opens *)
(* the namespace for each query, services/query.rs evaluates the filter on *)
(* the inverted index, fetches the vectors found and then their metadata.  *)
(* It reads files the worker is writing, and the length of vectors.bin it  *)
(* checks indices against is the one it read when it opened them.          *)
(*                                                                         *)
(* The filter is one pair (an Eq filter): Filters has the others.          *)
(***************************************************************************)
EXTENDS WalCommit, Ranking

CONSTANTS
    Repeats,    \* how often the list of a commit has a pair that it has
    Distance,   \* how far the vector of each commit is from the one asked for
    TopK,       \* the numbers of vectors a query may ask for
    MaxQueries  \* bound: queries in a behaviour

ASSUME QueryAssumption ==
    /\ Repeats \in [Hash -> [KV -> Nat \ {0}]]
    /\ Distance \in [Hash -> Nat]
    /\ TopK \subseteq Nat
    /\ MaxQueries \in Nat

VARIABLES
    grown,      \* on disk: whether an entry of the index was added to later
    qpc,        \* what the query does next
    qkv,        \* the pair asked for
    qTop,       \* how many vectors it asks for
    qLen,       \* its cached length of vectors
    qHits,      \* the indices the filter found
    qGrown,     \* whether its entry was added to
    qWanted,    \* those whose ids it still has to look up
    qAsked,     \* history: those whose ids it looks up
    qFound,     \* the metadata items it will answer with
    qBefore,    \* history: postings of the pair when the query arrived
    queries

qvars == <<qpc, qkv, qTop, qLen, qHits, qGrown, qWanted, qAsked, qFound, qBefore, queries>>
allVars == <<vars, grown, qvars>>

QueryStages == {"idle", "evaluate", "fetch", "metadata", "answered", "failed"}

QInit ==
    /\ Init
    /\ grown = [kv \in KV |-> FALSE]
    /\ qpc = "idle"
    /\ qkv \in KV
    /\ qTop \in TopK
    /\ qLen = 0
    /\ qHits = {}
    /\ qGrown = FALSE
    /\ qWanted = {}
    /\ qAsked = {}
    /\ qFound = {}
    /\ qBefore = {}
    /\ queries = 0

-----------------------------------------------------------------------------
OpenQuery(kv, k) ==
    /\ qpc \in {"idle", "answered", "failed"}
    /\ queries < MaxQueries
    /\ queries' = queries + 1
    /\ qpc' = "evaluate"
    /\ qkv' = kv
    /\ qTop' = k
    /\ qLen' = Len(vectors)
    /\ qHits' = {}
    /\ qGrown' = FALSE
    /\ qWanted' = {}
    /\ qAsked' = {}
    /\ qFound' = {}
    /\ qBefore' = postings[kv]
    /\ spawned' = TRUE
    /\ UNCHANGED <<disk, grown, handlerVars, workerVars, envVars>>

Evaluate ==
    /\ qpc = "evaluate"
    /\ qHits' = postings[qkv]
    /\ qGrown' = grown[qkv]
    /\ qpc' = "fetch"
    /\ UNCHANGED <<vars, grown, qkv, qTop, qLen, qWanted, qAsked, qFound, qBefore, queries>>

(***************************************************************************)
(* The lists of an entry.  A vector that repeats the pair has its id there *)
(* as often as it does; its index as well, until later indices are merged  *)
(* into the list, which frees it of duplicates (inverted_index.rs:211).    *)
(* An id is named by its vector.                                           *)
(***************************************************************************)
Ids(S, kv) ==
    FlattenSeq([p \in 1..Cardinality(S) |->
                   [n \in 1..Repeats[vectors[Ascending(S)[p]]][kv] |-> Ascending(S)[p]]])

Indices(S, kv, merged) == IF merged THEN Ascending(S) ELSE Ids(S, kv)

(***************************************************************************)
(* The indices are cut into runs of successive ones, here given by the     *)
(* positions of the first and the last.                                    *)
(***************************************************************************)
Stretches(s) ==
    {run \in (DOMAIN s) \X (DOMAIN s) :
        run[1] <= run[2] /\ \A p \in run[1]..(run[2] - 1) : s[p + 1] = s[p] + 1}

Runs(s) ==
    {run \in Stretches(s) : /\ <<run[1] - 1, run[2]>> \notin Stretches(s)
                            /\ <<run[1], run[2] + 1>> \notin Stretches(s)}

Lesser(m, n) == IF m <= n THEN m ELSE n

(***************************************************************************)
(* The ids of the hits, in some order as numbers.                          *)
(***************************************************************************)
Orders(S) ==
    {order \in [S -> 1..Cardinality(S)] : \A i, j \in S : order[i] = order[j] => i = j}

(***************************************************************************)
(* The vectors of a run are fetched and ranked.  Each is given the id at   *)
(* its place in the run, not at its place among all indices: what a run of *)
(* n may add to the answer is among the first n ids of all.                *)
(***************************************************************************)
Entries(s, run, ids, order) ==
    [p \in 1..(run[2] - run[1] + 1) |->
        Entry(order[ids[p]], Distance[vectors[s[run[1] + p - 1]]])]

Named(best, order) == {i \in DOMAIN order : \E j \in DOMAIN best : best[j].id = order[i]}

(***************************************************************************)
(* What the query may keep of the ids, all runs together.                  *)
(***************************************************************************)
Answers(S, s, ids, k) ==
    LET runs == Runs(s)
    IN  UNION {LET kept == [run \in runs |->
                               {Named(best, order) : best \in Rankings(Entries(s, run, ids, order), k)}]
                   all == UNION {kept[run] : run \in runs}
               IN  {UNION {pick[run] : run \in runs} :
                       pick \in {f \in [runs -> all] : \A run \in runs : f[run] \in kept[run]}} :
                  order \in Orders(S)}

(***************************************************************************)
(* Fetch, were a hit at the end of the file dropped as one past it.        *)
(***************************************************************************)
FetchShort ==
    /\ qpc = "fetch"
    /\ LET hits == {i \in qHits : i < qLen}
           ids == Ids(hits, qkv)
       IN  qAsked' \in Answers(hits, Indices(hits, qkv, qGrown), ids, Lesser(qTop, Len(ids)))
    /\ qWanted' = qAsked'
    /\ qpc' = IF qAsked' = {} THEN "answered" ELSE "metadata"
    /\ UNCHANGED <<vars, grown, qkv, qTop, qLen, qHits, qGrown, qFound, qBefore, queries>>

(***************************************************************************)
(* get_contiguous refuses an index past the cached length, and the handler *)
(* panics on its error, as on a hit when no vector is asked for.           *)
(***************************************************************************)
Fetch ==
    /\ qpc = "fetch"
    /\ \/ /\ \A i \in qHits : i <= qLen /\ qTop > 0
          /\ LET ids == Ids(qHits, qkv)
             IN  qAsked' \in Answers(qHits, Indices(qHits, qkv, qGrown), ids,
                                     Lesser(qTop, Len(ids)))
          /\ qWanted' = qAsked'
          /\ qpc' = IF qHits = {} THEN "answered" ELSE "metadata"
       \/ /\ \E i \in qHits : i > qLen \/ qTop = 0
          /\ qpc' = "failed"
          /\ UNCHANGED <<qWanted, qAsked>>
    /\ UNCHANGED <<vars, grown, qkv, qTop, qLen, qHits, qGrown, qFound, qBefore, queries>>

(***************************************************************************)
(* An id whose metadata is not found is left out of the answer.            *)
(***************************************************************************)
ReadMetadata(i) ==
    /\ qpc = "metadata"
    /\ i \in qWanted
    /\ qWanted' = qWanted \ {i}
    /\ qFound' = qFound \cup {m \in metadata : m.index = i}
    /\ qpc' = IF qWanted = {i} THEN "answered" ELSE qpc
    /\ UNCHANGED <<vars, grown, qkv, qTop, qLen, qHits, qGrown, qAsked, qBefore, queries>>

QueryStep == \/ \E kv \in KV, k \in TopK : OpenQuery(kv, k)
             \/ Evaluate
             \/ Fetch
             \/ \E i \in qWanted : ReadMetadata(i)

(***************************************************************************)
(* A crash takes the query with it.                                        *)
(***************************************************************************)
QueryDies ==
    /\ Crash
    /\ qpc' = "idle"
    /\ qLen' = 0
    /\ qHits' = {}
    /\ qGrown' = FALSE
    /\ qWanted' = {}
    /\ qAsked' = {}
    /\ qFound' = {}
    /\ qBefore' = {}
    /\ UNCHANGED <<grown, qkv, qTop, queries>>

(***************************************************************************)
(* The first append to an entry inserts it as it comes, the next ones      *)
(* merge (inverted_index.rs:194-222).                                      *)
(***************************************************************************)
EntriesGrow ==
    grown' = [kv \in KV |-> grown[kv] \/ (postings[kv] # {} /\ postings'[kv] # postings[kv])]

Others == \/ \E c \in Handler : (\E hashes \in Requests : Receive(c, hashes)) \/ Log(c)
          \/ Work
          \/ Tick

QNext == QueryStep \/ QueryDies \/ (Others /\ EntriesGrow /\ UNCHANGED qvars)

QSpec == QInit /\ [][QNext]_allVars

-----------------------------------------------------------------------------
(***************************************************************************)
(* An answer holds nothing but vectors with the pair: what the metadata    *)
(* says of an index is what the postings, read before it, meant by it,     *)
(* whatever the worker pushed or a crash repeated in between, and whatever *)
(* ids repeated pairs have moved.                                          *)
(***************************************************************************)
AnswerHasPair == qpc = "answered" => \A m \in qFound : qkv \in KVsOf[m.commit]

(***************************************************************************)
(* The hits are one run, and none of them has the pair asked for twice: a  *)
(* repeat (main.rs:73 takes any list) leaves more ids than indices, and    *)
(* those that follow it stand at other places than their indices.          *)
(***************************************************************************)
Single == \A i \in qHits : Repeats[vectors[i]][qkv] = 1

OneRun == Single /\ <<1, Cardinality(qHits)>> \in Stretches(Ascending(qHits))

(***************************************************************************)
(* When the hits are one run, without repeats, and no more than are asked  *)
(* for, every vector that was indexed under the pair when the query        *)
(* arrived is answered: however the worker's stores fall between the       *)
(* query's reads.  With a repeat it may not be.                            *)
(***************************************************************************)
AnswerIsComplete ==
    qpc = "answered" /\ OneRun /\ Cardinality(qHits) <= qTop =>
        qBefore \subseteq {m.index : m \in qFound}

(***************************************************************************)
(* When the hits are one run, without repeats, as many are answered as are *)
(* asked for, and the nearest is among them, however rayon cuts the run    *)
(* and whatever the ids are.  The others need not be the next nearest: a   *)
(* chunk makes room by dropping its greatest id (query.rs:87).  With a     *)
(* repeat, another vector may be answered in the place of the nearest      *)
(* (query.rs:79).                                                          *)
(***************************************************************************)
NearestIsAnswered ==
    qpc = "answered" /\ OneRun =>
        /\ Cardinality(qAsked) = Lesser(qTop, Cardinality(qHits))
        /\ \E m \in qFound : \A n \in metadata :
               n.index \in qHits => Distance[m.commit] <= Distance[n.commit]

(***************************************************************************)
(* No id is left out for want of its metadata, even of what was indexed    *)
(* while the query ran: in a metadata.bin that finds what it stores, the   *)
(* order of the worker's writes never leads to "Metadata not found".       *)
(***************************************************************************)
NoMetadataMissing ==
    qpc = "answered" => {m.index : m \in qFound} = qAsked

(***************************************************************************)
(* main.rs:55-57 takes it that a query does not fail:                      *)
(* .query(..).expect("Failed to query").                                   *)
(***************************************************************************)
QueryNeverFails == qpc # "failed"
=============================================================================
