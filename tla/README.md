# A TLA+ model of HaystackDB

HaystackDB keeps, for each namespace, binary-quantized vectors in one file and,
in B+trees on mapped files beside it, a write-ahead log and two indexes. Handlers
of HTTP requests append to the log; a background worker moves what is logged into
the vectors and the indexes; queries read them; a point-in-time recovery replays
the log into a new version of the namespace. All of them run at the same time, in
one process, on files that nothing locks.

These modules say what each part does, step by step, and what it may promise.
TLC checks the promises on small instances; TLAPS proves the main ones of the
B+tree, its block storage, the write path, the inverted index, filters, queries and the
namespace for all instances. Paths like `wal.rs:376` are under `src/src/` of the sources
(`structures/`, `services/`).

## 1. Inventory

| Part | State | Operations | Correct if |
|---|---|---|---|
| Persistent B+tree, `mmap_tree.rs`, `mmap_tree/node.rs` | nodes by offset, root offset | insert, batch_insert, search, has_key, get_range | a search finds the latest value of a key; a range finds all keys in order; also for a second handle, and after a crash |
| Block storage, `mmap_tree/storage.rs` | blocks, used space, root offset, length of the file; per handle its mapping | new, store_node, load_node, allocate, grow | chains of blocks stay apart; a node loaded is the node stored last; the root named is stored |
| Write-ahead log, `wal.rs` | trees timestamps, commit_list, commit_finish | add, batch add, get_uncommitted, get_commits_before, mark | what is answered is logged; what is logged is found until it is marked |
| Commit service, `commit.rs` | none of its own | commit, recover_point_in_time | every commit is indexed, whole, and not again once marked; a recovery is exact |
| Query service, `query.rs` | none of its own | query: evaluate, group, fetch, rank, read metadata | answers satisfy the filter, miss nothing that was indexed before, and are the nearest |
| Namespace state, `namespace_state.rs` | directories v0, v1, ..., the link `current` | new, get_all_versions | `current` leads to the data |
| Server, `main.rs` | the map of active namespaces (in memory) | query, addVector, pitr; the worker | one worker per namespace, for as long as it is used |
| Inverted index, `inverted_index.rs` | per pair: runs of vector indices, ids | insert_append, get | the two lists correspond |
| Metadata index, `metadata_index.rs` | per uuid: pairs, vector index | batch_insert, get | every indexed vector has its item |
| Dense vector list, `dense_vector_list.rs` | vectors, their number in the header | batch_push, get_contiguous | indices given out name the vectors pushed |
| Filters, `filters.rs` | none | evaluate | And, Or, In, Eq mean what they say |
| Lock service, `lock_service.rs` | lock files | acquire, release | one holder at a time |
| In-memory tree (`tree.rs`), arithmetic, `main1.rs` | | | used by no service, pure, or not built |

**How they interact.** Each request opens the namespace anew
(`NamespaceState::new`), and so does the worker every 10 seconds
(`main.rs:151-160`): each has mappings of its own of the same files, and a
`DenseVectorList` caches its length when it is opened. The map of active
namespaces is locked only while the worker is started. `LockService::acquire`
locks a file that is closed when it returns, so the lock guards nothing, and the
models have none. What the parts share is the file system, and a store to a
mapped file is seen by all at once.

**What is hard.** Interleavings: a reader or a second writer between any two
stores; the worker reading log, vectors and indexes at different times. Crashes:
nothing is journalled below the log, so every order of stores must be right by
itself. Stale values: split nodes, cached lengths, a namespace entered through a
link that has moved, a mapping older than the file. Edges: run-length runs, separators, second boundaries, the
window of `get_uncommitted`. `PROJECT.json` lists each hazard at its line, with
the properties that watch it, or why none does yet.

## 2. Modules

| Module | Models | Extends |
|---|---|---|
| `MmapNode` | one node in memory: binary search, split, insertion | |
| `MmapTree` | the tree: one writer, any reader, crashes | `MmapNode`, `Lists` |
| `MmapTreeProofs` | theorems about `MmapTree`: shape and reachability in any tree, search in ascending ones | `MmapTree`, `Induction` |
| `RangeProofs` | key ranges in ascending trees | `MmapTreeProofs` |
| `OrderedMap` | abstract: a dictionary, put one key at a time | |
| `Storage` | the file below a tree: chains of blocks, handles, crashes | |
| `StorageProofs` | theorems about `Storage`, any number of writers, and about its chains, one writer | `Storage`, `Induction` |
| `WalCommit` | handlers, log, worker, crashes, clock | |
| `DurableIndex` | abstract: received, answered, indexed | |
| `WalCommitProofs` | theorems about `WalCommit` | `WalCommit` |
| `Lists` | sorting, freeing of duplicates, filtering of lists | |
| `InvertedIndex` | entries of the inverted index, and the batches appended | `Lists` |
| `Filters` | And, Or, In, Eq over those entries | `InvertedIndex` |
| `FiltersProofs` | theorems about `InvertedIndex` and `Filters` | `Filters`, `Induction` |
| `Ranking` | how the hits of a run are ranked, in chunks | `Lists` |
| `QueryPath` | a query beside handlers and worker | `WalCommit`, `Ranking` |
| `QueryPathProofs` | theorems about `Ranking` and `QueryPath` | `QueryPath`, `WalCommitProofs`, `Induction` |
| `Namespace` | versions, the link, recovery, first requests, the worker's interval | |
| `NamespaceProofs` | theorems about `Namespace` | `Namespace` |
| `Induction` | induction stated on sets, and what it gives on lists, sorting and folds | `Lists` |
| `MCMmapTree`, `MCStorage`, `MCWalCommit`, `MCFilters`, `MCQueryPath` | instances for TLC | |

**MmapTree.** `nodes` is the file, by offset in order of allocation; `rootOffset`
its header. `pc`, `at`, `slot`, `sib`, `med`, `todo` are the locals of `insert`,
`insert_non_full` and `batch_insert`. An action ends at each `store_node` or
`set_root_offset`, so that each intermediate state is what another handle sees or
a restart finds: `Insert` (the truncated root) - `RootSibling` - `GrowRoot` -
`SetRootOffset` - `AdoptLeft` - `AdoptRight` - `Descend` / `LinkSibling` -
`StoreLeaf`. Two neighbouring stores are merged in two places where nothing but
the header's root offset, set to what it already is, lies between: `StoreLeaf`
with a root leaf's `set_root_offset`, and `Tree::new`. `binary_search` promises
little when keys repeat or are out of order, both of which the tree reaches:
`Positions` is the set of all answers. `allowed` is history: the values a search
may give. What is inserted, and whether the writer dies, is what the specifications
at the end of the module differ in: `LogSpec` has the ascending keys of the log and
crashes outside a root's split, `AnySpec`, `AnyCrashSpec` and `AnyUntornSpec` have any
keys at all.

**WalCommit.** The first seven variables are the six files: `copies` is what ranges
over the tree of seconds find besides what a search does. `hpc`, `req`, `ts`,
`vals`, `leaf`, `list`, `stored` are the locals of a request, `wpc`, `seen`,
`batch`, `base`, `metaLeft`, `kvLeft`, `marked` those of the worker; the rest is
clock, counters and history. An action is one read or one write of one file:
`Receive` - `SearchTimestamp` - `SplitTimestamps` - `LoadTimestamps` -
`StoreTimestamps` - (`LoadCommitList` - `StoreCommitList`)* for a handler;
`StartCommit` - `ReadRange` - `Collect`* - `PushVectors` - `StoreMetadata`* -
`StorePostings`* - `MarkFinished`* for the worker. The two trees of hashes are one
leaf here, so that inserting loads and stores all of it. The tree of seconds is a
root and its leaves. Its keys come in ascending order, so that searches and inserts
go to the leaf with the current values (`ReaderSearch` of `MmapTree`), and the model
has that one leaf. But a leaf that is split is not stored without the half it gives
away (`mmap_tree.rs:150-160`), `get_range` returns that half from both leaves, and
`get_uncommitted` removes no duplicates (`wal.rs:330` is commented out):
`SplitTimestamps` adds to `copies`, and `ReadRange` reads them, those of a leaf
whose keys all precede the window excepted. Deeper trees, in which an inner split
can lead to a leaf twice, are `MmapTree`; what a split does to a second writer is
left to a later composition. A commit is its hash and holds one vector, as the
commits of the addVector route do; `Requests` has batches too, and the same commit
twice in one. The uuid of a vector is fresh, as its index is, and the index stands
for both. `vectors.batch_push` is one step: the new vectors are beyond the length in
the header until it is written last.

**Storage.** `usedSpace` and `rootOffset` are the two words of the header, `blocks`
the chains behind it, `fileLen` the room there is; `h` holds, for each open
`StorageManager`, the length it mapped and the locals of the call it is in. Opening
is `Open` - `WriteBack` - `NewTree` (for a new file a store, then `SetRootOffset`);
`store_node` is `StoreNew` or `StoreAgain`, then `Allocate` - `AllocateWrite` -
(`Resize`) - `UseBlock` before each fresh block, `WriteBlock` for each block,
`EndStore`; `load_node` is `Load`, `ReadBlock`*. Sizes are in blocks; the bytes of a
block are the store that wrote them and the part they are (`Piece`), and `IsWhole`
says that a load reads all a store wrote. What a node that a crash cut short decodes
to depends on bytes: it may load as it was before, when the blocks written had the
bytes they have now, and so it may be stored again, over whatever chain there is
(`StoreAgain`). If that chain has fewer blocks than the length in its first block
says, the store goes on at offset 0, over the header and the first block:
`WriteOverHeader` leaves any words in the header and ends the behaviour (`wrecked`).
`PanicStore` is a store past the mapping, which one writer never makes. `Acquire` is
the lock service: true, because the lock is gone when `acquire` returns. What the
tree above does is an input: it stores nodes, new or loaded before, and moves the
root to a stored one.

**InvertedIndex** is `compress_indices`, `decompress_indices` and `insert_append`
over every sequence of batches the worker can make, of vectors with any of a set
of lists of pairs, also with a pair twice. A uuid is the negated index: fresh, and
in an order of its own.

**Filters** evaluates a tree of And, Or, In, Eq on the two lists, indices and ids,
as the code does, and compares with `Meaning`, the vectors that satisfy it. The
filters asked are a constant, `Queries`, closed under parts, and `Depth` says how deep
each is nested: the code's filters hold their parts by value, and `FilterAssumption`
says no more than that. `Forgetful` names the Ands in a filter that forget what their
first arguments found when nothing had them all in common (`filters.rs:123`).

**Ranking, QueryPath.** A query is added to `WalCommit`: open (length of vectors
cached) - evaluate the filter - fetch and rank - read metadata, item by item. The
filter is one pair. An entry of the index is two lists, `Indices` and `Ids`: they
are made of the set of postings `WalCommit` keeps, of how often the commit of each
vector repeats the pair (`Repeats`; `main.rs:73` takes any list), and of whether the
entry was added to after its first insertion (`grown`), which frees the indices of
duplicates and not the ids (`inverted_index.rs:200-211`). As many are asked for as
there are ids, at most (`query.rs:65`), and vectors are named as the code names
them, by the ids at their place in their run (`query.rs:79`); `Rankings` is what may
be left of a run, over all ways rayon may cut it, and `Answers` what may be left of
all runs, over all orders the random ids may have.

**Namespace.** A place is a version or the directory that `create_dir_all` makes of
`current` when it is missing. `NamespaceState::new` is `ListVersions` - `MakeFirst`
- `LinkFirst` - `Enter`; recovery is `PitrList` - `PitrCreate` - `PitrCollect` -
`PitrReplay`* - `PitrRemove` - `PitrLink` - `PitrAnswer`. `Panic` ends a request,
and the worker for good. Logging a commit and a run of the worker are one step each.
What is logged and indexed are sets: how often a commit is replayed, whose second a
range returns twice, is not counted. The files of a namespace are opened one by one
through the link; `Enter` opens them at once.

## 3. Runs that pass

| Run | Shows |
|---|---|
| `tree_ascending` | With keys as the log gives them, or in batches above all stored keys, and one crash between any two stores but in a torn root split: `TypeOK`; `ReaderSearch`, a reader between any two stores finds the old value or the new, but in a torn split; `RangeLastWins`, at the same moments, ranges (`Ranges`: all the keys, and some whose ends are keys or between two) are complete, and the last pair for a key is the current one although split nodes leave copies behind; `ImplementsMap`, one store of an insert, and no other, changes what the tree says |
| `tree_any_order` | With keys in any order, and one crash but in a torn root split: `LatestValueReachable`, no split loses the latest value of a key whose insertion has returned; `UniformDepth` |
| `storage` | One handle stores, another loads, each opened and closed at will, one crash: `ChainsDisjoint`, `StoreStaysInside`, `LoadIsExact`, `RootIsStored`, below |
| `wal` | One handler, the worker, one crash: the nine safety properties and `AckedIsIndexed`, below |
| `filters` | Over all sequences of batches: `IdsAligned` and `RunsAreMaximal` of the entries; `NothingMissed`, `HitsAreMeant`, `LastConjunctHolds` and `ListsAgree` of what filters find, below |
| `query` | With a crash: `AnswerHasPair`, every vector answered has the pair asked for; `AnswerIsComplete`, what was indexed before the query is answered, if all hits are one run, none has the pair twice, and they are no more than asked for; `NearestIsAnswered`, of such a run; `NoMetadataMissing` |
| `namespace` | Two clients and the worker from nothing, a crash, one recovery served alone: `RecoveryIsExact`, `OwedIsLogged`, `NeverPartlyRecovered`; `OwedIsWhereCurrentLeads` for first requests that race; and `WorkerCatchesUp`, liveness: again and again all that is logged where `current` leads is indexed there, unless the worker has panicked |

The properties of `storage`: `ChainsDisjoint`, no two nodes share a block and every
chain ends, at every write of a store that grows or shrinks a node, and over what a
crash left, so long as no open wrote back a used space that an allocation had
passed; `StoreStaysInside`, a store writes in its own chain and inside its mapping, and
follows a null pointer to the header (the case commented out at `storage.rs:181-188`)
only over a node whose growth a crash cut short (`CutShort`);
`LoadIsExact`, a load that no store of the same node overlaps returns what was
stored last, whatever else is stored or allocated, and panics only in a handle whose
mapping is older than the file; `RootIsStored`, the header names only whole nodes.
All but the second speak of the time before a store is led over the header, and the
second says when one is; section 4 says what happens then.

The properties of `filters`: the ids of an entry are those of its indices in order,
unless a vector repeats a pair, and then none is lost; runs are maximal; a filter
finds every vector that satisfies it (`NothingMissed`) and no other unless an And in
it has found nothing before its last argument (`Forgetful`, `HitsAreMeant`), and even
then only what that last argument finds (`LastConjunctHolds`); indices and ids name the same
vectors, and the indices ascend, as the grouping into runs needs (`ListsAgree`).

The properties of `wal`: `WorkerView`, what the worker has read stays true
while it uses it; `NoDanglingPosting`; `FinishedIsIndexed`; `AckedIsLogged`, and
`HandlerView`, why; `CopiesBounded`, a commit is indexed as often as it was sent and
splits of the log copied it (`TimesLogged`), and for each crash as often again;
`FinishedNotPushed`, an action property; `KeepsPromise`, refinement of
`DurableIndex`; and `AckedIsIndexed`, liveness: what is answered is indexed in the
end, or (`Forgotten`) the clock has passed every second it was logged in by more
than the window before a worker looked. `FinishedNotPushed` and `AckedIsIndexed`
rest on the trees of hashes being one leaf: their keys come in no order, and in
larger ones a search may miss what is there (section 4, `FreshSpec`).

**Bounds.** A node splits at three keys (`MaxKeys = 2`, `B = 2`; 63 in the code):
both tree runs reach three levels (twelve ascending keys, six in any order), so
every kind of split, of leaf, inner node and root, happens below and at the root;
with batches, an inner node also grows past the three keys of a full one. Only the
order of keys matters to the code, so ascending runs take every other key and look
up those between (`InsertNext`). `MaxRewrites` is the number of keys given a second
value. `Window = 1` with `MaxTime = 2` lets commits fall out of the window; `MaxAdds
= 2` and requests `<<h1>>`, `<<h1, h1>>`, `<<h1, h2>>` make duplicates in one
second, in one batch and across seconds; splits leave one hash per second
(`MaxCopies = 1`), which is enough for a commit sent once to be in a batch twice;
one crash can fall between any two steps, and the second process meets all that the
first left. In `storage` a new file has room for two blocks and six are handed out,
so it grows twice; nodes take one to three blocks, so that stores grow and shrink
chains, and four stores and a crash are enough to store a node anew over what the
crash left of it. One handle stores: two would race for blocks, as section 4 says.
The runs of `filters` push up to four vectors in batches of up to two, with no pair,
one, two, or one twice, and ask filters of every shape up to two levels; since
vectors carry any of the three pairs, one naming of them in each filter stands for
all. In `query` the vectors of two commits are found, at different distances, of
which one or two are asked for; the first commit has a pair twice (`MCRepeats`), and
no split copies a commit (`MaxCopies = 0`), as its second vector adds nothing a
second run of the worker does not; a crash, a second query, and duplicates by a
second run of the worker are in it. In `namespace` one recovery is enough for the
properties that hold; what a second does is a finding. Deadlock is not checked
anywhere, since with counters bounded every behaviour stops.

**Fairness.** `wal` assumes `WF(Work)`: the runtime polls the worker's
interval again and again (`main.rs:151-154`), and `WF(OtherRequest)`: somebody
goes on using the namespace, without which nothing starts the worker after a
restart. Nothing is assumed of handlers. `Tick` lets a running worker take less
than `Window`, over a day in the code, to index what it can see, and a handler
less than that to log; while no worker runs, the clock goes as far as it likes.
`namespace` assumes `WF(Work)` alone: the interval keeps firing and the task of the
worker keeps being polled. No request need ever come, or end.

State counts: `tree_ascending` 10370, `storage` 1151087, `wal` 275818, `filters` 13802,
`query` 825088, `namespace` 492968.

## 4. Findings: runs that must fail

Each states what the repository says and finds the code doing otherwise;
`PROJECT.json` quotes both.

| Run | What goes wrong |
|---|---|
| `tree_overwrite` | The value before is found after an overwrite of the median of a full leaf: the leaf is split, a key equal to its median is not `< median` (`mmap_tree.rs:162`) and goes to the sibling, while a search finds it to be the separator and goes to the left leaf, which keeps its pair (`node.rs:111-112`). With `<=` there, the copies left behind by splits (`mmap_tree.rs:155-160`) still break it, some inserts later; with both mended, the run passes |
| `tree_batch` | A batch around stored keys follows the first key's leaf (`mmap_tree.rs:278`); later keys are not found. Metadata is stored so, under random uuids |
| `wal_two_handlers` | Two requests at once: one is answered and in no log (`wal.rs:376-385`) |
| `query_fails` | A query opened before a push panics (`query.rs:68`, `main.rs:57`) |
| `namespace_twice` | The second recovery drops what the first recovered (`commit.rs:246`) |

Further disagreements the models contain, each a counterexample away by changing
one run as the last column says:

| What goes wrong | How to see it |
|---|---|
| Keys inserted once each, not in order: the stale right half of a split child is split off again, and a key is not found (`mmap_tree.rs:150-160`) | `tree_overwrite` with `FreshSpec` |
| A crash in a root split loses the right half, stored nowhere yet (`mmap_tree.rs:59-67`) | `tree_overwrite` with `CrashSpec` |
| A crash in `Tree::new` after the first allocation leaves a file whose used space is not 0 and whose root offset is: no later open makes a root (`mmap_tree.rs:28-33`) | `storage` with the invariant that an open handle has a root, `rootOffset # 0` |
| A crash in the root split of a batch after the header names the new root (`mmap_tree.rs:306-312`) leaves the old root flagged and both halves without a parent: a later batch splits the old root as the root, and the rest is lost, or hands its separator to offset 0 | `tree_batch` with crashes outside `Torn` too and `LatestValueReachable`: TLC stops at `nodes[0]`, or finds it violated where it does not come to that |
| Opening writes back the used space it read (`storage.rs:71`); an allocation in between is undone | `storage` with the invariant `~rolledBack` |
| The block is then handed out again, and two nodes share it | `storage` with `Spec` and `ChainsDisjoint` without its premise |
| A crash while a node grows may leave it with the new length (`storage.rs:147`), the old chain and bytes that load as before; when it is stored again, the length read is not that of the chain (`storage.rs:94-101`), and the store goes through its null pointer to offset 0 (`storage.rs:175-193`), over the root offset and the first block: "Durable (WAL), persistent data" (`README.md:10`) | `storage` with the invariant `RootIsDurable`, or `~wrecked` |
| A commit is indexed twice without a crash: the range of the log has the copies that split leaves keep, and the batch is not freed of duplicates (`wal.rs:330`) | `wal` with `CopiesBounded` with `adds[h]` in place of `TimesLogged(h)` |
| A crash, or a reader, inside a store of several blocks finds a mix of two nodes (`storage.rs:143-156`) | `storage` with `LoadIsExact` without `clean` |
| Each crash between the growth of the used space and that of the file (`storage.rs:356-361`) leaves the used space one block further past the end of the file. `resize_mmap` doubles the file once, which is enough only if there are fewer such crashes than the file has blocks: 244 when it is new | `storage` with `FirstLen = 1` and `StoreStaysInside` |
| Two handles that store: one that mapped the file before the other grew it makes it shorter (`storage.rs:318`) | `storage` with two writers and `StoreStaysInside` |
| And(none, x) is x (`filters.rs:123`) | `filters` with `HitsAreMeant` without its premise |
| After a union, or when a vector repeats a pair, the id at a place is not that of the index there (`filters.rs:64-70`, `inverted_index.rs:211`) | `filters` with `IdsAligned` without `Single`, or the like of `ListsAgree` |
| The ids of a later run are those of the first (`query.rs:79`): with hits 1 and 3 the answer is 1 alone | `query` with `AnswerIsComplete` without `OneRun` |
| A commit that repeats a pair, and one after it: indices 1, 2 and ids A, A, B; of the two vectors asked for, B, or the nearest, is not answered (`inverted_index.rs:200-211`, `query.rs:79`) | `query` with `AnswerIsComplete`, or `NearestIsAnswered`, without `Single` |
| What is kept of a run is not the nearest k, as "Keep only the top k elements" (`query.rs:99`) has it: within a chunk the greatest id makes room (`query.rs:87`) | `Rankings(<<Entry(3, 1), Entry(1, 3), Entry(2, 2)>>, 2)` has an answer without distance 2 |
| A query for no vector panics on a hit (`query.rs:82`) | `query_fails` with `TopK = {0}` |
| Down for longer than 100000 s: logged, never indexed (`commit.rs:23`) | `wal` with `AckedIsIndexed` without `Forgotten` |
| The first request and its worker both link v0; one panics at the `expect` of `namespace_state.rs:64`, and if that is the worker, nothing is committed until a restart | `namespace` with the invariant `~dead` |
| Between remove and link, `current` becomes a directory (`commit.rs:254`, `namespace_state.rs:72`), and the recovery fails | `namespace` with the invariant that no client is at `pitrLink` when `current = Dir` |
| A recovery to a second before the first commit answers "Success" and changes nothing (`commit.rs:168-170`) | `namespace` with an invariant that a client at `pitrDone` has `current = target[c]` |
| A request that opened the namespace before the link moved logs in the version that was left, and is answered | `namespace` with `Spec` and `OwedIsLogged` alone |

The passing runs are drawn around these: ascending keys, one handler, recoveries
served alone, and say so in the name of their specification or in their constants.

## 5. Proofs

### WalCommitProofs

For every set of handlers, commits and pairs, every window and every bound, from
`WalAssumption` (which states no more than the types of the constants, and that a
request holds at least one commit):

| Theorem | States |
|---|---|
| `TypeCorrect` | `Spec => []TypeOK` |
| `WorkerViewHolds`, `PostingsHold`, `FinishedHolds` | `[]WorkerView`, `[]NoDanglingPosting`, `[]FinishedIsIndexed` |
| `NeverPushedAgain` | `FinishedNotPushed` |
| `OneHandlerSees`, `OneHandlerLogs` | `[]HandlerView`, `[]AckedIsLogged`, for one handler |
| `ImplementsPromise` | `Spec => KeepsPromise`: refinement of `DurableIndex` |
| `OneHandlerCopies` | `[]CopiesBounded`, for one handler |

*Types* are inductive as stated, because `TypeOK` relates program counters to
list lengths (`stored[c] < Len(req[c])`, `marked < Len(batch)`).

*The index.* Neither `NoDanglingPosting` nor `FinishedIsIndexed` is inductive: a
posting is stored at `base + j` and a commit marked, both by virtue of what the
worker did many steps ago. `IndexInv` adds `WorkerView`, which carries that
along: vectors at `base + j` are the batch, items outside `metaLeft` and postings
outside `kvLeft` are stored. Each step of a handler leaves all of it alone; the
steps that write are `PushVectors` (`PushAppends`: the cached length is still the
length, so a push only appends), `StoreMetadata`, `StorePostings` and
`MarkFinished`; the others follow from `Grows`, that files only grow.

*The log.* With one handler, `LogInv` adds `HandlerView`, that what was loaded is
still on disk. It is false for two, and the run `wal_two_handlers` shows what follows.

*Refinement.* `PromiseInv` adds `OnlyReceived`: every hash on disk or under way
was sent. Then `Receive` maps to `Receive`, the last `StoreCommitList` to
`Answer`, and every step of the worker to `Index` or a stutter (`StepGrows`); a
crash maps to a stutter.

*Copies.* `CopyInv` follows a commit from hand to hand: the log and what handlers are
about to log hold it no more often than it was sent (`LogCount`); what the worker has
read and not yet looked at holds it no more often than that and the copies of splits
together, which only grow (`WorkerCount`, `LoggedStep`); and only runs a crash ended
leave a vector of an unfinished commit (`CopyCount`). Occurrences are cardinalities of
sets of positions; `ConcatOccurrences`, `SlotsSplit` and `TimesJoined` say how lists and
logs add up.

### StorageProofs

*Any writers.* For every set of handles, any of them writing, every size and number of
crashes, from `StorageAssumption`:

| Theorem | States |
|---|---|
| `StorageTypeCorrect` | `Spec => []TypeOK` |
| `RootStored` | `Spec => []RootIsStored` |

`StorageInv` is `TypeOK`, `RootIsStored` and `StageOK` of each handle: what its
locals are at each stage (a store has a block allocated below `MaxBlocks` before it
uses it; a handle about to set the root offset names a node stored whole). A store led
to the header may leave anything there, hence `~wrecked` in `RootIsStored`. Most
steps change one handle; `OneHandle` settles all others at once. Neither theorem
needs the lock, nor that one handle writes.

*One writer.* For any handle `w` that alone writes, any readers, nodes, sizes and stores, from
`OneWriterSpec` (readers open a file that is created; it ends at an open that undid an
allocation, and at a store over the header) and `MaxCrashes < FirstLen`, the bound on
crashes that section 4 explains:

| Theorem | States |
|---|---|
| `OneWriterDisjoint` | `[]ChainsDisjoint` |
| `OneWriterStaysInside` | `[]StoreStaysInside` |
| `OneWriterLoads` | `[]LoadIsExact` |

The inductive invariant is `ChainInv(w)`. `Links` and `Heads` say what keeps chains
apart: pointers lead on through the file, no two to one block, none to the first
block of a node. Why the next block handed out is a fresh one is `Space`: nothing
points past the blocks in use, and the used space is past the file by no more than
the crashes. It is false once an open has written back an old used space, which is
why `ChainsDisjoint` has the premise `~rolledBack`; the behaviours of
`OneWriterSpec` end there. `StoreOK` places a store along its chain, or at the null
pointer of one cut short, `AllWhole` says that what nobody is storing and no crash
cut is whole, `LoadOK` how far a load has come.

`Chain` is a recursive function. In `ChainIsPath` it is shown to be the one path that
follows the pointers to the null pointer, by induction on the distance to the end of the file (`Induction`);
`ChainKept`, `SameChain`, `CutChain` and `LinkChain` then say what a store of one
block does to the chains of all nodes.

### MmapTreeProofs

For every node size, split point, set of keys and number of nodes, from
`SplitAssumption` and `TreeAssumption`:

| Theorem | States |
|---|---|
| `AnyTreeTyped`, `AnyTreeUniform` | `AnySpec => []TypeOK`, `[]UniformDepth`: any keys, one by one and in batches |
| `CrashedTreeTyped`, `CrashedTreeUniform` | the same of `AnyCrashSpec`: any keys one by one, crashes anywhere |
| `AnyTreeKeeps` | `AnySpec => []LatestValueReachable` |
| `UntornTreeKeeps` | the same of `AnyUntornSpec`: any keys one by one, crashes anywhere but in a root's split |
| `LogReaderSearch` | `LogSpec => []ReaderSearch` |
| `LogImplementsMap` | `LogSpec => ImplementsMap`: refinement of `OrderedMap` |

*Shape.* That there is a height of every node, 0 for a leaf and one more than that of
each child for any other (`Leveled`), is what `UniformDepth` follows from
(`OneDepth`) and what makes search end. `Shape(lev)` adds how the writer fits the heights: the
sibling is on the level of the node it was split from, the new root one above both.
A split copies the node's parent pointer, and `batch_insert` follows it, so its trees
need `Parents(lev)`, that these lead one level up, with the leaves a root's split has
yet to give a parent (`Orphans`). A crash in that split leaves them without one for
good; but only `batch_insert` looks. So `Whole` (with `Parents`, without crashes) and
`Restored` (without `Parents`, no batches) are the two invariants.

*Search.* `Log` is `Restored` and: keys in a node ascend, those of a child are above
the separator at its left, and none is above all keys given so far (`Ordering`; a
child may well have keys above the separator at its right, the copies a split leaves
behind, and no search for them comes that way); no key given is above the one being
inserted (`Latest`); what the writer has split is the root, or the last child of the
node it is at, and the right half is where it is about to be linked from (`TornHalf`,
`LinkHalf`); the root flag is set in no other node (`Flags`);
a search for the key being inserted passes the node the writer is at (`WayToAt`); and
what the tree says of each key is allowed (`Truth`). Every step of `LogSpec` is
`Silent`, it changes nothing the tree says, but `StoreLeaf`, which `Tells`: it changes
what the tree says of the key being inserted to its value. Both theorems follow from
that (`LogNext`): `LogPuts` maps a silent step to a stutter and one that tells to a
put. The invariant was checked by TLC first, with crashes, and with twenty keys and
none.

*Reachability.* `LatestValueReachable` speaks of states between operations; `Held` says
what it takes at every store. A node is `Linked` when every set closed under children
that holds the root holds it, and `InTree` if so, or if it is linked from what a split
has cut off: the sibling in memory, or the last node stored. Every key whose insertion
has returned is in a leaf of the tree (`AllKept`). A store of one node changes
one node's links: `LinkedWider` is for those that add some, `LinkedCut` for the root
that is truncated, and `Carried` turns what is so of links into what is so of keys.
Where a new sibling is hung is what could go wrong. An insert hangs it where it
descends (`Working`). A batch hangs it at the parent its leaf names, which a split of
that parent has long made stale; it is a node of the tree all the same (`ParentsUp`)
and above leaves (`Parents`), so that nothing is lost, though a search may not come
that way. And a leaf is split as the root, or sets the root offset, when it is
flagged: only the root is (`OneFlag`). A crash in the root split of a batch breaks
just that, the row of section 4 about `mmap_tree.rs:306-312`, hence `AnyUntornSpec`
is of inserts alone.

What a search finds is a recursive function over `nodes`, which need not be a tree of
finite depth. `Closure` gives the equation of `LeavesIn` a solution in every file, and
`LeavesStep` unfolds it one node; from there on induction is on the height.

### RangeProofs

For the trees of `LogSpec`, any ranges, from the same assumptions:

| Theorem | States |
|---|---|
| `LogRangeLastWins` | `LogSpec => []RangeLastWins` |

`get_range` puts the lists of several children in a row, and a search looks into one.
So the last pair for a key is the one a search finds only if no list after that child's
has the key. `Ordering` is too weak to say so: it bounds the keys of a
child, and not those of the leaves below the child. `Floors(low)` gives each node a number that none of
its keys is below, and neither are its children's floors: they are not below their
parent's, and above the separator at their left (`Above`). The
sibling in memory, and the one stored but not yet linked, have floors above the median
they were split at. A copy that a split leaves behind has a key above the separator at
its node's *right*, of which floors say nothing, and comes before the current pair.
`RangeRight` is what follows for the list of a node, by induction on its height
(`InnerRangeRight`): it has only pairs of leaves that reach the node's floor, and if a
search from the node finds a value, the key's last pair has it.

If the search finds nothing, no other list may have the key either. `Present` says that
a key in a leaf, or in the leaf about to be stored, is found. With `Log`, the two make
the invariant `Ranged`. Every silent step keeps floors and puts no key into a leaf
that was in none (`KeepsFloors`); `StoreLeaf` puts one, which is from then on found
(`RangedNext`). `SlotFacts` says at which slots `get_range` starts and stops.

### FiltersProofs

For any pairs, lists of pairs, batches and filters, from `IndexAssumption` and
`FilterAssumption`:

| Theorem | States |
|---|---|
| `IdsStayAligned`, `RunsStayMaximal` | `Spec => []IdsAligned`, `[]RunsAreMaximal` |
| `FiltersMissNothing`, `FiltersHitWhatIsMeant` | `Spec => []NothingMissed`, `[]HitsAreMeant` |
| `LastConjunctAlwaysHolds`, `ListsAlwaysAgree` | `Spec => []LastConjunctHolds`, `[]ListsAgree` |

*Index.* `CompressKeeps`: compressed and decompressed, any list is what it was, and of
an ascending one no two runs touch (`Separated`). Neither property is inductive:
`RunsAreMaximal` says nothing of which indices the runs hold. `IndexInv` adds to
`IdsAligned` that the runs of a pair nobody repeats are those of the vectors that carry
it, compressed afresh (`RunsCompressed`). An append merges what is decompressed with
later indices (`AppendedEntry`); that the vectors that carry a pair after a batch are
those before and those of the batch is `CarryingInARow`.

*Filters.* `Right(f, hits)` joins what the four properties say of one filter, in the
form its parts hand on. An entry is right (`PairFinds`); `AnyOfFinds` and `AllOfFinds`
say what the folds of unions and intersections find of any list of results, `Meet` being
what an And should have found so far; `OrRight` and `AndRight` lead from the parts of a
filter to it, and `EveryRight` to all filters, by induction on `Depth`.

### QueryPathProofs

For any commits, distances, numbers asked for and queries, from the assumptions of
`WalCommit` and `QueryPath`, with any number of handlers:

| Theorem | States |
|---|---|
| `QueriesOnlyRead` | `QSpec => Spec`: the theorems of `WalCommitProofs` hold beside queries |
| `MetadataIsThere` | `QSpec => []NoMetadataMissing` |
| `AnswersHavePair` | `QSpec => []AnswerHasPair` |
| `AnswersAreComplete` | `QSpec => []AnswerIsComplete` |
| `NearestIsAlwaysAnswered` | `QSpec => []NearestIsAnswered` |

*Queries.* `IndexInv` says that a posting has its item; `QueryView` that what the query
holds came from the files, which only grow; `ItemsAreVectors` that an item names the
vector it was made for. That all that `Answers` allows are hits is `AnswersAreHits`.

*Lists.* `Single` says that no hit has the pair twice. Then indices and ids are both the
ascending hits, whether the entry has grown or not (`SingleIds`), and of one run
(`OneRunIs`) the entry at each place is that of the vector there (`EntriesAre`). Without
it the two lists part, and what remains is `AnswersHavePair`.

*Ranking.* `Good(s, given, n, k)` says what may be kept of n entries: `k` of them, or
all if they are fewer, and for each given one that is no farther. A chunk keeps to it
entry by entry, although it drops by id (`KeepStep`): the entry that makes room is
farther than the one that takes its place. A merge keeps to it (`MergeStep`) and puts
the nearest first, and so does any number of merges over any cut of the run
(`RankingsGood`). `AnswerOfOneRun` turns that into what the query answers: of hits that
are one run, as many as asked for, the nearest among them. `QueryRanks` carries it from
the fetch, over what handlers and the worker store, to the answer.

### NamespaceProofs

For every set of clients and commits, every bound, from `NamespaceAssumption`, with
recoveries served alone (`AloneSpec`):

| Theorem | States |
|---|---|
| `NamespaceTypeCorrect` | `[]TypeOK` |
| `NeverPartly` | `[]NeverPartlyRecovered`, with any number of recoveries and crashes |
| `FirstRequestsKept` | `[]OwedIsWhereCurrentLeads` |
| `OneRecoveryExact`, `OneRecoveryKeepsOwed` | `[]RecoveryIsExact`, `[]OwedIsLogged`, with `MaxRecoveries = 1` |

*Versions.* `VersionInv` says that a recovery has the server to itself
(`OneRecovery`), that the versions are `0..recoveries` less those never made, with
a greatest, and the link names one of them (`VersionsMade`), and how far a recovery
has come (`RecoverySteps`): its target is greater than every version until it makes
it. So the link cannot name it before `PitrLink`.

*Contents.* `ContentInv` adds what a place holds: until the first recovery all is
logged where `current` leads (`Untouched`, `OpenedHere`, `OwedSeen`), a version just made is
empty (`FreshVersions`), and what is indexed in the target together with what is still to
replay is what was due when it was collected (`FirstReplay`). With a second recovery
the log it collects from lacks what the first replayed, and `namespace_twice` shows it.

*Owed.* `OwedInv` carries `OwedIsLogged` over the change of the link, where `owed`
is emptied.

### Induction

`NatSetInduction` and `LeastNumber` are stated on a set of numbers instead of a
predicate, which the provers can instantiate. A recursive function is a `CHOOSE` to
them: to unfold one, a proof first gives a function that satisfies its equation.
`Iterates` and `StepsTaken` give the sequence a rule leads through; `Closure` and `ChainIsPath`
are built the same way. `Recursion` does it for functions over the depth of
filters or the height of a tree's nodes, whose rule uses only what is lower (`LooksDown`). The folds of the
community modules are recursive functions over sets of positions: `FoldExists` and
`FoldTaken` turn one into its steps, and `FlattenIs`, `CompressIs`, `AnyOfIs`, `KeepAllIs`,
`MergeAllIs` are instances. `Ranks` says that a total order of a finite set gives each
element a place and leaves none free; sorted lists (`AscendingLists`, `ArrangedIs`)
follow from it.

**Only model-checked.** Liveness (`AckedIsIndexed`, `WorkerCatchesUp`), which needs
fairness and `ENABLED`. Of trees, `ReaderSearch`, `RangeLastWins` and `ImplementsMap` after batches.
Every safety property of a passing run is stated by a theorem.

## 6. Not modelled

- Commits of several vectors, and `batch_add_to_wal` with lists that differ in length
  (`wal.rs:397`): the server logs one vector at a time.
- The writes of flag, length and data inside one block (a store cut short among them
  leaves the chain and the length that one cut after them leaves, and data of which
  nothing is claimed), what happens after a store has been led over the header, and the
  creation of a file before it has its length (`storage.rs:36-44`).
- The composition of trees of several levels with two writers: `WalCommit` has one
  leaf per tree, but for what splits leave in the log, which is enough for what two
  handlers do to each other.
- The calls nobody makes: `DenseVectorList::push`, `get`, `insert`,
  `Filters::difference`, `is_subset`, `is_superset`, `LockService::check_locks`,
  `is_locked`, `WAL::get_commits`, `get_commit`, `has_been_committed`.
- The in-memory tree (`tree.rs`), which no service uses; quantization, Hamming
  distance and matrix products, which are sequential and unit-tested; `main1.rs`,
  which is not built.
- Encodings, except that a parent of `None` is read back as 0.

## 7. What is left

1. Commits of several vectors in `WalCommit`, and batches whose lengths differ.
2. A query whose filter is a tree, over `Filters` in place of one pair.
3. Proofs: batches above all stored keys in `Log`.
4. Two writers in `Storage`, over a lock service that holds its lock: what would
   then be promised.

Each question has one run; a new one is added to the run of its module where the
bounds allow, and a finding whose behaviour a deeper run subsumes moves to the
second table of section 4.
