------------------------------ MODULE MmapTree ------------------------------
(***************************************************************************)
(* The persistent B+tree of structures/mmap_tree.rs, through which every   *)
(* index and log of a namespace is stored.  One writer inserts, one key at *)
(* a time or a batch at a time; an action ends at each write to the mapped *)
(* file (store_node, set_root_offset), so a state between two actions is   *)
(* what another handle on the file, or a restart after a crash, finds.     *)
(*                                                                         *)
(* A node's offset is its place in nodes, in order of allocation.  Storing *)
(* one node is atomic here: the block chain below it is storage.rs.        *)
(***************************************************************************)
EXTENDS MmapNode, Lists

CONSTANTS
    Key,        \* a finite set of naturals
    Value,
    None,       \* the answer of a search that finds nothing
    Batches,    \* the batches given to batch_insert, sequences of <<key, value>>
    Ranges,     \* the key ranges a reader asks for, pairs <<start, end>>
    MaxNodes    \* bound: no operation starts once the file holds that many nodes

ASSUME TreeAssumption ==
    /\ Key \subseteq Nat
    /\ IsFiniteSet(Key)
    /\ None \notin Value
    /\ Batches \subseteq Seq(Key \X Value)
    /\ Ranges \subseteq Nat \X Nat
    /\ MaxNodes \in Nat

VARIABLES
    nodes,      \* the node stored at each offset
    rootOffset, \* header of the file
    pc,         \* what the writer stores next; "idle" between operations
    kind,       \* "insert" or "batch": the operation under way
    todo,       \* entries still to be inserted, the first one now
    at,         \* offset of the node the writer holds
    slot,       \* "link": the child position it descends through
    sib,        \* during a split: the sibling in memory
    med,        \* during a split: the median
    allowed     \* history: the values an untorn search may return for each key

disk == <<nodes, rootOffset>>
locals == <<kind, todo, at, slot, sib, med>>
vars == <<disk, pc, locals, allowed>>

(***************************************************************************)
(* Stages at which a node has lost its right half on disk and no node      *)
(* names the sibling that holds it.                                        *)
(***************************************************************************)
Torn == {"sibling", "growRoot", "setRoot", "batchParent"}
Stages == Torn \cup {"idle", "descend", "link", "adoptLeft", "adoptRight",
                     "batchEntry", "batchLeft", "batchPut"}

-----------------------------------------------------------------------------
(***************************************************************************)
(* What a reader finds: search_node and find_entrypoint follow the         *)
(* children from the root to a leaf.  They are sets because binary search  *)
(* leaves its choice open.  A child is always stored before its parent     *)
(* names it, but its offset may be either side of the parent's.            *)
(***************************************************************************)
LeavesIn(file, start, key) ==
    LET leaves[n \in DOMAIN file] ==
            IF file[n].leaf THEN {n}
            ELSE UNION {leaves[file[n].children[p]] :
                            p \in Positions(file[n].keys, key)}
    IN  leaves[start]

LeavesUnder(start, key) == LeavesIn(nodes, start, key)

Leaves(key) == LeavesUnder(rootOffset, key)

LeafAnswers(leaf, key) ==
    {leaf.values[p] : p \in Hits(leaf.keys, key)}
        \cup (IF Gaps(leaf.keys, key) = {} THEN {} ELSE {None})

Search(key) == UNION {LeafAnswers(nodes[n], key) : n \in Leaves(key)}

(***************************************************************************)
(* get_range(start, end): the pairs with start <= key < end, in the order  *)
(* the leaves are visited.  A leaf, or a child, past the last separator is *)
(* reached through idx -= 1.                                               *)
(***************************************************************************)
Least(S) == CHOOSE p \in S : \A q \in S : p <= q

FirstSlot(keys, start) ==
    LET p == Least(Positions(keys, start))
    IN  IF p = Len(keys) + 1 THEN p - 1 ELSE p

LastSlotShort(keys, p, end) ==      \* a mutant: the child after the last separator left out
    LET past == {q \in p..Len(keys) : end <= keys[q]}
    IN  IF past = {} THEN Len(keys) ELSE Least(past)

LastSlot(keys, p, end) ==
    LET past == {q \in p..Len(keys) : end <= keys[q]}
    IN  IF past = {} THEN Len(keys) + 1 ELSE Least(past)

LeafRange(leaf, start, end) ==
    LET p == FirstSlot(leaf.keys, start)
        last == LastSlot(leaf.keys, p, end) - 1
    IN  IF leaf.keys = <<>> THEN <<>>
        ELSE AtPositions([i \in DOMAIN leaf.keys |-> <<leaf.keys[i], leaf.values[i]>>],
                         {i \in p..last : start <= leaf.keys[i]})

GetRange(start, end) ==
    LET range[n \in DOMAIN nodes] ==
            IF nodes[n].leaf THEN LeafRange(nodes[n], start, end)
            ELSE LET keys == nodes[n].keys
                     p == FirstSlot(keys, start)
                     last == LastSlot(keys, p, end)
                 IN  FlattenSeq([i \in 1..(last - p + 1) |->
                                    range[nodes[n].children[p + i - 1]]])
    IN  range[rootOffset]

-----------------------------------------------------------------------------
(***************************************************************************)
(* Tree::new on a fresh file: one empty leaf, the root.                    *)
(***************************************************************************)
Idle == /\ pc = "idle"
        /\ kind = "insert"
        /\ todo = <<>>
        /\ at = 1
        /\ slot = 1
        /\ sib = NewLeaf
        /\ med = 0

Init == /\ nodes = <<[NewLeaf EXCEPT !.isRoot = TRUE]>>
        /\ rootOffset = 1
        /\ allowed = [k \in Key |-> {None}]
        /\ Idle

entry == Head(todo)

(***************************************************************************)
(* The operation returns: what it wrote is now the only right answer.      *)
(***************************************************************************)
Return == /\ pc' = "idle"
          /\ kind' = "insert"
          /\ todo' = <<>>
          /\ at' = 1
          /\ slot' = 1
          /\ sib' = NewLeaf
          /\ med' = 0

Done(k, v) == allowed' = [allowed EXCEPT ![k] = {v}]

-----------------------------------------------------------------------------
(***************************************************************************)
(* Tree::insert.  A full root is split first, and its truncated left half  *)
(* is stored over it at once.                                              *)
(***************************************************************************)
Insert(k, v) ==
    /\ pc = "idle"
    /\ Len(nodes) < MaxNodes
    /\ allowed' = [allowed EXCEPT ![k] = @ \cup {v}]
    /\ kind' = "insert"
    /\ todo' = <<<<k, v>>>>
    /\ at' = rootOffset
    /\ LET root == nodes[rootOffset] IN
       \/ /\ ~IsFull(root)
          /\ pc' = "descend"
          /\ UNCHANGED <<nodes, sib, med>>
       \/ /\ IsFull(root)
          /\ nodes' = [nodes EXCEPT ![rootOffset] =
                          [SplitLeft(root) EXCEPT !.isRoot = FALSE]]
          /\ sib' = SplitRight(root)
          /\ med' = SplitMedian(root)
          /\ pc' = "sibling"
    /\ UNCHANGED <<rootOffset, slot>>

RootSibling ==
    /\ pc = "sibling"
    /\ nodes' = Append(nodes, sib)
    /\ pc' = "growRoot"
    /\ UNCHANGED <<rootOffset, locals, allowed>>

(***************************************************************************)
(* The rest of a root split, the same for insert and batch_insert: the old *)
(* root is at, its sibling the last node stored.                           *)
(***************************************************************************)
RootOver(left, right) ==
    [NewInternal EXCEPT !.isRoot = TRUE, !.keys = <<med>>, !.children = <<left, right>>]

GrowRootSwapped ==                  \* a mutant: the children in the other order
    /\ pc = "growRoot"
    /\ nodes' = Append(nodes, RootOver(Len(nodes), at))
    /\ pc' = "setRoot"
    /\ UNCHANGED <<rootOffset, locals, allowed>>

GrowRoot ==
    /\ pc = "growRoot"
    /\ nodes' = Append(nodes, RootOver(at, Len(nodes)))
    /\ pc' = "setRoot"
    /\ UNCHANGED <<rootOffset, locals, allowed>>

SetRootOffset ==
    /\ pc = "setRoot"
    /\ rootOffset' = Len(nodes)
    /\ pc' = "adoptLeft"
    /\ UNCHANGED <<nodes, locals, allowed>>

AdoptLeft ==
    /\ pc = "adoptLeft"
    /\ nodes' = [nodes EXCEPT ![at] = [@ EXCEPT !.isRoot = FALSE,
                                                !.parent = rootOffset]]
    /\ pc' = "adoptRight"
    /\ UNCHANGED <<rootOffset, locals, allowed>>

Half(right) == IF entry[1] >= med THEN right ELSE at

AdoptRight ==
    /\ pc = "adoptRight"
    /\ nodes' = [nodes EXCEPT ![Len(nodes) - 1] = [@ EXCEPT !.parent = rootOffset]]
    /\ \/ /\ kind = "insert"
          /\ at' = rootOffset
          /\ pc' = "descend"
       \/ /\ kind = "batch"
          /\ at' = Half(Len(nodes) - 1)
          /\ pc' = "batchPut"
    /\ sib' = NewLeaf
    /\ med' = 0
    /\ UNCHANGED <<rootOffset, kind, todo, slot, allowed>>

(***************************************************************************)
(* Descend, were the child truncated before the sibling has a parent.      *)
(***************************************************************************)
DescendTruncating ==
    /\ pc = "descend"
    /\ ~nodes[at].leaf
    /\ \E p \in Positions(nodes[at].keys, entry[1]) :
        LET child == nodes[nodes[at].children[p]] IN
        \/ /\ ~IsFull(child)
           /\ at' = nodes[at].children[p]
           /\ UNCHANGED <<nodes, pc, slot>>
        \/ /\ IsFull(child)
           /\ nodes' = Append([nodes EXCEPT ![nodes[at].children[p]] = SplitLeft(@)],
                              SplitRight(child))
           /\ slot' = p
           /\ pc' = "link"
           /\ UNCHANGED at
    /\ UNCHANGED <<rootOffset, kind, todo, sib, med, allowed>>

(***************************************************************************)
(* insert_non_full.  At an internal node the child on the way is split     *)
(* first when it is full: the sibling is stored, then the node that names  *)
(* it.  The child itself keeps on disk all the keys it had.                *)
(***************************************************************************)
Descend ==
    /\ pc = "descend"
    /\ ~nodes[at].leaf
    /\ \E p \in Positions(nodes[at].keys, entry[1]) :
        LET child == nodes[nodes[at].children[p]] IN
        \/ /\ ~IsFull(child)
           /\ at' = nodes[at].children[p]
           /\ UNCHANGED <<nodes, pc, slot>>
        \/ /\ IsFull(child)
           /\ nodes' = Append(nodes, SplitRight(child))
           /\ slot' = p
           /\ pc' = "link"
           /\ UNCHANGED at
    /\ UNCHANGED <<rootOffset, kind, todo, sib, med, allowed>>

(***************************************************************************)
(* LinkSibling, were the separator to go to the root.                      *)
(***************************************************************************)
LinkSiblingAtRoot ==
    /\ pc = "link"
    /\ LET child == nodes[at].children[slot]
           median == SplitMedian(nodes[child])
           place == Least(Positions(nodes[rootOffset].keys, median))
       IN  /\ nodes' = [nodes EXCEPT ![rootOffset] = LinkAt(@, place, median, Len(nodes))]
           /\ at' = IF entry[1] < median THEN child ELSE Len(nodes)
    /\ slot' = 1
    /\ pc' = "descend"
    /\ UNCHANGED <<rootOffset, kind, todo, sib, med, allowed>>

LinkSibling ==
    /\ pc = "link"
    /\ LET child == nodes[at].children[slot]
           median == SplitMedian(nodes[child])
       IN  /\ nodes' = [nodes EXCEPT ![at] = LinkAt(@, slot, median, Len(nodes))]
           /\ at' = IF entry[1] < median THEN child ELSE Len(nodes)
    /\ slot' = 1
    /\ pc' = "descend"
    /\ UNCHANGED <<rootOffset, kind, todo, sib, med, allowed>>

(***************************************************************************)
(* The leaf: overwrite the value of a key it has, else insert.  A root     *)
(* leaf then sets the root offset, to what it is already.                  *)
(***************************************************************************)
StoreLeaf ==
    /\ pc = "descend"
    /\ nodes[at].leaf
    /\ \E p \in Positions(nodes[at].keys, entry[1]) :
           nodes' = [nodes EXCEPT ![at] =
               IF p \in Hits(@.keys, entry[1])
               THEN OverwriteAt(@, p, entry[2])
               ELSE PutAt(@, p, entry[1], entry[2])]
    /\ rootOffset' = IF nodes[at].isRoot THEN at ELSE rootOffset
    /\ Done(entry[1], entry[2])
    /\ Return

-----------------------------------------------------------------------------
(***************************************************************************)
(* Tree::batch_insert, of a batch already sorted by key: the leaf is found *)
(* once, for the first key, and the others follow it there.                *)
(***************************************************************************)
BatchInsert(entries) ==
    /\ pc = "idle"
    /\ Len(nodes) < MaxNodes
    /\ entries # <<>>
    /\ allowed' = [k \in Key |->
                      allowed[k] \cup {entries[i][2] : i \in {j \in DOMAIN entries :
                                                               entries[j][1] = k}}]
    /\ kind' = "batch"
    /\ todo' = entries
    /\ at' \in Leaves(entries[1][1])
    /\ pc' = "batchEntry"
    /\ UNCHANGED <<disk, slot, sib, med>>

(***************************************************************************)
(* A key is inserted without looking for an equal one.                     *)
(***************************************************************************)
PutEntry ==
    /\ \E p \in Positions(nodes[at].keys, entry[1]) :
           nodes' = [nodes EXCEPT ![at] = PutAt(@, p, entry[1], entry[2])]
    /\ Done(entry[1], entry[2])
    /\ \/ /\ Len(todo) > 1
          /\ todo' = Tail(todo)
          /\ pc' = "batchEntry"
          /\ UNCHANGED <<kind, at, slot, sib, med>>
       \/ /\ Len(todo) = 1
          /\ Return
    /\ UNCHANGED rootOffset

BatchStore ==
    /\ pc = "batchEntry"
    /\ ~IsFull(nodes[at])
    /\ PutEntry

BatchSibling ==
    /\ pc = "batchEntry"
    /\ IsFull(nodes[at])
    /\ nodes' = Append(nodes, SplitRight(nodes[at]))
    /\ med' = SplitMedian(nodes[at])
    /\ pc' = "batchLeft"
    /\ UNCHANGED <<rootOffset, kind, todo, at, slot, sib, allowed>>

BatchLeft ==
    /\ pc = "batchLeft"
    /\ nodes' = [nodes EXCEPT ![at] = SplitLeft(@)]
    /\ \/ /\ nodes[at].isRoot
          /\ sib' = nodes[Len(nodes)]
          /\ pc' = "growRoot"
       \/ /\ ~nodes[at].isRoot
          /\ pc' = "batchParent"
          /\ UNCHANGED sib
    /\ UNCHANGED <<rootOffset, kind, todo, at, slot, med, allowed>>

(***************************************************************************)
(* The parent takes the separator however full it is.                      *)
(***************************************************************************)
BatchParent ==
    /\ pc = "batchParent"
    /\ LET parent == nodes[at].parent IN
       \E p \in Positions(nodes[parent].keys, med) :
           nodes' = [nodes EXCEPT ![parent] = LinkAt(@, p, med, Len(nodes))]
    /\ at' = Half(Len(nodes))
    /\ med' = 0
    /\ pc' = "batchPut"
    /\ UNCHANGED <<rootOffset, kind, todo, slot, sib, allowed>>

BatchPut ==
    /\ pc = "batchPut"
    /\ PutEntry

-----------------------------------------------------------------------------
(***************************************************************************)
(* The process dies between two stores and the file is opened again: what  *)
(* was mapped stays, the operation is forgotten, and either value may be   *)
(* the right one for the keys it was writing.                              *)
(***************************************************************************)
Crash == /\ pc # "idle"
         /\ Return
         /\ UNCHANGED <<disk, allowed>>

Store == \/ RootSibling \/ GrowRoot \/ SetRootOffset \/ AdoptLeft \/ AdoptRight
         \/ Descend \/ LinkSibling \/ StoreLeaf
         \/ BatchStore \/ BatchSibling \/ BatchLeft \/ BatchParent \/ BatchPut

(***************************************************************************)
(* The orders in which the service gives keys to its trees: the timestamps *)
(* of the log never decrease and its last one repeats; hashes come in any  *)
(* order and repeat (commit_list, commit_finish, the inverted index); ids  *)
(* come in batches of fresh keys (metadata_index).                         *)
(***************************************************************************)
Known(k) == allowed[k] # {None}

AscendingKey(k) == \A j \in Key : Known(j) => j <= k

FreshKey(k) == ~Known(k)

InsertFresh == \E k \in Key, v \in Value : FreshKey(k) /\ Insert(k, v)

InsertAscending == \E k \in Key, v \in Value : AscendingKey(k) /\ Insert(k, v)

InsertAscendingOrOverwrite ==
    \E k \in Key, v \in Value : (AscendingKey(k) \/ Known(k)) /\ Insert(k, v)

BatchFresh ==
    \E entries \in Batches :
        /\ \A i \in DOMAIN entries : FreshKey(entries[i][1])
        /\ BatchInsert(entries)

BatchAscending ==
    \E entries \in Batches :
        /\ \A i \in DOMAIN entries : FreshKey(entries[i][1]) /\ AscendingKey(entries[i][1])
        /\ BatchInsert(entries)

OverwriteSpec == Init /\ [][InsertAscendingOrOverwrite \/ Store]_vars
FreshSpec == Init /\ [][InsertFresh \/ Store]_vars
BatchSpec == Init /\ [][BatchFresh \/ Store]_vars
CrashSpec == Init /\ [][InsertAscending \/ Store \/ Crash]_vars

(***************************************************************************)
(* A log whose writer may die anywhere but in the middle of a root split;  *)
(* any trees at all, and any filled by insert whose writer may die         *)
(* anywhere, or anywhere but there.                                        *)
(***************************************************************************)
LogSpec == Init /\ [][InsertAscending \/ Store \/ (pc \notin Torn /\ Crash)]_vars

AnyInsert == \E k \in Key, v \in Value : Insert(k, v)
AnyBatch == \E entries \in Batches : BatchInsert(entries)

AnySpec == Init /\ [][AnyInsert \/ AnyBatch \/ Store]_vars
AnyCrashSpec == Init /\ [][AnyInsert \/ Store \/ Crash]_vars
AnyUntornSpec == Init /\ [][AnyInsert \/ Store \/ (pc \notin Torn /\ Crash)]_vars

-----------------------------------------------------------------------------
(***************************************************************************)
(* Every field of the file and of the writer has the type the code gives   *)
(* it, and every offset written anywhere names a stored node.              *)
(***************************************************************************)
TypeOK ==
    /\ DOMAIN nodes = 1..Len(nodes)
    /\ rootOffset \in DOMAIN nodes
    /\ \A n \in DOMAIN nodes :
          /\ nodes[n].leaf \in BOOLEAN
          /\ nodes[n].isRoot \in BOOLEAN
          /\ nodes[n].keys \in Seq(Key)
          /\ nodes[n].values \in Seq(Value)
          /\ ToSet(nodes[n].children) \subseteq DOMAIN nodes
          /\ nodes[n].parent \in DOMAIN nodes \cup {NoParent}
          /\ Len(nodes[n].values) = IF nodes[n].leaf THEN Len(nodes[n].keys) ELSE 0
          /\ Len(nodes[n].children) = IF nodes[n].leaf THEN 0 ELSE Len(nodes[n].keys) + 1
    /\ pc \in Stages
    /\ kind \in {"insert", "batch"}
    /\ todo \in Seq(Key \X Value)
    /\ at \in DOMAIN nodes
    /\ allowed \in [Key -> SUBSET (Value \cup {None})]

(***************************************************************************)
(* A search between two operations finds the value given to the key last,  *)
(* and nothing for a key never given one: what tests/trees.rs asks of the  *)
(* tree after each kind of insertion.                                      *)
(***************************************************************************)
QuiescentSearch == pc = "idle" => \A k \in Key : Search(k) \subseteq allowed[k]

(***************************************************************************)
(* A reader that opens the file while an insertion is under way finds the  *)
(* old value or the new one of every key, in every state but those of a    *)
(* split that has truncated a node and not yet linked its sibling: the     *)
(* other stores hide nothing, whatever their order.                        *)
(***************************************************************************)
ReaderSearch == pc \notin Torn => \A k \in Key : Search(k) \subseteq allowed[k]

(***************************************************************************)
(* get_range, in the same states, returns every key of the range, and the  *)
(* value a search may find. A stale copy that a split child left behind    *)
(* may be there too, but before the current pair, never after it.          *)
(***************************************************************************)
RangeLastWins ==
    pc \notin Torn =>
        \A range \in Ranges :
            LET pairs == GetRange(range[1], range[2])
                current(k) == {i \in DOMAIN pairs : pairs[i][1] = k}
            IN  \A k \in {j \in Key : range[1] <= j /\ j < range[2]} :
                   \/ None \in allowed[k] /\ current(k) = {}
                   \/ \E i \in current(k) : /\ pairs[i][2] \in allowed[k]
                                            /\ \A j \in current(k) : j <= i

(***************************************************************************)
(* Whatever the order of the keys, the value given to a key last is in     *)
(* some leaf below the root, once its insertion has returned: a search may *)
(* be led past it, but no split and no stale copy drops it from the file.  *)
(***************************************************************************)
BelowIn(file, start) ==
    LET below[n \in DOMAIN file] ==
            {n} \cup UNION {below[file[n].children[p]] : p \in DOMAIN file[n].children}
    IN  below[start]

Below == BelowIn(nodes, rootOffset)

LatestValueReachable ==
    pc = "idle" =>
        \A k \in Key : None \notin allowed[k] =>
            \E n \in Below : /\ nodes[n].leaf
                             /\ \E p \in Hits(nodes[n].keys, k) :
                                    nodes[n].values[p] \in allowed[k]

(***************************************************************************)
(* All leaves are at the same depth, at every store and for every order of *)
(* the keys: a split never hangs a sibling on a level that is not its own. *)
(***************************************************************************)
UniformDepth ==
    LET depths[n \in DOMAIN nodes] ==
            IF nodes[n].leaf THEN {0}
            ELSE {d + 1 : d \in UNION {depths[nodes[n].children[p]] :
                                          p \in DOMAIN nodes[n].children}}
    IN  Cardinality(depths[rootOffset]) = 1

-----------------------------------------------------------------------------
(***************************************************************************)
(* The dictionary the tree stands for.  While a node is torn, the half cut *)
(* off it is still in the writer's memory.                                 *)
(***************************************************************************)
AnswersIn(node, key) ==
    IF node.leaf THEN LeafAnswers(node, key)
    ELSE UNION {UNION {LeafAnswers(nodes[n], key) :
                          n \in LeavesUnder(node.children[p], key)} :
                    p \in Positions(node.keys, key)}

TornAnswers(key) ==
    IF pc = "batchParent"
    THEN UNION {LeafAnswers(IF n = at /\ med < key THEN nodes[Len(nodes)] ELSE nodes[n], key) :
                   n \in Leaves(key)}
    ELSE AnswersIn(IF med < key THEN sib ELSE nodes[at], key)

Dictionary ==
    [k \in Key |->
        CHOOSE v \in Value \cup {None} :
            v \in IF pc \in Torn THEN TornAnswers(k) ELSE Search(k)]

Map == INSTANCE OrderedMap WITH map <- Dictionary

(***************************************************************************)
(* Ascending inserts implement the abstract dictionary: of all the stores  *)
(* of one insert, exactly one changes what the tree says, and it changes   *)
(* only the key being inserted.                                            *)
(***************************************************************************)
ImplementsMap == Map!Spec
=============================================================================
