---------------------------- MODULE InvertedIndex ---------------------------
(***************************************************************************)
(* The entries of structures/inverted_index.rs: for each pair the vectors  *)
(* that carry it.  Their indices are kept as runs, their ids beside them   *)
(* in a separate list, and a query pairs the two lists by position.        *)
(*                                                                         *)
(* The commit worker appends, batch by batch, the vectors of the batch     *)
(* that carry the pair, with the indices batch_push gave them and the      *)
(* uuids drawn for them, a vector as often as its list repeats the pair.   *)
(***************************************************************************)
EXTENDS Lists

CONSTANTS
    Pair,       \* key-value pairs
    KvLists,    \* the lists of pairs a vector may come with
    MaxBatch,   \* bound: vectors in one batch
    MaxIndex    \* bound: vectors pushed in all

ASSUME IndexAssumption ==
    /\ KvLists \subseteq Seq(Pair)
    /\ MaxBatch \in Nat \ {0}
    /\ MaxIndex \in Nat

VARIABLES
    items,      \* the entry of each pair, NoItem before the first append
    carried     \* the list of each vector pushed, in order of their indices

ivars == <<items, carried>>

-----------------------------------------------------------------------------
(***************************************************************************)
(* compress_indices, were every index to open a run.                       *)
(***************************************************************************)
CompressNothing(indices) == [r \in DOMAIN indices |-> [start |-> indices[r], count |-> 1]]

(***************************************************************************)
(* compress_indices: runs of successive indices, as start and count, in    *)
(* the order of the list: an index that does not continue the last run     *)
(* opens the next.                                                         *)
(***************************************************************************)
Lengthen(runs, index) ==
    IF runs # <<>> /\ index = Last(runs).start + Last(runs).count
    THEN Append(Front(runs), [Last(runs) EXCEPT !.count = @ + 1])
    ELSE Append(runs, [start |-> index, count |-> 1])

Compress(indices) == FoldLeft(Lengthen, <<>>, indices)

(***************************************************************************)
(* decompress_indices.                                                     *)
(***************************************************************************)
Decompress(runs) ==
    FlattenSeq([r \in DOMAIN runs |->
                   [i \in 1..runs[r].count |-> runs[r].start + i - 1]])

NoItem == [runs |-> <<>>, ids |-> <<>>]

(***************************************************************************)
(* The indices of an entry and those appended, sorted and freed of         *)
(* duplicates.                                                             *)
(***************************************************************************)
Merge(indices, more) == Ascending(ToSet(indices) \cup ToSet(more))

(***************************************************************************)
(* insert_append, were the new ids put first.                              *)
(***************************************************************************)
InsertAppendIdsFirst(old, indices, ids) ==
    IF old = NoItem
    THEN [runs |-> Compress(indices), ids |-> ids]
    ELSE [runs |-> Compress(Merge(Decompress(old.runs), indices)),
          ids |-> ids \o old.ids]

(***************************************************************************)
(* insert_append, when there is no entry and when there is: only then are  *)
(* the indices merged.  The ids are never freed of duplicates.             *)
(***************************************************************************)
InsertAppend(old, indices, ids) ==
    IF old = NoItem
    THEN [runs |-> Compress(indices), ids |-> ids]
    ELSE [runs |-> Compress(Merge(Decompress(old.runs), indices)),
          ids |-> old.ids \o ids]

-----------------------------------------------------------------------------
(***************************************************************************)
(* The uuid of the vector at an index: any injection will do, and one that *)
(* reverses the order makes sorting the ids visible.                       *)
(***************************************************************************)
IdOf(index) == 0 - index

Init == items = [p \in Pair |-> NoItem] /\ carried = <<>>

(***************************************************************************)
(* The vectors from index first on that carry the pair, each as often as   *)
(* it does.                                                                *)
(***************************************************************************)
Carrying(lists, first, p) ==
    LET times(i) == Cardinality({j \in DOMAIN lists[i] : lists[i][j] = p})
    IN  FlattenSeq([i \in DOMAIN lists |-> [j \in 1..times(i) |-> first + i - 1]])

(***************************************************************************)
(* A batch: pushed, then appended pair by pair, in the order of a hash map.*)
(***************************************************************************)
CommitBatch(lists) ==
    /\ Len(carried) + Len(lists) <= MaxIndex
    /\ carried' = carried \o lists
    /\ items' = [p \in Pair |->
           LET indices == Carrying(lists, Len(carried) + 1, p)
               ids == [i \in DOMAIN indices |-> IdOf(indices[i])]
           IN  IF indices = <<>> THEN items[p] ELSE InsertAppend(items[p], indices, ids)]

Next == \E n \in 1..MaxBatch : \E lists \in [1..n -> KvLists] : CommitBatch(lists)

Spec == Init /\ [][Next]_ivars

-----------------------------------------------------------------------------
(***************************************************************************)
(* Pairs that no vector repeats.                                           *)
(***************************************************************************)
Single(p) == IsInjective(Carrying(carried, 1, p))

(***************************************************************************)
(* What InvertedIndex::get returns pairs each index with the id it came    *)
(* with, in the order of the commits, through any sequence of merges: the  *)
(* two lists, which the code changes separately, never shift against each  *)
(* other, unless a vector repeats the pair: then an append frees the       *)
(* indices of duplicates and not the ids, but no vector is lost or added.  *)
(***************************************************************************)
IdsAligned ==
    \A p \in Pair :
        LET indices == Decompress(items[p].runs)
            carrying == Carrying(carried, 1, p)
        IN  /\ items[p].ids = [i \in DOMAIN carrying |-> IdOf(carrying[i])]
            /\ ToSet(indices) = ToSet(carrying)
            /\ Single(p) => indices = carrying

(***************************************************************************)
(* The runs are as few as they can be: no two of them touch or overlap, so *)
(* that vectors committed one after the other cost one run.                *)
(***************************************************************************)
RunsAreMaximal ==
    \A p \in Pair :
        LET runs == items[p].runs
        IN  Single(p) => \A r, q \in DOMAIN runs :
                            r < q => runs[r].start + runs[r].count < runs[q].start
=============================================================================
