------------------------------ MODULE MmapNode ------------------------------
(***************************************************************************)
(* The nodes of the persistent B+tree, and what the code computes on one   *)
(* node in memory: structures/mmap_tree/node.rs and the standard library's *)
(* binary search, on which every routing decision of the tree rests.       *)
(*                                                                         *)
(* A node is a record.  Sequences are 1-based here and 0-based in the      *)
(* code: position p stands for the code's idx = p - 1, and children[p] for *)
(* the child the code reads at idx.                                        *)
(***************************************************************************)
EXTENDS Integers, Sequences, SequencesExt

CONSTANTS
    MaxKeys,    \* node.max_keys (MAX_KEYS = 32): a node is full at 2 * MaxKeys - 1
    B           \* Tree.b (32): where a full node is split

(***************************************************************************)
(* The split of a full node, leaf or internal, succeeds: node.rs:76 and    *)
(* node.rs:106 reject the other split points.  32 and 32 in the code.      *)
(***************************************************************************)
ASSUME SplitAssumption ==
    /\ MaxKeys \in Nat
    /\ B \in Nat
    /\ 1 < B
    /\ B < 2 * MaxKeys - 1

NoParent == 0       \* Some(0), and None once serialized: no node has offset 0

NewLeaf == [leaf |-> TRUE, keys |-> <<>>, values |-> <<>>, children |-> <<>>,
            isRoot |-> FALSE, parent |-> NoParent]

NewInternal == [NewLeaf EXCEPT !.leaf = FALSE]

IsFull(node) == Len(node.keys) >= 2 * MaxKeys - 1

-----------------------------------------------------------------------------
(***************************************************************************)
(* keys.binary_search(&key).unwrap_or_else(|x| x): a hit if one is probed, *)
(* else a point where the key fits between its neighbours.  Which hit is   *)
(* unspecified when keys repeat, and so is the point when they are not     *)
(* sorted, hence a set of positions; it has one member when the keys       *)
(* strictly ascend.                                                        *)
(***************************************************************************)
Hits(keys, key) == {p \in 1..Len(keys) : keys[p] = key}

Gaps(keys, key) ==
    {p \in 1..Len(keys) + 1 : /\ p = 1 \/ keys[p - 1] < key
                              /\ p = Len(keys) + 1 \/ key < keys[p]}

Positions(keys, key) == Hits(keys, key) \cup Gaps(keys, key)

(***************************************************************************)
(* Node::split at b, for a node of at least b keys: what stays in the      *)
(* node, the key promoted to the parent, and the new sibling.  A leaf      *)
(* keeps a copy of the median; an internal node gives it away.             *)
(***************************************************************************)
SplitMedian(node) == node.keys[B]

(***************************************************************************)
(* SplitLeft, were it to keep the median in an internal node too.          *)
(***************************************************************************)
SplitLeftKeepsMedian(node) ==
    IF node.leaf
    THEN [node EXCEPT !.keys = SubSeq(@, 1, B), !.values = SubSeq(@, 1, B)]
    ELSE [node EXCEPT !.keys = SubSeq(@, 1, B), !.children = SubSeq(@, 1, B)]

SplitLeft(node) ==
    IF node.leaf
    THEN [node EXCEPT !.keys = SubSeq(@, 1, B), !.values = SubSeq(@, 1, B)]
    ELSE [node EXCEPT !.keys = SubSeq(@, 1, B - 1), !.children = SubSeq(@, 1, B)]

(***************************************************************************)
(* SplitRight, were it to start one key late.                              *)
(***************************************************************************)
SplitRightLate(node) ==
    [node EXCEPT !.keys = SubSeq(@, B + 2, Len(@)),
                 !.values = SubSeq(@, B + 2, Len(@)),
                 !.children = SubSeq(@, B + 1, Len(@)),
                 !.isRoot = FALSE]

SplitRight(node) ==
    IF node.leaf
    THEN [node EXCEPT !.keys = SubSeq(@, B + 1, Len(@)),
                      !.values = SubSeq(@, B + 1, Len(@)),
                      !.isRoot = FALSE]
    ELSE [node EXCEPT !.keys = SubSeq(@, B + 1, Len(@)),
                      !.children = SubSeq(@, B + 1, Len(@)),
                      !.isRoot = FALSE]

(***************************************************************************)
(* The two ways a key enters a leaf at position p, and a separator with    *)
(* its right child an internal node.                                       *)
(***************************************************************************)
PutAt(node, p, key, value) ==
    [node EXCEPT !.keys = InsertAt(@, p, key), !.values = InsertAt(@, p, value)]

OverwriteAt(node, p, value) == [node EXCEPT !.values[p] = value]

(***************************************************************************)
(* LinkAt, were the new child to come before the one it was split from.    *)
(***************************************************************************)
LinkBefore(node, p, separator, child) ==
    [node EXCEPT !.keys = InsertAt(@, p, separator),
                 !.children = InsertAt(@, p, child)]

LinkAt(node, p, separator, child) ==
    [node EXCEPT !.keys = InsertAt(@, p, separator),
                 !.children = InsertAt(@, p + 1, child)]
=============================================================================
