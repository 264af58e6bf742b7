--------------------------- MODULE MmapTreeProofs ---------------------------
(***************************************************************************)
(* Proofs about MmapTree, for every node size, split point, set of keys    *)
(* and number of nodes. Of any tree: its types and its uniform depth, also *)
(* when the writer of one filled by insert dies. Of a tree filled in       *)
(* ascending order: ReaderSearch, and that it implements OrderedMap.       *)
(***************************************************************************)
EXTENDS MmapTree, Induction, TLAPS

-----------------------------------------------------------------------------
(* Sequences and single nodes: what node.rs computes. *)

(***************************************************************************)
(* A node of a file of N nodes: what node.rs serializes, with offsets of   *)
(* nodes that are there.                                                   *)
(***************************************************************************)
Node(N) == [leaf : BOOLEAN, keys : Seq(Key), values : Seq(Value), children : Seq(1..N),
            isRoot : BOOLEAN, parent : 0..N]

(***************************************************************************)
(* As many values as keys in a leaf, one child more than keys in an        *)
(* internal node.                                                          *)
(***************************************************************************)
WellFormed(nd) ==
    /\ Len(nd.values) = IF nd.leaf THEN Len(nd.keys) ELSE 0
    /\ Len(nd.children) = IF nd.leaf THEN 0 ELSE Len(nd.keys) + 1

(***************************************************************************)
(* The first n elements of a sequence.                                     *)
(***************************************************************************)
LEMMA PrefixFacts ==
    ASSUME NEW S, NEW s \in Seq(S), NEW b \in Nat, b <= Len(s)
    PROVE  /\ SubSeq(s, 1, b) \in Seq(S) /\ Len(SubSeq(s, 1, b)) = b
           /\ \A i \in 1..b : SubSeq(s, 1, b)[i] = s[i]
  OBVIOUS

(***************************************************************************)
(* What is left of a sequence after the first n elements.                  *)
(***************************************************************************)
LEMMA SuffixFacts ==
    ASSUME NEW S, NEW s \in Seq(S), NEW b \in Nat, b <= Len(s)
    PROVE  /\ SubSeq(s, b + 1, Len(s)) \in Seq(S)
           /\ Len(SubSeq(s, b + 1, Len(s))) = Len(s) - b
           /\ \A i \in 1..(Len(s) - b) : SubSeq(s, b + 1, Len(s))[i] = s[b + i]
  OBVIOUS

(***************************************************************************)
(* t is s with e put at place p.                                           *)
(***************************************************************************)
HasInserted(S, s, p, e, t) ==
    /\ t \in Seq(S) /\ Len(t) = Len(s) + 1
    /\ \A i \in 1..(p - 1) : t[i] = s[i]
    /\ t[p] = e
    /\ \A i \in (p + 1)..(Len(s) + 1) : t[i] = s[i - 1]

(***************************************************************************)
(* InsertAt shifts what follows by one.                                    *)
(***************************************************************************)
LEMMA InsertFacts ==
    ASSUME NEW S, NEW s \in Seq(S), NEW e \in S, NEW p \in Nat, 1 <= p, p <= Len(s) + 1
    PROVE  HasInserted(S, s, p, e, InsertAt(s, p, e))
<1> DEFINE a == SubSeq(s, 1, p - 1)
           c == SubSeq(s, p, Len(s))
           t == a \o <<e>> \o c
<1>1. a \in Seq(S) /\ Len(a) = p - 1 /\ \A i \in 1..(p - 1) : a[i] = s[i]
  OBVIOUS
<1>2. c \in Seq(S) /\ Len(c) = Len(s) + 1 - p /\ \A i \in 1..(Len(s) + 1 - p) : c[i] = s[p - 1 + i]
  OBVIOUS
<1> HIDE DEF a, c
<1>3. Len(s) \in Nat /\ p \in Nat /\ p >= 1 /\ p <= Len(s) + 1
  OBVIOUS
<1> DEFINE u == a \o <<e>>
<1>4. u \in Seq(S) /\ Len(u) = p /\ u[p] = e /\ \A i \in 1..(p - 1) : u[i] = s[i]
  <2>1. <<e>> \in Seq(S) /\ Len(<<e>>) = 1 /\ <<e>>[1] = e
    OBVIOUS
  <2>2. u \in Seq(S) /\ Len(u) = Len(a) + 1
    BY <1>1, <2>1
  <2>3. Len(u) = p
    BY <1>1, <1>3, <2>2
  <2>4. u[p] = e
    BY <1>1, <1>3, <2>1
  <2>5. \A i \in 1..(p - 1) : u[i] = s[i]
    BY <1>1, <1>3, <2>1
  <2> QED BY <2>2, <2>3, <2>4, <2>5
<1>5. t = u \o c
  OBVIOUS
<1> HIDE DEF t, u
<1>6. t \in Seq(S) /\ Len(t) = Len(u) + Len(c)
  <2>1. u \in Seq(S) /\ c \in Seq(S)
    BY <1>2, <1>4
  <2> QED BY <1>5, <2>1
<1>7. Len(t) = Len(s) + 1
  BY <1>2, <1>3, <1>4, <1>6
<1>8. \A i \in 1..p : t[i] = u[i]
  <2>1. u \in Seq(S) /\ c \in Seq(S) /\ Len(u) = p
    BY <1>2, <1>3, <1>4
  <2> QED BY <1>5, <2>1
<1>9. \A i \in (p + 1)..(Len(s) + 1) : t[i] = s[i - 1]
  <2> TAKE i \in (p + 1)..(Len(s) + 1)
  <2>1. i - p \in 1..(Len(s) + 1 - p) /\ (p - 1) + (i - p) = i - 1
    BY <1>3
  <2>2. t[i] = c[i - p]
    <3>1. u \in Seq(S) /\ c \in Seq(S) /\ Len(u) = p /\ Len(c) = Len(s) + 1 - p
      BY <1>2, <1>3, <1>4
    <3> QED BY <1>5, <2>1, <3>1
  <2> QED BY <1>2, <2>1, <2>2
<1>10. InsertAt(s, p, e) = t
  BY DEF InsertAt, a, c, t
<1>11. t[p] = e /\ \A i \in 1..(p - 1) : t[i] = s[i]
  BY <1>3, <1>4, <1>8
<1> QED BY <1>6, <1>7, <1>9, <1>10, <1>11 DEF HasInserted

(***************************************************************************)
(* A node of a file is a node of any longer one.                           *)
(***************************************************************************)
LEMMA NodeGrows ==
    ASSUME NEW N \in Nat, NEW M \in Nat, N <= M, NEW nd \in Node(N)
    PROVE  nd \in Node(M)
<1>1. 1..N \subseteq 1..M /\ 0..N \subseteq 0..M
  OBVIOUS
<1>2. nd.children \in Seq(1..M)
  BY <1>1 DEF Node
<1> QED BY <1>1, <1>2 DEF Node

(***************************************************************************)
(* The types of a node's fields.                                           *)
(***************************************************************************)
LEMMA NodeFields ==
    ASSUME NEW N \in Nat, NEW nd \in Node(N), WellFormed(nd)
    PROVE  /\ nd.leaf \in BOOLEAN /\ nd.isRoot \in BOOLEAN
           /\ nd.keys \in Seq(Key) /\ nd.values \in Seq(Value) /\ nd.children \in Seq(1..N)
           /\ Len(nd.keys) \in Nat /\ nd.parent \in 0..N
           /\ nd.leaf => Len(nd.values) = Len(nd.keys) /\ Len(nd.children) = 0
           /\ ~nd.leaf => Len(nd.values) = 0 /\ Len(nd.children) = Len(nd.keys) + 1
           /\ \A p \in 1..Len(nd.children) : nd.children[p] \in 1..N
           /\ \A p \in 1..Len(nd.keys) : nd.keys[p] \in Key
<1>1. /\ nd.leaf \in BOOLEAN /\ nd.isRoot \in BOOLEAN
      /\ nd.keys \in Seq(Key) /\ nd.values \in Seq(Value) /\ nd.children \in Seq(1..N)
      /\ nd.parent \in 0..N
  BY DEF Node
<1>2. /\ nd.leaf => Len(nd.values) = Len(nd.keys) /\ Len(nd.children) = 0
      /\ ~nd.leaf => Len(nd.values) = 0 /\ Len(nd.children) = Len(nd.keys) + 1
  BY <1>1 DEF WellFormed
<1>3. \A S : \A s \in Seq(S) : Len(s) \in Nat /\ \A p \in 1..Len(s) : s[p] \in S
  OBVIOUS
<1>4. Len(nd.keys) \in Nat /\ \A p \in 1..Len(nd.keys) : nd.keys[p] \in Key
  BY <1>1, <1>3
<1>5. \A p \in 1..Len(nd.children) : nd.children[p] \in 1..N
  <2> DEFINE T == 1..N
             s == nd.children
  <2>1. s \in Seq(T)
    BY <1>1
  <2> HIDE DEF T, s
  <2>2. \A p \in 1..Len(s) : s[p] \in T
    BY <2>1
  <2> QED BY <2>2 DEF T, s
<1> QED BY <1>1, <1>2, <1>4, <1>5

(***************************************************************************)
(* The split point is inside a full node.                                  *)
(***************************************************************************)
LEMMA SplitPoint == B \in Nat /\ 1 < B /\ MaxKeys \in Nat /\ B < 2 * MaxKeys - 1
  BY SplitAssumption

(***************************************************************************)
(* The sibling of a split: what follows position B, copied with the node's *)
(* parent and never a root.                                                *)
(***************************************************************************)
LEMMA SplitRightFacts ==
    ASSUME NEW N \in Nat, NEW nd \in Node(N), WellFormed(nd), IsFull(nd)
    PROVE  LET r == SplitRight(nd) IN
           /\ r \in Node(N) /\ WellFormed(r)
           /\ r.leaf = nd.leaf /\ r.isRoot = FALSE /\ r.parent = nd.parent
           /\ Len(r.keys) = Len(nd.keys) - B /\ Len(r.keys) >= 1
           /\ \A i \in 1..(Len(nd.keys) - B) : r.keys[i] = nd.keys[B + i]
           /\ nd.leaf => \A i \in 1..(Len(nd.keys) - B) : r.values[i] = nd.values[B + i]
           /\ ~nd.leaf => /\ Len(r.children) = Len(nd.keys) - B + 1
                          /\ \A i \in 1..(Len(nd.keys) - B + 1) : r.children[i] = nd.children[B + i]
<1> DEFINE r == SplitRight(nd)
           K == SubSeq(nd.keys, B + 1, Len(nd.keys))
           V == SubSeq(nd.values, B + 1, Len(nd.values))
           C == SubSeq(nd.children, B + 1, Len(nd.children))
<1>1. /\ nd.leaf \in BOOLEAN /\ nd.isRoot \in BOOLEAN
      /\ nd.keys \in Seq(Key) /\ nd.values \in Seq(Value) /\ nd.children \in Seq(1..N)
      /\ Len(nd.keys) \in Nat /\ nd.parent \in 0..N
      /\ nd.leaf => Len(nd.values) = Len(nd.keys) /\ Len(nd.children) = 0
      /\ ~nd.leaf => Len(nd.values) = 0 /\ Len(nd.children) = Len(nd.keys) + 1
  BY NodeFields
<1>2. B \in Nat /\ B < Len(nd.keys)
  BY <1>1, SplitPoint DEF IsFull
<1>3. K \in Seq(Key) /\ Len(K) = Len(nd.keys) - B /\ \A i \in 1..(Len(nd.keys) - B) : K[i] = nd.keys[B + i]
  <2>1. nd.keys \in Seq(Key) /\ B \in Nat /\ B <= Len(nd.keys)
    BY <1>1, <1>2
  <2> QED BY <2>1, SuffixFacts
<1>4. CASE nd.leaf
  <2>1. V \in Seq(Value) /\ Len(V) = Len(nd.keys) - B
        /\ \A i \in 1..(Len(nd.keys) - B) : V[i] = nd.values[B + i]
    <3>1. nd.values \in Seq(Value) /\ B \in Nat /\ B <= Len(nd.values)
      BY <1>1, <1>2, <1>4
    <3>2. Len(nd.values) = Len(nd.keys)
      BY <1>1, <1>4
    <3>3. V \in Seq(Value) /\ Len(V) = Len(nd.values) - B
          /\ \A i \in 1..(Len(nd.values) - B) : V[i] = nd.values[B + i]
      BY <3>1, SuffixFacts
    <3> HIDE DEF V
    <3> QED BY <3>2, <3>3
  <2>2. r = [nd EXCEPT !.keys = K, !.values = V, !.isRoot = FALSE]
    BY <1>4 DEF SplitRight
  <2> HIDE DEF r, K, V, C
  <2>3. /\ r.leaf = nd.leaf /\ r.isRoot = FALSE /\ r.parent = nd.parent
        /\ r.keys = K /\ r.values = V /\ r.children = nd.children
        /\ r = [leaf |-> nd.leaf, keys |-> K, values |-> V, children |-> nd.children,
                isRoot |-> FALSE, parent |-> nd.parent]
    BY <2>2 DEF Node
  <2>4. r \in Node(N)
    BY <1>1, <1>3, <2>1, <2>3 DEF Node
  <2>5. WellFormed(r)
    BY <1>1, <1>3, <1>4, <2>1, <2>3 DEF WellFormed
  <2> QED BY <1>2, <1>3, <1>4, <2>1, <2>3, <2>4, <2>5 DEF r
<1>5. CASE ~nd.leaf
  <2>1. C \in Seq(1..N) /\ Len(C) = Len(nd.keys) + 1 - B
        /\ \A i \in 1..(Len(nd.keys) + 1 - B) : C[i] = nd.children[B + i]
    <3>1. nd.children \in Seq(1..N) /\ B \in Nat /\ B <= Len(nd.children)
      BY <1>1, <1>2, <1>5
    <3>2. Len(nd.children) = Len(nd.keys) + 1
      BY <1>1, <1>5
    <3>3. C \in Seq(1..N) /\ Len(C) = Len(nd.children) - B
          /\ \A i \in 1..(Len(nd.children) - B) : C[i] = nd.children[B + i]
      BY <3>1, SuffixFacts
    <3>4. B \in Nat /\ Len(nd.keys) \in Nat
      BY <1>1, <3>1
    <3> HIDE DEF C
    <3> QED BY <3>2, <3>3, <3>4
  <2>2. r = [nd EXCEPT !.keys = K, !.children = C, !.isRoot = FALSE]
    BY <1>5 DEF SplitRight
  <2> HIDE DEF r, K, V, C
  <2>3. /\ r.leaf = nd.leaf /\ r.isRoot = FALSE /\ r.parent = nd.parent
        /\ r.keys = K /\ r.values = nd.values /\ r.children = C
        /\ r = [leaf |-> nd.leaf, keys |-> K, values |-> nd.values, children |-> C,
                isRoot |-> FALSE, parent |-> nd.parent]
    BY <2>2 DEF Node
  <2>4. r \in Node(N)
    BY <1>1, <1>3, <2>1, <2>3 DEF Node
  <2>5. WellFormed(r)
    <3>1. Len(r.children) = Len(r.keys) + 1
      <4>1. Len(C) = Len(nd.keys) + 1 - B /\ Len(K) = Len(nd.keys) - B
            /\ B \in Nat /\ Len(nd.keys) \in Nat
        BY <1>1, <1>2, <1>3, <2>1
      <4> QED BY <2>3, <4>1
    <3>2. Len(r.values) = 0 /\ r.leaf = FALSE
      BY <1>1, <1>5, <2>3
    <3> QED BY <3>1, <3>2 DEF WellFormed
  <2>6. Len(nd.keys) + 1 - B = Len(nd.keys) - B + 1 /\ Len(nd.keys) - B >= 1
    BY <1>1, <1>2
  <2> QED BY <1>2, <1>3, <1>5, <2>1, <2>3, <2>4, <2>5, <2>6 DEF r
<1> QED BY <1>1, <1>4, <1>5

(***************************************************************************)
(* What stays in the node: the first B pairs of a leaf, B - 1 keys and B   *)
(* children of an internal node.                                           *)
(***************************************************************************)
LEMMA SplitLeftFacts ==
    ASSUME NEW N \in Nat, NEW nd \in Node(N), WellFormed(nd), IsFull(nd)
    PROVE  LET l == SplitLeft(nd) IN
           /\ l \in Node(N) /\ WellFormed(l)
           /\ l.leaf = nd.leaf /\ l.isRoot = nd.isRoot /\ l.parent = nd.parent
           /\ Len(l.keys) = (IF nd.leaf THEN B ELSE B - 1) /\ Len(l.keys) >= 1
           /\ \A i \in 1..Len(l.keys) : l.keys[i] = nd.keys[i]
           /\ nd.leaf => \A i \in 1..B : l.values[i] = nd.values[i]
           /\ ~nd.leaf => /\ Len(l.children) = B
                          /\ \A i \in 1..B : l.children[i] = nd.children[i]
<1> DEFINE l == SplitLeft(nd)
           b == IF nd.leaf THEN B ELSE B - 1
           K == SubSeq(nd.keys, 1, b)
           V == SubSeq(nd.values, 1, B)
           C == SubSeq(nd.children, 1, B)
<1>1. /\ nd.leaf \in BOOLEAN /\ nd.isRoot \in BOOLEAN
      /\ nd.keys \in Seq(Key) /\ nd.values \in Seq(Value) /\ nd.children \in Seq(1..N)
      /\ Len(nd.keys) \in Nat /\ nd.parent \in 0..N
      /\ nd.leaf => Len(nd.values) = Len(nd.keys) /\ Len(nd.children) = 0
      /\ ~nd.leaf => Len(nd.values) = 0 /\ Len(nd.children) = Len(nd.keys) + 1
  BY NodeFields
<1>2. B \in Nat /\ 1 < B /\ B < Len(nd.keys) /\ b \in Nat /\ b <= Len(nd.keys) /\ 1 <= b
  BY <1>1, SplitPoint DEF IsFull
<1>3. K \in Seq(Key) /\ Len(K) = b /\ \A i \in 1..b : K[i] = nd.keys[i]
  <2> HIDE DEF b
  <2> QED BY <1>1, <1>2, PrefixFacts
<1>4. CASE nd.leaf
  <2>1. V \in Seq(Value) /\ Len(V) = B /\ \A i \in 1..B : V[i] = nd.values[i]
    <3>1. B <= Len(nd.values)
      BY <1>1, <1>2, <1>4
    <3> QED BY <1>1, <1>2, <3>1, PrefixFacts
  <2>0. b = B
    BY <1>4
  <2>2. l = [nd EXCEPT !.keys = K, !.values = V]
    BY <1>4 DEF SplitLeft
  <2> HIDE DEF l, K, V, C, b
  <2>3. /\ l.leaf = nd.leaf /\ l.isRoot = nd.isRoot /\ l.parent = nd.parent
        /\ l.keys = K /\ l.values = V /\ l.children = nd.children
        /\ l = [leaf |-> nd.leaf, keys |-> K, values |-> V, children |-> nd.children,
                isRoot |-> nd.isRoot, parent |-> nd.parent]
    BY <2>2 DEF Node
  <2>4. l \in Node(N)
    BY <1>1, <1>3, <2>1, <2>3 DEF Node
  <2>5. WellFormed(l)
    BY <1>1, <1>3, <1>4, <2>0, <2>1, <2>3 DEF WellFormed
  <2> QED BY <1>2, <1>3, <1>4, <2>0, <2>1, <2>3, <2>4, <2>5 DEF l
<1>5. CASE ~nd.leaf
  <2>1. C \in Seq(1..N) /\ Len(C) = B /\ \A i \in 1..B : C[i] = nd.children[i]
    <3>1. B <= Len(nd.children)
      BY <1>1, <1>2, <1>5
    <3> QED BY <1>1, <1>2, <3>1, PrefixFacts
  <2>0. b = B - 1
    BY <1>5
  <2>2. l = [nd EXCEPT !.keys = K, !.children = C]
    BY <1>5 DEF SplitLeft
  <2> HIDE DEF l, K, V, C, b
  <2>3. /\ l.leaf = nd.leaf /\ l.isRoot = nd.isRoot /\ l.parent = nd.parent
        /\ l.keys = K /\ l.values = nd.values /\ l.children = C
        /\ l = [leaf |-> nd.leaf, keys |-> K, values |-> nd.values, children |-> C,
                isRoot |-> nd.isRoot, parent |-> nd.parent]
    BY <2>2 DEF Node
  <2>4. l \in Node(N)
    BY <1>1, <1>3, <2>1, <2>3 DEF Node
  <2>5. WellFormed(l)
    BY <1>1, <1>2, <1>3, <1>5, <2>0, <2>1, <2>3 DEF WellFormed
  <2> QED BY <1>2, <1>3, <1>5, <2>0, <2>1, <2>3, <2>4, <2>5 DEF l
<1> QED BY <1>1, <1>4, <1>5

(***************************************************************************)
(* A separator and the child at its right put into an internal node, ...   *)
(***************************************************************************)
MayLink(N, nd, p, sep, c, n) ==
    /\ N \in Nat
    /\ nd \in Node(N)
    /\ WellFormed(nd)
    /\ ~nd.leaf
    /\ p \in 1..(Len(nd.keys) + 1)
    /\ sep \in Key
    /\ c \in 1..N
    /\ n = LinkAt(nd, p, sep, c)

(***************************************************************************)
(* ... and the node that gives.                                            *)
(***************************************************************************)
HasLinked(N, nd, p, sep, c, n) ==
    /\ n \in Node(N) /\ WellFormed(n)
    /\ n.leaf = FALSE /\ n.isRoot = nd.isRoot /\ n.parent = nd.parent
    /\ n.keys = InsertAt(nd.keys, p, sep) /\ Len(n.keys) = Len(nd.keys) + 1
    /\ n.children = InsertAt(nd.children, p + 1, c)
    /\ Len(n.children) = Len(nd.keys) + 2
    /\ \A i \in 1..(p - 1) : n.keys[i] = nd.keys[i]
    /\ n.keys[p] = sep
    /\ \A i \in (p + 1)..(Len(nd.keys) + 1) : n.keys[i] = nd.keys[i - 1]
    /\ \A i \in 1..p : n.children[i] = nd.children[i]
    /\ n.children[p + 1] = c
    /\ \A i \in (p + 2)..(Len(nd.keys) + 2) : n.children[i] = nd.children[i - 1]

(***************************************************************************)
(* LinkAt keeps a node well formed.                                        *)
(***************************************************************************)
LEMMA LinkFacts ==
    ASSUME NEW N, NEW nd, NEW p, NEW sep, NEW c, NEW n, MayLink(N, nd, p, sep, c, n)
    PROVE  HasLinked(N, nd, p, sep, c, n)
<1>0. /\ N \in Nat
      /\ nd \in Node(N)
      /\ WellFormed(nd)
      /\ ~nd.leaf
      /\ p \in 1..(Len(nd.keys) + 1)
      /\ sep \in Key
      /\ c \in 1..N
      /\ n = LinkAt(nd, p, sep, c)
  BY DEF MayLink
<1> DEFINE K == InsertAt(nd.keys, p, sep)
           C == InsertAt(nd.children, p + 1, c)
<1>1. /\ nd.leaf \in BOOLEAN /\ nd.isRoot \in BOOLEAN
      /\ nd.keys \in Seq(Key) /\ nd.values \in Seq(Value) /\ nd.children \in Seq(1..N)
      /\ Len(nd.keys) \in Nat /\ nd.parent \in 0..N
      /\ Len(nd.values) = 0 /\ Len(nd.children) = Len(nd.keys) + 1
  BY <1>0, NodeFields
<1>2. /\ K \in Seq(Key) /\ Len(K) = Len(nd.keys) + 1
      /\ \A i \in 1..(p - 1) : K[i] = nd.keys[i]
      /\ K[p] = sep
      /\ \A i \in (p + 1)..(Len(nd.keys) + 1) : K[i] = nd.keys[i - 1]
  <2>1. /\ nd.keys \in Seq(Key) /\ Len(nd.keys) = Len(nd.keys) /\ sep \in Key
        /\ p \in Nat /\ 1 <= p /\ p <= Len(nd.keys) + 1
    BY <1>0, <1>1
  <2>2. HasInserted(Key, nd.keys, p, sep, K)
    BY <2>1, InsertFacts
  <2> HIDE DEF K
  <2> QED BY <2>1, <2>2 DEF HasInserted
<1>3. /\ C \in Seq(1..N) /\ Len(C) = Len(nd.keys) + 2
      /\ \A i \in 1..p : C[i] = nd.children[i]
      /\ C[p + 1] = c
      /\ \A i \in (p + 2)..(Len(nd.keys) + 2) : C[i] = nd.children[i - 1]
  <2>1. /\ nd.children \in Seq(1..N) /\ Len(nd.children) = Len(nd.keys) + 1 /\ c \in 1..N
        /\ p \in Nat /\ Len(nd.keys) \in Nat
        /\ p + 1 \in Nat /\ 1 <= p + 1 /\ p + 1 <= Len(nd.children) + 1
        /\ (p + 1) - 1 = p /\ (p + 1) + 1 = p + 2
    BY <1>0, <1>1
  <2>2. HasInserted(1..N, nd.children, p + 1, c, C)
    BY <2>1, InsertFacts
  <2> HIDE DEF C
  <2> QED BY <2>1, <2>2 DEF HasInserted
<1>4. n = [nd EXCEPT !.keys = K, !.children = C]
  BY <1>0 DEF LinkAt
<1> HIDE DEF K, C
<1>5. /\ n.leaf = nd.leaf /\ n.isRoot = nd.isRoot /\ n.parent = nd.parent
      /\ n.keys = K /\ n.values = nd.values /\ n.children = C
      /\ n = [leaf |-> nd.leaf, keys |-> K, values |-> nd.values, children |-> C,
              isRoot |-> nd.isRoot, parent |-> nd.parent]
  BY <1>0, <1>4 DEF Node
<1>6. n \in Node(N)
  BY <1>0, <1>1, <1>2, <1>3, <1>5 DEF Node
<1>7. WellFormed(n)
  <2>1. Len(n.children) = Len(n.keys) + 1
    <3>1. Len(C) = Len(nd.keys) + 2 /\ Len(K) = Len(nd.keys) + 1 /\ Len(nd.keys) \in Nat
      BY <1>0, <1>1, <1>2, <1>3
    <3> QED BY <1>0, <1>5, <3>1
  <2>2. Len(n.values) = 0 /\ n.leaf = FALSE
    <3>1. Len(nd.values) = 0 /\ nd.leaf = FALSE
      BY <1>0, <1>1
    <3> QED BY <1>5, <3>1
  <2> QED BY <2>1, <2>2 DEF WellFormed
<1>8. n.leaf = FALSE /\ Len(n.keys) = Len(nd.keys) + 1 /\ Len(n.children) = Len(nd.keys) + 2
  <2>1. nd.leaf = FALSE
    BY <1>0, <1>1
  <2> QED BY <1>2, <1>3, <1>5, <2>1
<1>9. K = InsertAt(nd.keys, p, sep) /\ C = InsertAt(nd.children, p + 1, c)
  BY DEF K, C
<1> QED BY <1>2, <1>3, <1>5, <1>6, <1>7, <1>8, <1>9 DEF HasLinked

(***************************************************************************)
(* A pair inserted into a leaf, ...                                        *)
(***************************************************************************)
MayPut(N, nd, p, k, v, n) ==
    /\ N \in Nat
    /\ nd \in Node(N)
    /\ WellFormed(nd)
    /\ nd.leaf
    /\ p \in 1..(Len(nd.keys) + 1)
    /\ k \in Key
    /\ v \in Value
    /\ n = PutAt(nd, p, k, v)

(***************************************************************************)
(* ... and the leaf that gives.                                            *)
(***************************************************************************)
HasPut(N, nd, p, k, v, n) ==
    /\ n \in Node(N) /\ WellFormed(n)
    /\ n.leaf = TRUE /\ n.isRoot = nd.isRoot /\ n.parent = nd.parent
    /\ n.keys = InsertAt(nd.keys, p, k) /\ n.values = InsertAt(nd.values, p, v)
    /\ n.children = nd.children /\ Len(n.keys) = Len(nd.keys) + 1
    /\ \A i \in 1..(p - 1) : n.keys[i] = nd.keys[i] /\ n.values[i] = nd.values[i]
    /\ n.keys[p] = k /\ n.values[p] = v
    /\ \A i \in (p + 1)..(Len(nd.keys) + 1) :
          n.keys[i] = nd.keys[i - 1] /\ n.values[i] = nd.values[i - 1]

(***************************************************************************)
(* PutAt keeps a leaf well formed.                                         *)
(***************************************************************************)
LEMMA PutFacts ==
    ASSUME NEW N, NEW nd, NEW p, NEW k, NEW v, NEW n, MayPut(N, nd, p, k, v, n)
    PROVE  HasPut(N, nd, p, k, v, n)
<1>0. /\ N \in Nat
      /\ nd \in Node(N)
      /\ WellFormed(nd)
      /\ nd.leaf
      /\ p \in 1..(Len(nd.keys) + 1)
      /\ k \in Key
      /\ v \in Value
      /\ n = PutAt(nd, p, k, v)
  BY DEF MayPut
<1> DEFINE K == InsertAt(nd.keys, p, k)
           V == InsertAt(nd.values, p, v)
<1>1. /\ nd.leaf \in BOOLEAN /\ nd.isRoot \in BOOLEAN
      /\ nd.keys \in Seq(Key) /\ nd.values \in Seq(Value) /\ nd.children \in Seq(1..N)
      /\ Len(nd.keys) \in Nat /\ nd.parent \in 0..N
      /\ Len(nd.values) = Len(nd.keys) /\ Len(nd.children) = 0
  BY <1>0, NodeFields
<1>2. /\ K \in Seq(Key) /\ Len(K) = Len(nd.keys) + 1
      /\ \A i \in 1..(p - 1) : K[i] = nd.keys[i]
      /\ K[p] = k
      /\ \A i \in (p + 1)..(Len(nd.keys) + 1) : K[i] = nd.keys[i - 1]
  <2>1. /\ nd.keys \in Seq(Key) /\ Len(nd.keys) = Len(nd.keys) /\ k \in Key
        /\ p \in Nat /\ 1 <= p /\ p <= Len(nd.keys) + 1
    BY <1>0, <1>1
  <2>2. HasInserted(Key, nd.keys, p, k, K)
    BY <2>1, InsertFacts
  <2> HIDE DEF K
  <2> QED BY <2>1, <2>2 DEF HasInserted
<1>3. /\ V \in Seq(Value) /\ Len(V) = Len(nd.keys) + 1
      /\ \A i \in 1..(p - 1) : V[i] = nd.values[i]
      /\ V[p] = v
      /\ \A i \in (p + 1)..(Len(nd.keys) + 1) : V[i] = nd.values[i - 1]
  <2>1. /\ nd.values \in Seq(Value) /\ Len(nd.values) = Len(nd.keys) /\ v \in Value
        /\ p \in Nat /\ 1 <= p /\ p <= Len(nd.values) + 1
    BY <1>0, <1>1
  <2>2. HasInserted(Value, nd.values, p, v, V)
    BY <2>1, InsertFacts
  <2> HIDE DEF V
  <2> QED BY <2>1, <2>2 DEF HasInserted
<1>4. n = [nd EXCEPT !.keys = K, !.values = V]
  BY <1>0 DEF PutAt
<1> HIDE DEF K, V
<1>5. /\ n.leaf = nd.leaf /\ n.isRoot = nd.isRoot /\ n.parent = nd.parent
      /\ n.keys = K /\ n.values = V /\ n.children = nd.children
      /\ n = [leaf |-> nd.leaf, keys |-> K, values |-> V, children |-> nd.children,
              isRoot |-> nd.isRoot, parent |-> nd.parent]
  BY <1>0, <1>4 DEF Node
<1>6. n \in Node(N)
  BY <1>0, <1>1, <1>2, <1>3, <1>5 DEF Node
<1>7. WellFormed(n)
  BY <1>0, <1>1, <1>2, <1>3, <1>5 DEF WellFormed
<1> QED BY <1>0, <1>2, <1>3, <1>5, <1>6, <1>7 DEF K, V, HasPut

(***************************************************************************)
(* The value of a pair replaced, ...                                       *)
(***************************************************************************)
MayOverwrite(N, nd, p, v, n) ==
    /\ N \in Nat
    /\ nd \in Node(N)
    /\ WellFormed(nd)
    /\ nd.leaf
    /\ p \in 1..Len(nd.keys)
    /\ v \in Value
    /\ n = OverwriteAt(nd, p, v)

(***************************************************************************)
(* ... and the leaf that gives.                                            *)
(***************************************************************************)
HasOverwritten(N, nd, p, v, n) ==
    /\ n \in Node(N) /\ WellFormed(n)
    /\ n.leaf = TRUE /\ n.isRoot = nd.isRoot /\ n.parent = nd.parent
    /\ n.keys = nd.keys /\ n.children = nd.children
    /\ \A i \in 1..Len(nd.keys) : n.values[i] = IF i = p THEN v ELSE nd.values[i]

(***************************************************************************)
(* OverwriteAt keeps a leaf well formed and its keys as they are.          *)
(***************************************************************************)
LEMMA OverwriteFacts ==
    ASSUME NEW N, NEW nd, NEW p, NEW v, NEW n, MayOverwrite(N, nd, p, v, n)
    PROVE  HasOverwritten(N, nd, p, v, n)
<1>0. /\ N \in Nat
      /\ nd \in Node(N)
      /\ WellFormed(nd)
      /\ nd.leaf
      /\ p \in 1..Len(nd.keys)
      /\ v \in Value
      /\ n = OverwriteAt(nd, p, v)
  BY DEF MayOverwrite
<1> DEFINE V == [nd.values EXCEPT ![p] = v]
<1>1. /\ nd.leaf \in BOOLEAN /\ nd.isRoot \in BOOLEAN
      /\ nd.keys \in Seq(Key) /\ nd.values \in Seq(Value) /\ nd.children \in Seq(1..N)
      /\ Len(nd.keys) \in Nat /\ nd.parent \in 0..N
      /\ Len(nd.values) = Len(nd.keys) /\ Len(nd.children) = 0
  BY <1>0, NodeFields
<1>2. /\ V \in Seq(Value) /\ Len(V) = Len(nd.keys)
      /\ \A i \in 1..Len(nd.keys) : V[i] = IF i = p THEN v ELSE nd.values[i]
  BY <1>0, <1>1
<1>4. n = [nd EXCEPT !.values = V]
  BY <1>0 DEF OverwriteAt, Node
<1> HIDE DEF V
<1>5. /\ n.leaf = nd.leaf /\ n.isRoot = nd.isRoot /\ n.parent = nd.parent
      /\ n.keys = nd.keys /\ n.values = V /\ n.children = nd.children
      /\ n = [leaf |-> nd.leaf, keys |-> nd.keys, values |-> V, children |-> nd.children,
              isRoot |-> nd.isRoot, parent |-> nd.parent]
  BY <1>0, <1>4 DEF Node
<1>6. n \in Node(N)
  BY <1>0, <1>1, <1>2, <1>5 DEF Node
<1>7. WellFormed(n)
  BY <1>0, <1>1, <1>2, <1>5 DEF WellFormed
<1> QED BY <1>0, <1>2, <1>5, <1>6, <1>7 DEF HasOverwritten

-----------------------------------------------------------------------------
(* The file, its levels, and search. *)

(***************************************************************************)
(* A file of well-formed nodes whose offsets all name nodes of the file.   *)
(***************************************************************************)
Stored(file) ==
    /\ file \in Seq(Node(Len(file)))
    /\ \A n \in 1..Len(file) : WellFormed(file[n])

(***************************************************************************)
(* lev gives every node its height: 0 for a leaf, one more than each of    *)
(* its children for an internal node. That there is such a function is     *)
(* what makes the tree as deep everywhere, and search end.                 *)
(***************************************************************************)
Leveled(file, lev) ==
    /\ lev \in [1..Len(file) -> Nat]
    /\ \A n \in 1..Len(file) :
          IF file[n].leaf THEN lev[n] = 0
          ELSE \A p \in 1..Len(file[n].children) : lev[file[n].children[p]] + 1 = lev[n]

(***************************************************************************)
(* The types of the fields of the nodes of a file.                         *)
(***************************************************************************)
LEMMA StoredFacts ==
    ASSUME NEW file, Stored(file)
    PROVE  /\ Len(file) \in Nat /\ DOMAIN file = 1..Len(file)
           /\ \A n \in 1..Len(file) :
                 /\ file[n] \in Node(Len(file)) /\ WellFormed(file[n])
                 /\ file[n].leaf \in BOOLEAN /\ file[n].isRoot \in BOOLEAN
                 /\ file[n].keys \in Seq(Key) /\ file[n].values \in Seq(Value)
                 /\ file[n].children \in Seq(1..Len(file))
                 /\ Len(file[n].keys) \in Nat /\ Len(file[n].children) \in Nat
                 /\ DOMAIN file[n].children = 1..Len(file[n].children)
                 /\ file[n].parent \in 0..Len(file)
                 /\ file[n].leaf => Len(file[n].values) = Len(file[n].keys)
                                    /\ Len(file[n].children) = 0
                 /\ ~file[n].leaf => Len(file[n].values) = 0
                                     /\ Len(file[n].children) = Len(file[n].keys) + 1
                 /\ \A p \in 1..Len(file[n].children) : file[n].children[p] \in 1..Len(file)
                 /\ \A p \in 1..Len(file[n].keys) : file[n].keys[p] \in Key
<1>1. Len(file) \in Nat /\ DOMAIN file = 1..Len(file)
  BY DEF Stored
<1>2. ASSUME NEW n \in 1..Len(file) PROVE file[n] \in Node(Len(file)) /\ WellFormed(file[n])
  <2> DEFINE T == Node(Len(file))
  <2>1. file \in Seq(T)
    BY DEF Stored
  <2> HIDE DEF T
  <2>2. file[n] \in T
    BY <2>1
  <2> QED BY <2>2 DEF T, Stored
<1>3. ASSUME NEW n \in 1..Len(file)
      PROVE  /\ file[n].leaf \in BOOLEAN /\ file[n].isRoot \in BOOLEAN
             /\ file[n].keys \in Seq(Key) /\ file[n].values \in Seq(Value)
             /\ file[n].children \in Seq(1..Len(file))
             /\ Len(file[n].keys) \in Nat /\ file[n].parent \in 0..Len(file)
             /\ file[n].leaf => Len(file[n].values) = Len(file[n].keys)
                                /\ Len(file[n].children) = 0
             /\ ~file[n].leaf => Len(file[n].values) = 0
                                 /\ Len(file[n].children) = Len(file[n].keys) + 1
             /\ \A p \in 1..Len(file[n].children) : file[n].children[p] \in 1..Len(file)
             /\ \A p \in 1..Len(file[n].keys) : file[n].keys[p] \in Key
  <2> DEFINE nd == file[n]
             N == Len(file)
  <2>1. N \in Nat /\ nd \in Node(N) /\ WellFormed(nd)
    BY <1>1, <1>2
  <2> HIDE DEF nd, N
  <2>2. /\ nd.leaf \in BOOLEAN /\ nd.isRoot \in BOOLEAN
        /\ nd.keys \in Seq(Key) /\ nd.values \in Seq(Value) /\ nd.children \in Seq(1..N)
        /\ Len(nd.keys) \in Nat /\ nd.parent \in 0..N
        /\ nd.leaf => Len(nd.values) = Len(nd.keys) /\ Len(nd.children) = 0
        /\ ~nd.leaf => Len(nd.values) = 0 /\ Len(nd.children) = Len(nd.keys) + 1
        /\ \A p \in 1..Len(nd.children) : nd.children[p] \in 1..N
        /\ \A p \in 1..Len(nd.keys) : nd.keys[p] \in Key
    BY <2>1, NodeFields
  <2> QED BY <2>2 DEF nd, N
<1>4. ASSUME NEW n \in 1..Len(file)
      PROVE Len(file[n].children) \in Nat /\ DOMAIN file[n].children = 1..Len(file[n].children)
  <2>1. file[n].children \in Seq(1..Len(file))
    BY <1>3
  <2> QED BY <2>1
<1> QED BY <1>1, <1>2, <1>3, <1>4

(***************************************************************************)
(* A set-valued equation along any relation on a set has a solution,       *)
(* whether or not the relation has cycles: what makes the recursive        *)
(* function of LeavesIn defined in every file.                             *)
(***************************************************************************)
LEMMA Closure ==
    ASSUME NEW D, NEW base \in [D -> SUBSET D], NEW succ \in [D -> SUBSET D]
    PROVE  \E f \in [D -> SUBSET D] : \A n \in D : f[n] = base[n] \cup UNION {f[c] : c \in succ[n]}
<1> DEFINE Closed(X) == \A n \in D : base[n] \subseteq X[n] /\ \A c \in succ[n] : X[c] \subseteq X[n]
           f == [n \in D |-> {v \in D : \A X \in [D -> SUBSET D] : Closed(X) => v \in X[n]}]
           g == [n \in D |-> base[n] \cup UNION {f[c] : c \in succ[n]}]
<1>1. f \in [D -> SUBSET D]
  OBVIOUS
<1>2. Closed(f)
  <2>1. ASSUME NEW n \in D PROVE base[n] \subseteq f[n]
    <3> SUFFICES ASSUME NEW v \in base[n] PROVE v \in f[n]
      OBVIOUS
    <3>1. v \in D
      OBVIOUS
    <3> QED BY <3>1
  <2>2. ASSUME NEW n \in D, NEW c \in succ[n] PROVE f[c] \subseteq f[n]
    <3> SUFFICES ASSUME NEW v \in f[c] PROVE v \in f[n]
      OBVIOUS
    <3>1. c \in D
      OBVIOUS
    <3>2. v \in D /\ \A X \in [D -> SUBSET D] : Closed(X) => v \in X[c]
      BY <3>1
    <3>3. \A X \in [D -> SUBSET D] : Closed(X) => v \in X[n]
      BY <3>2
    <3> QED BY <3>2, <3>3
  <2> QED BY <2>1, <2>2
<1>3. \A X \in [D -> SUBSET D] : Closed(X) => \A n \in D : f[n] \subseteq X[n]
  OBVIOUS
<1>4. g \in [D -> SUBSET D]
  <2> HIDE DEF f
  <2>1. ASSUME NEW n \in D PROVE base[n] \cup UNION {f[c] : c \in succ[n]} \subseteq D
    <3>1. \A c \in succ[n] : f[c] \subseteq D
      BY <1>1
    <3>2. base[n] \subseteq D
      OBVIOUS
    <3> QED BY <3>1, <3>2
  <2> QED BY <2>1
<1>5. \A n \in D : g[n] \subseteq f[n]
  <2> HIDE DEF f
  <2> QED BY <1>2
<1>6. Closed(g)
  <2> HIDE DEF f
  <2>1. ASSUME NEW n \in D PROVE base[n] \subseteq g[n]
    OBVIOUS
  <2>2. ASSUME NEW n \in D, NEW c \in succ[n] PROVE g[c] \subseteq g[n]
    <3>1. c \in D /\ f[c] \subseteq g[n]
      OBVIOUS
    <3> QED BY <1>5, <3>1
  <2> QED BY <2>1, <2>2
<1>7. \A n \in D : f[n] = g[n]
  <2> HIDE DEF f, g, Closed
  <2> QED BY <1>3, <1>4, <1>5, <1>6
<1>8. \A n \in D : f[n] = base[n] \cup UNION {f[c] : c \in succ[n]}
  <2> HIDE DEF f
  <2> QED BY <1>7
<1> HIDE DEF f
<1> QED BY <1>1, <1>8

(***************************************************************************)
(* Binary search returns a position in the sequence or one past it.        *)
(***************************************************************************)
LEMMA PositionsIn ==
    ASSUME NEW keys, NEW key, Len(keys) \in Nat
    PROVE  Positions(keys, key) \subseteq 1..(Len(keys) + 1)
  BY DEF Positions, Hits, Gaps

(***************************************************************************)
(* The children a search for key may go on with at each node, ...          *)
(***************************************************************************)
Ways(file, key) ==
    [n \in 1..Len(file) |-> IF file[n].leaf THEN {}
                            ELSE {file[n].children[p] : p \in Positions(file[n].keys, key)}]

(***************************************************************************)
(* ... and where it stops.                                                 *)
(***************************************************************************)
Ends(file) == [n \in 1..Len(file) |-> IF file[n].leaf THEN {n} ELSE {}]

(***************************************************************************)
(* Both are sets of nodes of the file.                                     *)
(***************************************************************************)
LEMMA WaysTyped ==
    ASSUME NEW file, Stored(file), NEW key
    PROVE  /\ Ways(file, key) \in [1..Len(file) -> SUBSET (1..Len(file))]
           /\ Ends(file) \in [1..Len(file) -> SUBSET (1..Len(file))]
<1>1. ASSUME NEW n \in 1..Len(file), ~file[n].leaf, NEW p \in Positions(file[n].keys, key)
      PROVE  file[n].children[p] \in 1..Len(file)
  <2>1. Len(file[n].keys) \in Nat /\ Len(file[n].children) = Len(file[n].keys) + 1
        /\ \A q \in 1..Len(file[n].children) : file[n].children[q] \in 1..Len(file)
    BY <1>1, StoredFacts
  <2> QED BY <2>1, PositionsIn
<1> QED BY <1>1 DEF Ways, Ends

(***************************************************************************)
(* A child on the way is a node of the file, one level below.              *)
(***************************************************************************)
LEMMA WayDown ==
    ASSUME NEW file, Stored(file), NEW lev, Leveled(file, lev), NEW n \in 1..Len(file), ~file[n].leaf,
           NEW p \in 1..(Len(file[n].keys) + 1)
    PROVE  /\ p \in 1..Len(file[n].children) /\ file[n].children[p] \in 1..Len(file)
           /\ lev[file[n].children[p]] + 1 = lev[n]
           /\ lev[file[n].children[p]] \in Nat /\ lev[n] \in Nat
           /\ lev[file[n].children[p]] < lev[n]
<1> DEFINE c == file[n].children[p]
<1>1. Len(file[n].keys) \in Nat /\ Len(file[n].children) = Len(file[n].keys) + 1
      /\ \A q \in 1..Len(file[n].children) : file[n].children[q] \in 1..Len(file)
  BY StoredFacts
<1>2. p \in 1..Len(file[n].children) /\ c \in 1..Len(file)
  BY <1>1
<1>3. lev[c] + 1 = lev[n]
  BY <1>2 DEF Leveled
<1> HIDE DEF c
<1>4. lev[c] \in Nat /\ lev[n] \in Nat
  BY <1>2 DEF Leveled
<1>5. lev[c] < lev[n]
  BY <1>3, <1>4
<1> QED BY <1>2, <1>3, <1>4, <1>5 DEF c

(***************************************************************************)
(* The leaves a search ends at, from a node: itself, or those from the     *)
(* children on the way. LeavesIn is the recursive function it is written   *)
(* as.                                                                     *)
(***************************************************************************)
LEMMA LeavesStep ==
    ASSUME NEW file, Stored(file), NEW key
    PROVE  /\ \A n \in 1..Len(file) :
                 LeavesIn(file, n, key) =
                     Ends(file)[n] \cup UNION {LeavesIn(file, c, key) : c \in Ways(file, key)[n]}
           /\ \A n \in 1..Len(file) :
                 LeavesIn(file, n, key) =
                     IF file[n].leaf THEN {n}
                     ELSE UNION {LeavesIn(file, file[n].children[p], key) :
                                    p \in Positions(file[n].keys, key)}
<1> DEFINE D == 1..Len(file)
           Body(g) == [n \in DOMAIN file |->
                          IF file[n].leaf THEN {n}
                          ELSE UNION {g[file[n].children[p]] : p \in Positions(file[n].keys, key)}]
           leaves == CHOOSE g : g = Body(g)
<1>1. DOMAIN file = D
  BY StoredFacts
<1>2. PICK f \in [D -> SUBSET D] :
          \A n \in D : f[n] = Ends(file)[n] \cup UNION {f[c] : c \in Ways(file, key)[n]}
  <2>1. Ends(file) \in [D -> SUBSET D] /\ Ways(file, key) \in [D -> SUBSET D]
    BY WaysTyped
  <2> DEFINE b == Ends(file)
             s == Ways(file, key)
  <2>2. b \in [D -> SUBSET D] /\ s \in [D -> SUBSET D]
    BY <2>1
  <2> HIDE DEF D, b, s
  <2>3. \E f \in [D -> SUBSET D] : \A n \in D : f[n] = b[n] \cup UNION {f[c] : c \in s[n]}
    BY <2>2, Closure
  <2> QED BY <2>3 DEF b, s
<1>4. f = Body(f)
  <2> DEFINE k == Body(f)
  <2>1. ASSUME NEW n \in D PROVE f[n] = k[n]
    <3>1. f[n] = IF file[n].leaf THEN {n}
                 ELSE UNION {f[file[n].children[p]] : p \in Positions(file[n].keys, key)}
      <4>1. CASE file[n].leaf
        BY <1>2, <4>1 DEF Ends, Ways
      <4>2. CASE ~file[n].leaf
        <5>1. Ends(file)[n] = {}
              /\ Ways(file, key)[n] = {file[n].children[p] : p \in Positions(file[n].keys, key)}
          BY <4>2 DEF Ends, Ways
        <5>2. {f[c] : c \in Ways(file, key)[n]}
              = {f[file[n].children[p]] : p \in Positions(file[n].keys, key)}
          BY <5>1
        <5> QED BY <1>2, <4>2, <5>1, <5>2
      <4> QED BY <4>1, <4>2
    <3> QED BY <1>1, <3>1, Zenon
  <2>2. f = [n \in D |-> f[n]] /\ k = [n \in D |-> k[n]]
    BY <1>1
  <2> HIDE DEF k, D
  <2>3. f = k
    BY <2>1, <2>2
  <2> QED BY <2>3 DEF k
<1>5. leaves = Body(leaves)
  <2> HIDE DEF Body
  <2> QED BY <1>4
<1> HIDE DEF leaves
<1>6. ASSUME NEW n \in D
      PROVE  leaves[n] = IF file[n].leaf THEN {n}
                         ELSE UNION {leaves[file[n].children[p]] : p \in Positions(file[n].keys, key)}
  BY <1>1, <1>5, <1>6
<1>7. \A n : LeavesIn(file, n, key) = leaves[n]
  BY DEF LeavesIn, leaves
<1>8. ASSUME NEW n \in D
      PROVE  LeavesIn(file, n, key) =
                     IF file[n].leaf THEN {n}
                     ELSE UNION {LeavesIn(file, file[n].children[p], key) :
                                    p \in Positions(file[n].keys, key)}
  BY <1>6 DEF LeavesIn, leaves
<1>9. ASSUME NEW n \in D
      PROVE  leaves[n] = Ends(file)[n] \cup UNION {leaves[c] : c \in Ways(file, key)[n]}
  <2>1. CASE file[n].leaf
    BY <1>6, <2>1 DEF Ends, Ways
  <2>2. CASE ~file[n].leaf
    <3>1. Ends(file)[n] = {}
          /\ Ways(file, key)[n] = {file[n].children[p] : p \in Positions(file[n].keys, key)}
      BY <2>2 DEF Ends, Ways
    <3>2. {leaves[c] : c \in Ways(file, key)[n]}
          = {leaves[file[n].children[p]] : p \in Positions(file[n].keys, key)}
      BY <3>1
    <3> QED BY <1>6, <2>2, <3>1, <3>2
  <2> QED BY <2>1, <2>2
<1>10. ASSUME NEW n \in D
      PROVE  LeavesIn(file, n, key) =
                     Ends(file)[n] \cup UNION {LeavesIn(file, c, key) : c \in Ways(file, key)[n]}
  BY <1>9 DEF LeavesIn, leaves
<1> QED BY <1>8, <1>10
-----------------------------------------------------------------------------
(* What a search answers. *)

(***************************************************************************)
(* What a search that starts at node n finds.                              *)
(***************************************************************************)
Answers(file, n, key) == UNION {LeafAnswers(file[m], key) : m \in LeavesIn(file, n, key)}

(***************************************************************************)
(* ... one node at a time.                                                 *)
(***************************************************************************)
LEMMA AnswersStep ==
    ASSUME NEW file, Stored(file), NEW key, NEW n \in 1..Len(file)
    PROVE  /\ file[n].leaf => Answers(file, n, key) = LeafAnswers(file[n], key)
           /\ ~file[n].leaf => Answers(file, n, key) =
                  UNION {Answers(file, file[n].children[p], key) : p \in Positions(file[n].keys, key)}
<1>1. CASE file[n].leaf
  <2>1. LeavesIn(file, n, key) = {n}
    BY <1>1, LeavesStep
  <2> QED BY <1>1, <2>1 DEF Answers
<1>2. CASE ~file[n].leaf
  <2>1. LeavesIn(file, n, key) = UNION {LeavesIn(file, file[n].children[p], key) :
                                           p \in Positions(file[n].keys, key)}
    BY <1>2, LeavesStep
  <2>2. ASSUME NEW v PROVE v \in Answers(file, n, key) <=>
            \E p \in Positions(file[n].keys, key) : v \in Answers(file, file[n].children[p], key)
    BY <2>1 DEF Answers
  <2> QED BY <1>2, <2>2
<1> QED BY <1>1, <1>2

(***************************************************************************)
(* A search ends at leaves of the file.                                    *)
(***************************************************************************)
LEMMA LeavesTyped ==
    ASSUME NEW file, Stored(file), NEW lev, Leveled(file, lev), NEW key
    PROVE  \A n \in 1..Len(file) : \A m \in LeavesIn(file, n, key) : m \in 1..Len(file) /\ file[m].leaf
<1> DEFINE T == {m \in 1..Len(file) : file[m].leaf}
           S == {i \in Nat : \A n \in 1..Len(file) : lev[n] < i => LeavesIn(file, n, key) \subseteq T}
<1>0. \A n \in 1..Len(file) : lev[n] \in Nat
  BY DEF Leveled
<1>1. 0 \in S
  BY <1>0
<1>2. ASSUME NEW i \in S PROVE i + 1 \in S
  <2>0. i \in Nat /\ \A n \in 1..Len(file) : lev[n] < i => LeavesIn(file, n, key) \subseteq T
    <3> HIDE DEF T
    <3> QED BY <1>2
  <2>1. ASSUME NEW n \in 1..Len(file), lev[n] < i + 1 PROVE LeavesIn(file, n, key) \subseteq T
    <3> HIDE DEF S
    <3>1. CASE file[n].leaf
      <4>1. LeavesIn(file, n, key) = {n}
        <5> HIDE DEF T
        <5> QED BY <3>1, LeavesStep
      <4> QED BY <3>1, <4>1
    <3>2. CASE ~file[n].leaf
      <4>1. ASSUME NEW p \in Positions(file[n].keys, key)
            PROVE  LeavesIn(file, file[n].children[p], key) \subseteq T
        <5> DEFINE c == file[n].children[p]
        <5>1. p \in 1..(Len(file[n].keys) + 1)
          BY StoredFacts, PositionsIn
        <5>2. c \in 1..Len(file) /\ lev[c] \in Nat /\ lev[n] \in Nat /\ lev[c] + 1 = lev[n]
          BY <3>2, <5>1, WayDown
        <5> HIDE DEF c, T
        <5>4. i \in Nat /\ lev[c] < i
          BY <2>0, <2>1, <5>2
        <5>5. LeavesIn(file, c, key) \subseteq T
          BY <2>0, <5>2, <5>4
        <5> QED BY <5>5 DEF c
      <4>2. LeavesIn(file, n, key) = UNION {LeavesIn(file, file[n].children[p], key) :
                                               p \in Positions(file[n].keys, key)}
        <5> HIDE DEF T
        <5> QED BY <3>2, LeavesStep
      <4> HIDE DEF T
      <4> QED BY <4>1, <4>2
    <3> QED BY <3>1, <3>2
  <2> HIDE DEF T
  <2> QED BY <2>0, <2>1
<1>3. S = Nat
  <2>1. S \in SUBSET Nat
    OBVIOUS
  <2> HIDE DEF S
  <2> QED BY <1>1, <1>2, <2>1, NatSetInduction
<1>4. ASSUME NEW n \in 1..Len(file) PROVE LeavesIn(file, n, key) \subseteq T
  <2>1. lev[n] + 1 \in S /\ lev[n] < lev[n] + 1
    <3> HIDE DEF S
    <3> QED BY <1>0, <1>3
  <2> QED BY <2>1
<1> QED BY <1>4

(***************************************************************************)
(* Keys strictly ascend.                                                   *)
(***************************************************************************)
Sorted(keys) == \A i, j \in 1..Len(keys) : i < j => keys[i] < keys[j]

(***************************************************************************)
(* Keys are numbers, so they are ordered.                                  *)
(***************************************************************************)
LEMMA KeyIsNumber == Key \subseteq Nat
  BY TreeAssumption

(***************************************************************************)
(* Binary search of sorted keys has one result: the key, or the gap it     *)
(* belongs in; ...                                                         *)
(***************************************************************************)
LEMMA NumberPosition ==
    ASSUME NEW keys \in Seq(Key), Sorted(keys), NEW k \in Nat
    PROVE  \E p \in 1..(Len(keys) + 1) :
               /\ Positions(keys, k) = {p}
               /\ \/ p \in 1..Len(keys) /\ keys[p] = k /\ Hits(keys, k) = {p} /\ Gaps(keys, k) = {}
                  \/ Hits(keys, k) = {} /\ Gaps(keys, k) = {p}
<1> DEFINE L == Len(keys)
           S == {i \in 1..(L + 1) : i = L + 1 \/ k <= keys[i]}
<1>1. L \in Nat /\ (\A i \in 1..L : keys[i] \in Nat) /\ k \in Nat
  <2>1. L \in Nat /\ \A i \in 1..L : keys[i] \in Key
    OBVIOUS
  <2> QED BY <2>1, KeyIsNumber
<1>2. \A i, j \in 1..L : i < j => keys[i] < keys[j]
  BY DEF Sorted
<1>3. S \in SUBSET Nat /\ L + 1 \in S
  BY <1>1
<1>4. PICK p \in S : \A q \in S : p <= q
  <2> HIDE DEF S
  <2> QED BY <1>3, LeastNumber
<1> HIDE DEF L
<1>5. p \in 1..(L + 1) /\ (p = L + 1 \/ k <= keys[p])
  BY <1>1
<1>6. \A i \in 1..L : i < p => keys[i] < k
  <2> TAKE i \in 1..L
  <2> SUFFICES ASSUME i < p PROVE keys[i] < k
    OBVIOUS
  <2>1. i \in Nat /\ p \in Nat /\ keys[i] \in Nat /\ i \in 1..(L + 1)
    BY <1>1, <1>5
  <2>2. i \notin S
    BY <1>4, <2>1
  <2>3. ~(k <= keys[i])
    BY <2>1, <2>2
  <2> QED BY <1>1, <2>1, <2>3
<1> HIDE DEF S
<1>7. \A i \in 1..L : p < i => k < keys[i]
  <2> TAKE i \in 1..L
  <2> SUFFICES ASSUME p < i PROVE k < keys[i]
    OBVIOUS
  <2>1. p \in 1..L /\ k <= keys[p] /\ keys[p] < keys[i] /\ keys[p] \in Nat /\ keys[i] \in Nat
    BY <1>1, <1>2, <1>5
  <2> QED BY <1>1, <2>1
<1>8. ASSUME NEW q \in Gaps(keys, k) PROVE q = p
  <2>1. /\ q \in 1..(L + 1)
        /\ q = 1 \/ keys[q - 1] < k
        /\ q = L + 1 \/ k < keys[q]
    BY DEF Gaps, L
  <2>2. CASE q < p
    <3>1. q \in 1..L
      BY <1>1, <1>5, <2>1, <2>2
    <3>2. k < keys[q] /\ keys[q] < k /\ keys[q] \in Nat
      BY <1>1, <1>6, <2>1, <2>2, <3>1
    <3> QED BY <1>1, <3>2
  <2>3. CASE p < q
    <3>1. q - 1 \in 1..L /\ keys[q - 1] < k /\ p <= q - 1
      BY <1>1, <1>5, <2>1, <2>3
    <3>2. keys[q - 1] \in Nat /\ k <= keys[q - 1]
      <4>1. CASE p = q - 1
        BY <1>1, <1>5, <3>1, <4>1
      <4>2. CASE p # q - 1
        <5>1. p < q - 1
          BY <1>5, <2>1, <3>1, <4>2
        <5>2. k < keys[q - 1] /\ keys[q - 1] \in Nat
          BY <1>1, <1>7, <3>1, <5>1
        <5> QED BY <1>1, <5>2
      <4> QED BY <4>1, <4>2
    <3> QED BY <1>1, <3>1, <3>2
  <2> QED BY <1>5, <2>1, <2>2, <2>3
<1>9. CASE p \in 1..L /\ keys[p] = k
  <2>1. Hits(keys, k) = {p}
    <3>1. ASSUME NEW q \in 1..L, keys[q] = k PROVE q = p
      <4>1. ~(q < p) /\ ~(p < q)
        BY <1>1, <1>2, <1>9, <3>1
      <4> QED BY <1>9, <4>1
    <3> QED BY <1>9, <3>1 DEF Hits, L
  <2>2. Gaps(keys, k) = {}
    <3>1. ASSUME NEW q \in Gaps(keys, k) PROVE FALSE
      <4>1. q = p /\ (q = L + 1 \/ k < keys[q])
        BY <1>8, <3>1 DEF Gaps, L
      <4> QED BY <1>1, <1>9, <4>1
    <3> QED BY <3>1
  <2> QED BY <1>5, <1>9, <2>1, <2>2 DEF Positions, L
<1>10. CASE ~(p \in 1..L /\ keys[p] = k)
  <2>1. p = L + 1 \/ (p \in 1..L /\ k < keys[p])
    BY <1>1, <1>5, <1>10
  <2>2. Hits(keys, k) = {}
    <3>1. ASSUME NEW q \in 1..L, keys[q] = k PROVE FALSE
      <4>1. ~(q < p) /\ ~(p < q)
        BY <1>1, <1>6, <1>7, <3>1
      <4>2. q = p
        BY <1>1, <1>5, <4>1
      <4> QED BY <1>10, <3>1, <4>2
    <3> QED BY <3>1 DEF Hits, L
  <2>3. p \in Gaps(keys, k)
    <3>1. p = 1 \/ keys[p - 1] < k
      <4>1. ASSUME p # 1 PROVE p - 1 \in 1..L /\ p - 1 < p
        BY <1>1, <1>5, <4>1
      <4> QED BY <1>6, <4>1
    <3> QED BY <1>5, <2>1, <3>1 DEF Gaps, L
  <2>4. Gaps(keys, k) = {p}
    BY <1>8, <2>3
  <2> QED BY <1>5, <2>2, <2>4 DEF Positions, L
<1> QED BY <1>9, <1>10

(***************************************************************************)
(* ... in particular of a key.                                             *)
(***************************************************************************)
LEMMA OnePosition ==
    ASSUME NEW keys \in Seq(Key), Sorted(keys), NEW k \in Key
    PROVE  \E p \in 1..(Len(keys) + 1) :
               /\ Positions(keys, k) = {p}
               /\ \/ p \in 1..Len(keys) /\ keys[p] = k /\ Hits(keys, k) = {p} /\ Gaps(keys, k) = {}
                  \/ Hits(keys, k) = {} /\ Gaps(keys, k) = {p}
  BY KeyIsNumber, NumberPosition

(***************************************************************************)
(* ... past the end, for a key greater than all.                           *)
(***************************************************************************)
LEMMA LastPosition ==
    ASSUME NEW keys \in Seq(Key), Sorted(keys), NEW k \in Key,
           \A i \in 1..Len(keys) : keys[i] < k
    PROVE  Positions(keys, k) = {Len(keys) + 1} /\ Hits(keys, k) = {}
<1>1. Len(keys) \in Nat /\ (\A i \in 1..Len(keys) : keys[i] \in Nat) /\ k \in Nat
  <2>1. Len(keys) \in Nat /\ \A i \in 1..Len(keys) : keys[i] \in Key
    OBVIOUS
  <2> QED BY <2>1, KeyIsNumber
<1>2. PICK p \in 1..(Len(keys) + 1) :
          /\ Positions(keys, k) = {p}
          /\ \/ p \in 1..Len(keys) /\ keys[p] = k
             \/ Hits(keys, k) = {} /\ Gaps(keys, k) = {p}
  BY OnePosition
<1>3. ~(p \in 1..Len(keys) /\ keys[p] = k)
  BY <1>1
<1>4. p = Len(keys) + 1 \/ k < keys[p]
  BY <1>2, <1>3 DEF Gaps
<1>5. p = Len(keys) + 1
  BY <1>1, <1>4
<1> QED BY <1>2, <1>3, <1>5

-----------------------------------------------------------------------------
(* Stores over a node and at the end of the file. *)

(***************************************************************************)
(* A node stored over another of the file.                                 *)
(***************************************************************************)
LEMMA Replaced ==
    ASSUME NEW file, Stored(file), NEW n \in 1..Len(file), NEW nd \in Node(Len(file)), WellFormed(nd),
           NEW f, f = [file EXCEPT ![n] = nd]
    PROVE  /\ Stored(f) /\ Len(f) = Len(file) /\ f[n] = nd
           /\ \A m \in 1..Len(file) : m # n => f[m] = file[m]
<1> DEFINE T == Node(Len(file))
<1>1. file \in Seq(T) /\ Len(file) \in Nat /\ DOMAIN file = 1..Len(file)
  BY DEF Stored
<1>2. nd \in T
  OBVIOUS
<1>3. f \in Seq(T) /\ Len(f) = Len(file)
  <2> HIDE DEF T
  <2> QED BY <1>1, <1>2
<1>4. f[n] = nd /\ \A m \in 1..Len(file) : m # n => f[m] = file[m]
  <2> HIDE DEF T
  <2> QED BY <1>1
<1>5. \A m \in 1..Len(file) : WellFormed(file[m])
  BY DEF Stored
<1>6. \A m \in 1..Len(f) : WellFormed(f[m])
  <2> TAKE m \in 1..Len(f)
  <2>1. m \in 1..Len(file)
    BY <1>3
  <2>2. CASE m = n
    BY <1>4, <2>2
  <2>3. CASE m # n
    <3>1. f[m] = file[m]
      BY <1>4, <2>1, <2>3
    <3> QED BY <1>5, <2>1, <3>1
  <2> QED BY <2>2, <2>3
<1>7. Stored(f)
  BY <1>3, <1>6 DEF Stored, T
<1> QED BY <1>3, <1>4, <1>7

(***************************************************************************)
(* Levels remain when the node that replaces another has children one      *)
(* level below.                                                            *)
(***************************************************************************)
LEMMA ReplacedLevels ==
    ASSUME NEW file, Stored(file), NEW lev, Leveled(file, lev),
           NEW n \in 1..Len(file), NEW nd \in Node(Len(file)), WellFormed(nd),
           nd.leaf = file[n].leaf,
           ~nd.leaf => \A p \in 1..Len(nd.children) : lev[nd.children[p]] + 1 = lev[n],
           NEW f, f = [file EXCEPT ![n] = nd]
    PROVE  Leveled(f, lev)
<1>1. Len(f) = Len(file) /\ f[n] = nd /\ \A m \in 1..Len(file) : m # n => f[m] = file[m]
  BY Replaced
<1>2. lev \in [1..Len(file) -> Nat]
  BY DEF Leveled
<1>3. ASSUME NEW m \in 1..Len(f)
      PROVE  IF f[m].leaf THEN lev[m] = 0
             ELSE \A p \in 1..Len(f[m].children) : lev[f[m].children[p]] + 1 = lev[m]
  <2>1. m \in 1..Len(file)
    BY <1>1
  <2>2. CASE m = n
    BY <1>1, <2>1, <2>2 DEF Leveled
  <2>3. CASE m # n
    <3>1. f[m] = file[m]
      BY <1>1, <2>1, <2>3
    <3> QED BY <2>1, <3>1 DEF Leveled
  <2> QED BY <2>2, <2>3
<1>4. Leveled(f, lev)
  BY <1>1, <1>2, <1>3 DEF Leveled
<1> QED BY <1>4

(***************************************************************************)
(* A node stored at the end of the file.                                   *)
(***************************************************************************)
LEMMA Appended ==
    ASSUME NEW file, Stored(file), NEW nd \in Node(Len(file)), WellFormed(nd)
    PROVE  LET f == Append(file, nd) IN
           /\ Stored(f) /\ Len(f) = Len(file) + 1 /\ f[Len(file) + 1] = nd
           /\ \A m \in 1..Len(file) : f[m] = file[m]
<1> DEFINE f == Append(file, nd)
           T == Node(Len(file) + 1)
<1>0. Len(file) \in Nat /\ Len(file) + 1 \in Nat /\ Len(file) <= Len(file) + 1
  BY StoredFacts
<1>1. \A m \in 1..Len(file) : file[m] \in T /\ WellFormed(file[m])
  <2> TAKE m \in 1..Len(file)
  <2>1. file[m] \in Node(Len(file)) /\ WellFormed(file[m])
    BY StoredFacts
  <2> QED BY <1>0, <2>1, NodeGrows
<1>2. nd \in T
  BY <1>0, NodeGrows
<1>3. file \in Seq(T)
  <2>1. file \in Seq(Node(Len(file)))
    BY DEF Stored
  <2> HIDE DEF T
  <2>2. \A S : \A s \in Seq(S) : (\A m \in 1..Len(s) : s[m] \in T) => s \in Seq(T)
    OBVIOUS
  <2> QED BY <1>1, <2>1, <2>2
<1>4. f \in Seq(T) /\ Len(f) = Len(file) + 1 /\ f[Len(file) + 1] = nd
      /\ \A m \in 1..Len(file) : f[m] = file[m]
  <2> HIDE DEF T
  <2> QED BY <1>2, <1>3
<1> HIDE DEF f
<1>5. \A m \in 1..Len(f) : WellFormed(f[m])
  <2> TAKE m \in 1..Len(f)
  <2>1. m \in 1..Len(file) \/ m = Len(file) + 1
    BY <1>0, <1>4
  <2> QED BY <1>1, <1>4, <2>1
<1>6. Stored(f)
  BY <1>4, <1>5 DEF Stored, T
<1> QED BY <1>4, <1>6 DEF f

(***************************************************************************)
(* The levels of a file and of the node appended to it.                    *)
(***************************************************************************)
Grown(lev, len, x) == [n \in 1..(len + 1) |-> IF n = len + 1 THEN x ELSE lev[n]]

(***************************************************************************)
(* ... which are levels of the longer file.                                *)
(***************************************************************************)
LEMMA AppendedLevels ==
    ASSUME NEW file, Stored(file), NEW lev, Leveled(file, lev),
           NEW nd \in Node(Len(file)), WellFormed(nd), NEW x \in Nat,
           nd.leaf => x = 0,
           ~nd.leaf => \A p \in 1..Len(nd.children) : lev[nd.children[p]] + 1 = x
    PROVE  LET new == Grown(lev, Len(file), x) IN
           /\ Leveled(Append(file, nd), new)
           /\ new[Len(file) + 1] = x
           /\ \A m \in 1..Len(file) : new[m] = lev[m]
<1> DEFINE f == Append(file, nd)
           N == Len(file)
           new == Grown(lev, N, x)
<1>0. N \in Nat
  BY StoredFacts
<1>1. Len(f) = N + 1 /\ f[N + 1] = nd /\ \A m \in 1..N : f[m] = file[m]
  BY Appended
<1>2. lev \in [1..N -> Nat]
  BY DEF Leveled
<1>3. \A m \in 1..N : \A p \in 1..Len(file[m].children) : file[m].children[p] \in 1..N
  BY StoredFacts
<1>4. nd.leaf \in BOOLEAN /\ \A p \in 1..Len(nd.children) : nd.children[p] \in 1..N
  BY <1>0, NodeFields
<1> HIDE DEF f, N
<1>5. /\ new[N + 1] = x
      /\ \A m \in 1..N : new[m] = lev[m]
      /\ new \in [1..(N + 1) -> Nat]
  <2>1. \A m \in 1..(N + 1) : new[m] = IF m = N + 1 THEN x ELSE lev[m]
    BY DEF Grown
  <2>2. \A m \in 1..N : m # N + 1 /\ m \in 1..(N + 1)
    BY <1>0
  <2>3. \A m \in 1..(N + 1) : m # N + 1 => m \in 1..N
    BY <1>0
  <2>4. N + 1 \in 1..(N + 1)
    BY <1>0
  <2>5. new \in [1..(N + 1) -> Nat]
    <3>1. \A m \in 1..(N + 1) : (IF m = N + 1 THEN x ELSE lev[m]) \in Nat
      BY <1>2, <2>3
    <3> QED BY <3>1 DEF Grown
  <2> HIDE DEF new
  <2> QED BY <2>1, <2>2, <2>4, <2>5
<1> HIDE DEF new
<1>6. ASSUME NEW m \in 1..(N + 1)
      PROVE  IF f[m].leaf THEN new[m] = 0
             ELSE \A p \in 1..Len(f[m].children) : new[f[m].children[p]] + 1 = new[m]
  <2>1. CASE m \in 1..N
    <3>1. f[m] = file[m] /\ new[m] = lev[m]
      BY <1>1, <1>5, <2>1
    <3>2. IF file[m].leaf THEN lev[m] = 0
             ELSE \A p \in 1..Len(file[m].children) : lev[file[m].children[p]] + 1 = lev[m]
      BY <2>1 DEF Leveled, N
    <3> QED BY <1>3, <1>5, <2>1, <3>1, <3>2
  <2>2. CASE m = N + 1
    <3>1. f[m] = nd /\ new[m] = x
      BY <1>1, <1>5, <2>2
    <3>2. ~nd.leaf => \A p \in 1..Len(nd.children) : new[nd.children[p]] + 1 = x
      BY <1>4, <1>5
    <3> QED BY <3>1, <3>2
  <2>3. m \in 1..N \/ m = N + 1
    BY <1>0
  <2> QED BY <2>1, <2>2, <2>3
<1>7. Leveled(f, new)
  BY <1>1, <1>5, <1>6 DEF Leveled
<1> QED BY <1>5, <1>7 DEF f, N, new

(***************************************************************************)
(* The premises of a store over a node, ...                                *)
(***************************************************************************)
MayReplace(file, lev, n, nd, g) ==
    /\ Stored(file) /\ Leveled(file, lev) /\ n \in 1..Len(file)
    /\ nd \in Node(Len(file)) /\ WellFormed(nd)
    /\ nd.leaf = file[n].leaf
    /\ ~nd.leaf => \A p \in 1..Len(nd.children) : lev[nd.children[p]] + 1 = lev[n]
    /\ g = [file EXCEPT ![n] = nd]

(***************************************************************************)
(* ... and what it leaves.                                                 *)
(***************************************************************************)
HasReplaced(file, lev, n, nd, g) ==
    /\ Stored(g) /\ Leveled(g, lev) /\ Len(g) = Len(file) /\ g[n] = nd
    /\ \A m \in 1..Len(file) : m # n => g[m] = file[m]

(***************************************************************************)
(* The premises of a store at the end, ...                                 *)
(***************************************************************************)
MayAppend(file, lev, nd, x, g) ==
    /\ Stored(file) /\ Leveled(file, lev)
    /\ nd \in Node(Len(file)) /\ WellFormed(nd) /\ x \in Nat
    /\ nd.leaf => x = 0
    /\ ~nd.leaf => \A p \in 1..Len(nd.children) : lev[nd.children[p]] + 1 = x
    /\ g = Append(file, nd)

(***************************************************************************)
(* ... and what it leaves.                                                 *)
(***************************************************************************)
HasAppended(file, lev, nd, x, g) ==
    /\ Stored(g) /\ Len(g) = Len(file) + 1 /\ g[Len(file) + 1] = nd
    /\ \A m \in 1..Len(file) : g[m] = file[m]
    /\ \E l : /\ Leveled(g, l) /\ l[Len(file) + 1] = x
              /\ \A m \in 1..Len(file) : l[m] = lev[m]

(***************************************************************************)
(* A store over a node keeps the file stored and its levels.               *)
(***************************************************************************)
LEMMA Rewritten ==
    ASSUME NEW file, NEW lev, NEW n, NEW nd, NEW g, MayReplace(file, lev, n, nd, g)
    PROVE  HasReplaced(file, lev, n, nd, g)
<1>0. /\ Stored(file) /\ Leveled(file, lev) /\ n \in 1..Len(file)
      /\ nd \in Node(Len(file)) /\ WellFormed(nd)
      /\ nd.leaf = file[n].leaf
      /\ ~nd.leaf => \A p \in 1..Len(nd.children) : lev[nd.children[p]] + 1 = lev[n]
      /\ g = [file EXCEPT ![n] = nd]
  BY DEF MayReplace
<1>1. Leveled(g, lev)
  BY <1>0, ReplacedLevels
<1>2. Len(g) = Len(file) /\ g[n] = nd
  BY <1>0, Replaced
<1>3. \A m \in 1..Len(file) : m # n => g[m] = file[m]
  BY <1>0, Replaced
<1>4. Stored(g)
  BY <1>0, Replaced, Zenon
<1> QED BY <1>1, <1>2, <1>3, <1>4 DEF HasReplaced

(***************************************************************************)
(* A store at the end keeps the file stored and its levels, and gives the  *)
(* node one.                                                               *)
(***************************************************************************)
LEMMA Extended ==
    ASSUME NEW file, NEW lev, NEW nd, NEW x, NEW g, MayAppend(file, lev, nd, x, g)
    PROVE  HasAppended(file, lev, nd, x, g)
<1> DEFINE f == Append(file, nd)
           new == Grown(lev, Len(file), x)
<1>0. /\ Stored(file) /\ Leveled(file, lev)
      /\ nd \in Node(Len(file)) /\ WellFormed(nd) /\ x \in Nat
      /\ nd.leaf => x = 0
      /\ ~nd.leaf => \A p \in 1..Len(nd.children) : lev[nd.children[p]] + 1 = x
      /\ g = f
  BY DEF MayAppend
<1>1. /\ Leveled(f, new)
      /\ new[Len(file) + 1] = x
      /\ \A m \in 1..Len(file) : new[m] = lev[m]
  BY <1>0, AppendedLevels
<1>2. /\ Stored(f) /\ Len(f) = Len(file) + 1 /\ f[Len(file) + 1] = nd
      /\ \A m \in 1..Len(file) : f[m] = file[m]
  BY <1>0, Appended
<1> HIDE DEF f, new
<1> QED BY <1>0, <1>1, <1>2 DEF HasAppended

(***************************************************************************)
(* Where there are levels, every path from the root to a leaf is as long:  *)
(* UniformDepth.                                                           *)
(***************************************************************************)
LEMMA OneDepth ==
    ASSUME Stored(nodes), rootOffset \in 1..Len(nodes), \E lev : Leveled(nodes, lev)
    PROVE  UniformDepth
<1>1. PICK lev : Leveled(nodes, lev)
  OBVIOUS
<1> DEFINE D == 1..Len(nodes)
           Body(g) == [n \in DOMAIN nodes |->
                          IF nodes[n].leaf THEN {0}
                          ELSE {d + 1 : d \in UNION {g[nodes[n].children[p]] :
                                                        p \in DOMAIN nodes[n].children}}]
           depths == CHOOSE g : g = Body(g)
           f == [n \in D |-> {lev[n]}]
<1>2. DOMAIN nodes = D /\ D = 1..Len(nodes)
  BY StoredFacts
<1>3. \A n \in D : lev[n] \in Nat
  BY <1>1 DEF Leveled
<1>4. ASSUME NEW n \in D, ~nodes[n].leaf
      PROVE  /\ 1 \in DOMAIN nodes[n].children
             /\ \A p \in DOMAIN nodes[n].children :
                   nodes[n].children[p] \in D /\ lev[nodes[n].children[p]] + 1 = lev[n]
  <2>1. /\ Len(nodes[n].keys) \in Nat /\ Len(nodes[n].children) = Len(nodes[n].keys) + 1
        /\ DOMAIN nodes[n].children = 1..Len(nodes[n].children)
        /\ \A p \in 1..Len(nodes[n].children) : nodes[n].children[p] \in D
    BY <1>4, StoredFacts
  <2>2. \A p \in 1..Len(nodes[n].children) : lev[nodes[n].children[p]] + 1 = lev[n]
    BY <1>1, <1>4 DEF Leveled
  <2>3. 1 \in 1..Len(nodes[n].children)
    BY <2>1
  <2> QED BY <2>1, <2>2, <2>3
<1>5. \A n \in D : nodes[n].leaf => lev[n] = 0
  BY <1>1 DEF Leveled
<1> HIDE DEF D
<1>6. f = Body(f)
  <2> DEFINE k == Body(f)
  <2>1. ASSUME NEW n \in D PROVE f[n] = k[n]
    <3>1. CASE nodes[n].leaf
      <4>1. k[n] = {0}
        BY <1>2, <3>1
      <4> QED BY <1>5, <3>1, <4>1
    <3>2. CASE ~nodes[n].leaf
      <4>1. k[n] = {d + 1 : d \in UNION {f[nodes[n].children[p]] : p \in DOMAIN nodes[n].children}}
        BY <1>2, <3>2
      <4>2. \A p \in DOMAIN nodes[n].children : f[nodes[n].children[p]] = {lev[nodes[n].children[p]]}
        BY <1>4, <3>2
      <4> HIDE DEF f, k
      <4>3. ASSUME NEW x PROVE x \in k[n] <=> x = lev[n]
        <5> DEFINE U == UNION {f[nodes[n].children[p]] : p \in DOMAIN nodes[n].children}
        <5>2. ASSUME NEW d PROVE d \in U <=> \E p \in DOMAIN nodes[n].children : d = lev[nodes[n].children[p]]
          <6>1. d \in U <=> \E p \in DOMAIN nodes[n].children : d \in f[nodes[n].children[p]]
            BY Zenon
          <6>2. \A p \in DOMAIN nodes[n].children :
                   d \in f[nodes[n].children[p]] <=> d = lev[nodes[n].children[p]]
            BY <4>2, Zenon
          <6> QED BY <6>1, <6>2, Zenon
        <5>3. k[n] = {d + 1 : d \in U}
          BY <4>1
        <5> HIDE DEF U
        <5>1. x \in k[n] <=> \E p \in DOMAIN nodes[n].children : x = lev[nodes[n].children[p]] + 1
          BY <5>2, <5>3, Zenon
        <5> QED BY <1>4, <3>2, <5>1
      <4>4. k[n] = {lev[n]}
        BY <4>3
      <4> QED BY <4>4 DEF f
    <3> QED BY <3>1, <3>2
  <2>2. f = [n \in D |-> f[n]] /\ k = [n \in D |-> k[n]]
    BY <1>2
  <2> HIDE DEF k, f
  <2>3. f = k
    BY <2>1, <2>2
  <2> QED BY <2>3 DEF k
<1>7. depths = Body(depths)
  <2> HIDE DEF Body
  <2> QED BY <1>6
<1> HIDE DEF depths, f
<1>8. ASSUME NEW n \in D
      PROVE  /\ nodes[n].leaf => depths[n] = {0}
             /\ ~nodes[n].leaf =>
                   depths[n] = {d + 1 : d \in UNION {depths[nodes[n].children[p]] :
                                                        p \in DOMAIN nodes[n].children}}
  <2>1. depths[n] = Body(depths)[n]
    <3> HIDE DEF Body
    <3> QED BY <1>7
  <2> QED BY <1>2, <2>1
<1> HIDE DEF Body
<1> DEFINE S == {i \in Nat : \A n \in D : lev[n] < i => depths[n] = {lev[n]}}
<1>9. 0 \in S
  BY <1>3
<1>10. ASSUME NEW i \in S PROVE i + 1 \in S
  <2>0. i \in Nat /\ \A n \in D : lev[n] < i => depths[n] = {lev[n]}
    BY <1>10
  <2>1. ASSUME NEW n \in D, lev[n] < i + 1 PROVE depths[n] = {lev[n]}
    <3> HIDE DEF S
    <3>1. CASE nodes[n].leaf
      BY <1>5, <1>8, <3>1
    <3>2. CASE ~nodes[n].leaf
      <4>1. ASSUME NEW p \in DOMAIN nodes[n].children
            PROVE  /\ depths[nodes[n].children[p]] = {lev[nodes[n].children[p]]}
                   /\ lev[nodes[n].children[p]] + 1 = lev[n]
        <5> DEFINE c == nodes[n].children[p]
        <5>1. c \in D /\ lev[c] + 1 = lev[n]
          BY <1>4, <3>2
        <5> HIDE DEF c
        <5>2. lev[c] \in Nat /\ lev[n] \in Nat
          BY <1>3, <5>1
        <5>3. lev[c] < i
          BY <2>0, <2>1, <5>1, <5>2
        <5>4. depths[c] = {lev[c]}
          BY <2>0, <5>1, <5>3
        <5> QED BY <5>1, <5>4 DEF c
      <4>2. depths[n] = {d + 1 : d \in UNION {depths[nodes[n].children[p]] :
                                                p \in DOMAIN nodes[n].children}}
        BY <1>8, <3>2
      <4>3. ASSUME NEW x PROVE x \in depths[n] <=> x = lev[n]
        <5> DEFINE U == UNION {depths[nodes[n].children[p]] : p \in DOMAIN nodes[n].children}
        <5>2. ASSUME NEW d PROVE d \in U <=> \E p \in DOMAIN nodes[n].children : d = lev[nodes[n].children[p]]
          <6>1. d \in U <=> \E p \in DOMAIN nodes[n].children : d \in depths[nodes[n].children[p]]
            BY Zenon
          <6>2. \A p \in DOMAIN nodes[n].children :
                   d \in depths[nodes[n].children[p]] <=> d = lev[nodes[n].children[p]]
            BY <4>1, Zenon
          <6> QED BY <6>1, <6>2, Zenon
        <5>3. depths[n] = {d + 1 : d \in U}
          BY <4>2
        <5> HIDE DEF U
        <5>1. x \in depths[n] <=> \E p \in DOMAIN nodes[n].children : x = lev[nodes[n].children[p]] + 1
          BY <5>2, <5>3, Zenon
        <5> QED BY <1>4, <3>2, <5>1
      <4> QED BY <4>3
    <3> QED BY <3>1, <3>2
  <2> QED BY <2>0, <2>1
<1>11. S = Nat
  <2>1. S \in SUBSET Nat
    OBVIOUS
  <2> HIDE DEF S
  <2> QED BY <1>9, <1>10, <2>1, NatSetInduction
<1>12. depths[rootOffset] = {lev[rootOffset]}
  <2>1. rootOffset \in D
    BY <1>2
  <2>2. lev[rootOffset] + 1 \in S /\ lev[rootOffset] < lev[rootOffset] + 1
    <3> HIDE DEF S
    <3> QED BY <1>3, <1>11, <2>1
  <2> QED BY <2>1, <2>2
<1>13. Cardinality({lev[rootOffset]}) = 1
  BY FS_Singleton
<1> QED BY <1>12, <1>13 DEF UniformDepth, depths, Body
-----------------------------------------------------------------------------
(* The invariant of the shape of the tree. *)

(***************************************************************************)
(* Clearing or setting the root flag changes nothing else.                 *)
(***************************************************************************)
LEMMA RootFlag ==
    ASSUME NEW N \in Nat, NEW nd \in Node(N), WellFormed(nd), NEW r \in BOOLEAN
    PROVE  LET n == [nd EXCEPT !.isRoot = r] IN
           /\ n \in Node(N) /\ WellFormed(n) /\ n.leaf = nd.leaf /\ n.isRoot = r /\ n.parent = nd.parent
           /\ n.keys = nd.keys /\ n.values = nd.values /\ n.children = nd.children
<1> DEFINE n == [nd EXCEPT !.isRoot = r]
<1>1. /\ n.leaf = nd.leaf /\ n.isRoot = r /\ n.parent = nd.parent
      /\ n.keys = nd.keys /\ n.values = nd.values /\ n.children = nd.children
      /\ n \in Node(N)
  BY DEF Node
<1> HIDE DEF n
<1>2. WellFormed(n)
  BY <1>1 DEF WellFormed
<1> QED BY <1>1, <1>2 DEF n

(***************************************************************************)
(* The halves of a split share out the children of the node.               *)
(***************************************************************************)
LEMMA SplitChildren ==
    ASSUME NEW N \in Nat, NEW nd \in Node(N), WellFormed(nd), IsFull(nd), ~nd.leaf
    PROVE  /\ \A i \in 1..Len(SplitRight(nd).children) :
                 \E j \in 1..Len(nd.children) : SplitRight(nd).children[i] = nd.children[j]
           /\ \A i \in 1..Len(SplitLeft(nd).children) :
                 \E j \in 1..Len(nd.children) : SplitLeft(nd).children[i] = nd.children[j]
<1> DEFINE r == SplitRight(nd)
           l == SplitLeft(nd)
<1>1. Len(nd.keys) \in Nat /\ Len(nd.children) = Len(nd.keys) + 1
  BY NodeFields
<1>2. B \in Nat /\ B < Len(nd.keys)
  BY <1>1, SplitPoint DEF IsFull
<1>3. /\ Len(r.children) = Len(nd.keys) - B + 1
      /\ \A i \in 1..(Len(nd.keys) - B + 1) : r.children[i] = nd.children[B + i]
  BY SplitRightFacts
<1>4. Len(l.children) = B /\ \A i \in 1..B : l.children[i] = nd.children[i]
  BY SplitLeftFacts
<1> HIDE DEF r, l
<1>5. \A i \in 1..Len(r.children) : \E j \in 1..Len(nd.children) : r.children[i] = nd.children[j]
  <2> TAKE i \in 1..Len(r.children)
  <2>1. B + i \in 1..Len(nd.children)
    BY <1>1, <1>2, <1>3
  <2> QED BY <1>3, <2>1
<1>6. \A i \in 1..Len(l.children) : \E j \in 1..Len(nd.children) : l.children[i] = nd.children[j]
  <2> TAKE i \in 1..Len(l.children)
  <2>1. i \in 1..Len(nd.children)
    BY <1>1, <1>2, <1>4
  <2> QED BY <1>4, <2>1
<1> QED BY <1>5, <1>6 DEF r, l

(***************************************************************************)
(* The key promoted is one of the node's.                                  *)
(***************************************************************************)
LEMMA MedianIsKey ==
    ASSUME NEW N \in Nat, NEW nd \in Node(N), WellFormed(nd), IsFull(nd)
    PROVE  SplitMedian(nd) \in Key /\ B \in 1..Len(nd.keys)
<1>1. Len(nd.keys) \in Nat /\ \A p \in 1..Len(nd.keys) : nd.keys[p] \in Key
  BY NodeFields
<1>2. B \in 1..Len(nd.keys)
  BY <1>1, SplitPoint DEF IsFull
<1> QED BY <1>1, <1>2 DEF SplitMedian

(***************************************************************************)
(* The node stored last.                                                   *)
(***************************************************************************)
Newest == Len(nodes)

(***************************************************************************)
(* The stages at which the writer holds the key promoted, ...              *)
(***************************************************************************)
Splitting == {"sibling", "growRoot", "setRoot", "batchLeft", "batchParent"}

(***************************************************************************)
(* ... and those of batch_insert.                                          *)
(***************************************************************************)
Bulky == {"batchEntry", "batchLeft", "batchParent", "batchPut"}

(***************************************************************************)
(* What the writer has in memory.                                          *)
(***************************************************************************)
Writer ==
    /\ pc \in Stages
    /\ kind \in {"insert", "batch"}
    /\ todo \in Seq(Key \X Value)
    /\ allowed \in [Key -> SUBSET (Value \cup {None})]
    /\ pc # "idle" => todo # <<>>
    /\ pc \in Splitting => med \in Key

(***************************************************************************)
(* How the writer's progress fits the levels: the sibling is on the level  *)
(* of the node it was split from, the new root one above.                  *)
(***************************************************************************)
Fits(lev) ==
    /\ pc = "sibling" => /\ sib \in Node(Newest) /\ WellFormed(sib) /\ sib.leaf = nodes[at].leaf
                         /\ \A p \in 1..Len(sib.children) : lev[sib.children[p]] + 1 = lev[at]
    /\ pc \in {"growRoot", "batchLeft", "batchParent"} => lev[Newest] = lev[at]
    /\ pc \in {"setRoot", "adoptLeft", "adoptRight"} =>
          1 < Newest /\ lev[Newest] = lev[at] + 1 /\ lev[Newest - 1] = lev[at]
    /\ pc \in {"adoptLeft", "adoptRight"} => rootOffset = Newest
    /\ pc = "link" => /\ slot \in 1..Len(nodes[at].children)
                      /\ IsFull(nodes[nodes[at].children[slot]])
                      /\ lev[Newest] + 1 = lev[at]
    /\ (kind = "batch" \/ pc \in Bulky) => nodes[at].leaf
    /\ pc = "batchLeft" => IsFull(nodes[at])

(***************************************************************************)
(* The file is stored and leveled, and the writer fits it: the invariant   *)
(* of every tree, whether or not its parent pointers are right.            *)
(***************************************************************************)
Shape(lev) ==
    /\ Stored(nodes)
    /\ Leveled(nodes, lev)
    /\ rootOffset \in 1..Newest
    /\ at \in 1..Newest
    /\ Fits(lev)

(***************************************************************************)
(* The leaves that a root's split has yet to give a parent.                *)
(***************************************************************************)
Orphans ==
    CASE pc = "sibling" -> {at}
      [] pc = "growRoot" -> {at, Newest}
      [] pc \in {"setRoot", "adoptLeft"} -> {at, Newest - 1}
      [] pc = "adoptRight" -> {Newest - 1}
      [] pc = "batchLeft" -> {at, Newest}
      [] OTHER -> {}

(***************************************************************************)
(* Parent pointers lead one level up. Only batch_insert follows them, and  *)
(* a crash in a root's split leaves them unset.                            *)
(***************************************************************************)
Parents(lev) ==
    /\ \A n \in 1..Newest :
          nodes[n].parent # NoParent => lev[nodes[n].parent] = lev[n] + 1
    /\ \A n \in 1..Newest :
          nodes[n].leaf /\ n \notin Orphans =>
              nodes[n].parent # NoParent \/ (nodes[n].isRoot /\ Newest = 1)
    /\ pc = "sibling" => (sib.parent # NoParent => lev[sib.parent] = lev[at] + 1)
    /\ pc \in {"batchLeft", "batchParent"} => at # Newest
    /\ pc = "batchLeft" => /\ nodes[Newest].parent = nodes[at].parent
                           /\ nodes[at].isRoot \/ nodes[at].parent # NoParent

(***************************************************************************)
(* The pair being inserted is a key and a value.                           *)
(***************************************************************************)
LEMMA EntryTyped ==
    ASSUME Writer, todo # <<>>
    PROVE  entry \in Key \X Value /\ entry[1] \in Key /\ entry[2] \in Value
<1> DEFINE T == Key \X Value
<1>1. todo \in Seq(T)
  BY DEF Writer
<1>2. Head(todo) \in T
  <2> HIDE DEF T
  <2> QED BY <1>1
<1> QED BY <1>2 DEF entry

(***************************************************************************)
(* A fresh tree: one empty leaf, on level 0.                               *)
(***************************************************************************)
LEMMA ShapeInit ==
    ASSUME Init
    PROVE  Writer /\ \E lev : Shape(lev) /\ Parents(lev)
<1> DEFINE nd == [NewLeaf EXCEPT !.isRoot = TRUE]
<1>0. nodes = <<nd>> /\ rootOffset = 1 /\ at = 1 /\ pc = "idle" /\ todo = <<>> /\ kind = "insert"
      /\ allowed = [k \in Key |-> {None}]
  BY DEF Init, Idle
<1>1. nd \in Node(1) /\ WellFormed(nd) /\ nd.leaf = TRUE /\ nd.isRoot = TRUE /\ nd.parent = 0
  <2>1. nd = [leaf |-> TRUE, keys |-> <<>>, values |-> <<>>, children |-> <<>>,
              isRoot |-> TRUE, parent |-> 0]
    <3>1. /\ nd.leaf = TRUE /\ nd.keys = <<>> /\ nd.values = <<>> /\ nd.children = <<>>
          /\ nd.isRoot = TRUE /\ nd.parent = 0
          /\ NewLeaf \in [leaf : {TRUE}, keys : {<<>>}, values : {<<>>}, children : {<<>>},
                          isRoot : {FALSE}, parent : {0}]
      BY DEF NewLeaf, NoParent
    <3>2. nd \in [leaf : {TRUE}, keys : {<<>>}, values : {<<>>}, children : {<<>>},
                  isRoot : BOOLEAN, parent : {0}]
      BY <3>1
    <3> HIDE DEF nd
    <3>3. nd = [leaf |-> nd.leaf, keys |-> nd.keys, values |-> nd.values,
                children |-> nd.children, isRoot |-> nd.isRoot, parent |-> nd.parent]
      BY <3>2
    <3> QED BY <3>1, <3>3
  <2>2. <<>> \in Seq(Key) /\ <<>> \in Seq(Value) /\ <<>> \in Seq(1..1) /\ 0 \in 0..1
    OBVIOUS
  <2> QED BY <2>1, <2>2 DEF Node, WellFormed
<1> HIDE DEF nd
<1>2. Len(nodes) = 1 /\ nodes[1] = nd /\ nodes \in Seq(Node(Len(nodes)))
  <2> DEFINE T == Node(1)
  <2>1. nd \in T
    BY <1>1
  <2> HIDE DEF T
  <2>2. Len(nodes) = 1 /\ nodes[1] = nd /\ nodes \in Seq(T)
    BY <1>0, <2>1
  <2> QED BY <2>2 DEF T
<1>3. \A n \in 1..1 : n = 1
  OBVIOUS
<1>4. Stored(nodes)
  BY <1>1, <1>2, <1>3 DEF Stored
<1>5. PICK lev : lev = [n \in 1..1 |-> 0]
  OBVIOUS
<1>6. Leveled(nodes, lev)
  BY <1>1, <1>2, <1>3, <1>5 DEF Leveled
<1>7. Shape(lev)
  BY <1>0, <1>1, <1>2, <1>4, <1>6 DEF Shape, Fits, Newest, Bulky
<1>8. Parents(lev)
  BY <1>0, <1>1, <1>2, <1>3 DEF Parents, Newest, NoParent
<1>9. Writer
  <2>1. <<>> \in Seq(Key \X Value)
    OBVIOUS
  <2>2. [k \in Key |-> {None}] \in [Key -> SUBSET (Value \cup {None})]
    OBVIOUS
  <2> QED BY <1>0, <2>1, <2>2 DEF Writer, Stages, Splitting
<1> QED BY <1>7, <1>8, <1>9
-----------------------------------------------------------------------------
(* The actions of insert. *)

(***************************************************************************)
(* A node is a leaf if and only if its level is 0.                         *)
(***************************************************************************)
LEMMA LevelFacts ==
    ASSUME NEW file, Stored(file), NEW lev, Leveled(file, lev)
    PROVE  /\ \A n \in 1..Len(file) : lev[n] \in Nat /\ (file[n].leaf <=> lev[n] = 0)
           /\ \A n \in 1..Len(file) : ~file[n].leaf =>
                 \A p \in 1..Len(file[n].children) : lev[file[n].children[p]] + 1 = lev[n]
<1>1. ASSUME NEW n \in 1..Len(file) PROVE lev[n] \in Nat /\ (file[n].leaf => lev[n] = 0)
  BY DEF Leveled
<1>2. ASSUME NEW n \in 1..Len(file), ~file[n].leaf
      PROVE  \A p \in 1..Len(file[n].children) : lev[file[n].children[p]] + 1 = lev[n]
  BY <1>2 DEF Leveled
<1>3. ASSUME NEW n \in 1..Len(file), ~file[n].leaf PROVE lev[n] # 0
  <2>1. 1 \in 1..(Len(file[n].keys) + 1)
    <3>1. Len(file[n].keys) \in Nat
      BY StoredFacts
    <3> QED BY <3>1
  <2>2. lev[file[n].children[1]] < lev[n] /\ lev[n] \in Nat /\ lev[file[n].children[1]] \in Nat
    BY <1>3, <2>1, WayDown
  <2> QED BY <2>2
<1> QED BY <1>1, <1>2, <1>3

(***************************************************************************)
(* The children of both halves of a split are one level below the node.    *)
(***************************************************************************)
LEMMA SplitLevels ==
    ASSUME NEW file, Stored(file), NEW lev, Leveled(file, lev),
           NEW n \in 1..Len(file), IsFull(file[n]), ~file[n].leaf
    PROVE  /\ \A i \in 1..Len(SplitRight(file[n]).children) :
                 lev[SplitRight(file[n]).children[i]] + 1 = lev[n]
           /\ \A i \in 1..Len(SplitLeft(file[n]).children) :
                 lev[SplitLeft(file[n]).children[i]] + 1 = lev[n]
<1> DEFINE nd == file[n]
<1>1. Len(file) \in Nat /\ nd \in Node(Len(file)) /\ WellFormed(nd)
  BY StoredFacts
<1>2. \A j \in 1..Len(nd.children) : lev[nd.children[j]] + 1 = lev[n]
  BY LevelFacts
<1>3. /\ \A i \in 1..Len(SplitRight(nd).children) :
                 \E j \in 1..Len(nd.children) : SplitRight(nd).children[i] = nd.children[j]
      /\ \A i \in 1..Len(SplitLeft(nd).children) :
                 \E j \in 1..Len(nd.children) : SplitLeft(nd).children[i] = nd.children[j]
  <2>1. IsFull(nd) /\ ~nd.leaf
    OBVIOUS
  <2> HIDE DEF nd
  <2> QED BY <1>1, <2>1, SplitChildren
<1> HIDE DEF nd
<1>4. /\ \A i \in 1..Len(SplitRight(nd).children) : lev[SplitRight(nd).children[i]] + 1 = lev[n]
      /\ \A i \in 1..Len(SplitLeft(nd).children) : lev[SplitLeft(nd).children[i]] + 1 = lev[n]
  BY <1>2, <1>3
<1> QED BY <1>4 DEF nd

(***************************************************************************)
(* Insert keeps the shape.                                                 *)
(***************************************************************************)
LEMMA InsertShape ==
    ASSUME NEW lev, Writer, Shape(lev), NEW k \in Key, NEW v \in Value, Insert(k, v)
    PROVE  Shape(lev)' /\ (Parents(lev) => Parents(lev)')
<1> DEFINE N == Len(nodes)
           root == nodes[rootOffset]
<1>1. /\ pc = "idle" /\ kind' = "insert" /\ at' = rootOffset /\ rootOffset' = rootOffset
      /\ Stored(nodes) /\ Leveled(nodes, lev) /\ rootOffset \in 1..N /\ N \in Nat
  BY StoredFacts DEF Shape, Insert, Newest
<1>2. CASE ~IsFull(root)
  <2>1. pc' = "descend" /\ nodes' = nodes
    BY <1>2 DEF Insert
  <2>2. Shape(lev)'
    BY <1>1, <2>1 DEF Shape, Fits, Newest, Bulky
  <2>3. ASSUME Parents(lev) PROVE Parents(lev)'
    BY <1>1, <2>1, <2>3 DEF Parents, Orphans, Newest
  <2> QED BY <2>2, <2>3
<1>3. CASE IsFull(root)
  <2> DEFINE left == SplitLeft(root)
             nd == [left EXCEPT !.isRoot = FALSE]
             s == SplitRight(root)
  <2>1. pc' = "sibling" /\ nodes' = [nodes EXCEPT ![rootOffset] = nd] /\ sib' = s
    BY <1>3 DEF Insert
  <2>2. root \in Node(N) /\ WellFormed(root) /\ root.leaf \in BOOLEAN
    BY <1>1, StoredFacts
  <2>3. /\ left \in Node(N) /\ WellFormed(left) /\ left.leaf = root.leaf /\ left.parent = root.parent
    <3> HIDE DEF root, N
    <3> QED BY <1>1, <1>3, <2>2, SplitLeftFacts
  <2>4. /\ s \in Node(N) /\ WellFormed(s) /\ s.leaf = root.leaf /\ s.parent = root.parent
    <3> HIDE DEF root, N
    <3> QED BY <1>1, <1>3, <2>2, SplitRightFacts
  <2>5. ASSUME ~root.leaf
        PROVE  /\ \A i \in 1..Len(s.children) : lev[s.children[i]] + 1 = lev[rootOffset]
               /\ \A i \in 1..Len(left.children) : lev[left.children[i]] + 1 = lev[rootOffset]
    <3>1. IsFull(nodes[rootOffset]) /\ ~nodes[rootOffset].leaf
      BY <1>3, <2>5
    <3>2. Stored(nodes) /\ Leveled(nodes, lev) /\ rootOffset \in 1..Len(nodes)
      BY <1>1
    <3>3. /\ \A i \in 1..Len(SplitRight(nodes[rootOffset]).children) :
                 lev[SplitRight(nodes[rootOffset]).children[i]] + 1 = lev[rootOffset]
          /\ \A i \in 1..Len(SplitLeft(nodes[rootOffset]).children) :
                 lev[SplitLeft(nodes[rootOffset]).children[i]] + 1 = lev[rootOffset]
      BY <3>1, <3>2, SplitLevels
    <3> QED BY <3>3, Zenon
  <2>6. root.leaf => Len(s.children) = 0
    <3> HIDE DEF s
    <3> QED BY <1>1, <2>4, NodeFields
  <2> HIDE DEF left
  <2>7. /\ nd \in Node(N) /\ WellFormed(nd) /\ nd.leaf = root.leaf /\ nd.parent = root.parent
        /\ nd.children = left.children
    BY <1>1, <2>3, RootFlag
  <2> HIDE DEF nd, s, N, root
  <2>8. /\ Stored(nodes') /\ Leveled(nodes', lev) /\ Len(nodes') = N /\ nodes'[rootOffset] = nd
        /\ \A m \in 1..N : m # rootOffset => nodes'[m] = nodes[m]
    <3>1. ~nd.leaf => \A i \in 1..Len(nd.children) : lev[nd.children[i]] + 1 = lev[rootOffset]
      BY <2>5, <2>7
    <3>2. /\ nd.leaf = nodes[rootOffset].leaf /\ nd \in Node(Len(nodes)) /\ rootOffset \in 1..Len(nodes)
          /\ Stored(nodes) /\ Leveled(nodes, lev) /\ WellFormed(nd)
      BY <1>1, <2>7 DEF N, root
    <3>3. MayReplace(nodes, lev, rootOffset, nd, nodes')
      BY <2>1, <3>1, <3>2 DEF MayReplace
    <3>4. HasReplaced(nodes, lev, rootOffset, nd, nodes')
      BY <3>3, Rewritten
    <3> QED BY <3>4 DEF HasReplaced, N
  <2>10. \A p \in 1..Len(s.children) : lev[s.children[p]] + 1 = lev[rootOffset]
    BY <2>2, <2>5, <2>6
  <2>11. Shape(lev)'
    <3>1. Fits(lev)'
      BY <1>1, <2>1, <2>4, <2>7, <2>8, <2>10 DEF Fits, Newest, Bulky
    <3> QED BY <1>1, <2>8, <3>1 DEF Shape, Newest
  <2>12. ASSUME Parents(lev) PROVE Parents(lev)'
    <3>1. \A m \in 1..N : nodes'[m].parent = nodes[m].parent
      BY <2>7, <2>8 DEF root
    <3>2. \A m \in 1..N : nodes[m].parent # NoParent => lev[nodes[m].parent] = lev[m] + 1
      BY <2>12 DEF Parents, Newest, N
    <3>3. \A m \in 1..N : nodes[m].leaf => nodes[m].parent # NoParent \/ (nodes[m].isRoot /\ N = 1)
      BY <1>1, <2>12 DEF Parents, Newest, N, Orphans
    <3>4. Orphans' = {rootOffset} /\ Newest' = N
      BY <1>1, <2>1, <2>8 DEF Orphans, Newest
    <3>5. \A m \in 1..N : m # rootOffset => nodes'[m] = nodes[m]
      BY <2>8
    <3>6. sib'.parent # NoParent => lev[sib'.parent] = lev[at'] + 1
      BY <1>1, <2>1, <2>4, <3>2 DEF root
    <3> QED BY <2>1, <3>1, <3>2, <3>3, <3>4, <3>5, <3>6 DEF Parents
  <2> QED BY <2>11, <2>12
<1> QED BY <1>2, <1>3

(***************************************************************************)
(* Elementary consequences of Shape.                                       *)
(***************************************************************************)
LEMMA ParentsTyped ==
    ASSUME NEW lev, Shape(lev)
    PROVE  /\ Newest \in Nat /\ Newest = Len(nodes)
           /\ \A n \in 1..Newest : /\ nodes[n].parent \in 0..Newest
                                   /\ nodes[n].parent # NoParent => nodes[n].parent \in 1..Newest
                                   /\ \A p \in 1..Len(nodes[n].children) : nodes[n].children[p] \in 1..Newest
           /\ \A n \in 1..Newest : lev[n] \in Nat /\ (nodes[n].leaf <=> lev[n] = 0)
<1>1. Stored(nodes) /\ Leveled(nodes, lev)
  BY DEF Shape
<1>2. Len(nodes) \in Nat /\ \A n \in 1..Len(nodes) :
         nodes[n].parent \in 0..Len(nodes) /\ \A p \in 1..Len(nodes[n].children) : nodes[n].children[p] \in 1..Len(nodes)
  BY <1>1, StoredFacts
<1>3. \A n \in 1..Len(nodes) : lev[n] \in Nat /\ (nodes[n].leaf <=> lev[n] = 0)
  BY <1>1, LevelFacts
<1> QED BY <1>2, <1>3 DEF Newest, NoParent

(***************************************************************************)
(* RootSibling keeps the shape.                                            *)
(***************************************************************************)
LEMMA RootSiblingShape ==
    ASSUME NEW lev, Shape(lev), RootSibling
    PROVE  \E l : Shape(l)' /\ (Parents(lev) => Parents(l)')
<1> DEFINE N == Newest
<1>1. /\ pc = "sibling" /\ pc' = "growRoot" /\ at' = at /\ rootOffset' = rootOffset
      /\ kind' = kind /\ sib' = sib /\ nodes' = Append(nodes, sib)
  BY DEF RootSibling, locals
<1>2. /\ Stored(nodes) /\ Leveled(nodes, lev) /\ rootOffset \in 1..N /\ at \in 1..N
      /\ N = Len(nodes) /\ N \in Nat
      /\ sib \in Node(N) /\ WellFormed(sib) /\ sib.leaf = nodes[at].leaf
      /\ \A p \in 1..Len(sib.children) : lev[sib.children[p]] + 1 = lev[at]
      /\ lev[at] \in Nat /\ (nodes[at].leaf <=> lev[at] = 0)
      /\ kind = "batch" => nodes[at].leaf
  BY <1>1, ParentsTyped DEF Shape, Fits, Newest
<1>3. /\ Stored(nodes') /\ Len(nodes') = N + 1 /\ nodes'[N + 1] = sib
      /\ \A m \in 1..N : nodes'[m] = nodes[m]
      /\ \E l : /\ Leveled(nodes', l) /\ l[N + 1] = lev[at]
                /\ \A m \in 1..N : l[m] = lev[m]
  <2> DEFINE x == lev[at]
  <2>1. /\ Stored(nodes) /\ Leveled(nodes, lev) /\ sib \in Node(Len(nodes)) /\ WellFormed(sib)
        /\ x \in Nat /\ nodes' = Append(nodes, sib)
    BY <1>1, <1>2
  <2>2. sib.leaf => x = 0
    BY <1>2
  <2>3. ~sib.leaf => \A p \in 1..Len(sib.children) : lev[sib.children[p]] + 1 = x
    BY <1>2
  <2> HIDE DEF x
  <2>4. MayAppend(nodes, lev, sib, x, nodes')
    BY <2>1, <2>2, <2>3 DEF MayAppend
  <2>5. HasAppended(nodes, lev, sib, x, nodes')
    BY <2>4, Extended
  <2> QED BY <1>2, <2>5 DEF HasAppended, x
<1>4. PICK l : /\ Leveled(nodes', l) /\ l[N + 1] = lev[at]
               /\ \A m \in 1..N : l[m] = lev[m]
  BY <1>3
<1>5. Newest' = N + 1 /\ 1..(N + 1) = 1..N \cup {N + 1} /\ N + 1 \notin 1..N
  BY <1>2, <1>3 DEF Newest
<1>6. Shape(l)'
  <2>1. Fits(l)'
    BY <1>1, <1>2, <1>3, <1>4, <1>5 DEF Fits, Bulky
  <2> QED BY <1>1, <1>2, <1>3, <1>4, <1>5, <2>1 DEF Shape
<1>7. ASSUME Parents(lev) PROVE Parents(l)'
  <2>1. /\ \A n \in 1..N : nodes[n].parent # NoParent => lev[nodes[n].parent] = lev[n] + 1
        /\ \A n \in 1..N : nodes[n].leaf /\ n \notin {at} => nodes[n].parent # NoParent
        /\ sib.parent # NoParent => lev[sib.parent] = lev[at] + 1
    BY <1>1, <1>2, <1>7 DEF Parents, Orphans
  <2>2. Orphans' = {at, N + 1}
    BY <1>1, <1>5 DEF Orphans
  <2>3. \A n \in 1..N : nodes[n].parent # NoParent => nodes[n].parent \in 1..N
    BY ParentsTyped
  <2>4. sib.parent # NoParent => sib.parent \in 1..N
    BY <1>2 DEF Node, NoParent
  <2>5. \A n \in 1..(N + 1) : nodes'[n].parent # NoParent => l[nodes'[n].parent] = l[n] + 1
    BY <1>3, <1>4, <1>5, <2>1, <2>3, <2>4
  <2>6. \A n \in 1..(N + 1) : nodes'[n].leaf /\ n \notin Orphans' => nodes'[n].parent # NoParent
    BY <1>3, <1>5, <2>1, <2>2
  <2> QED BY <1>1, <1>5, <2>5, <2>6 DEF Parents
<1> QED BY <1>6, <1>7

(***************************************************************************)
(* GrowRoot keeps the shape: the new root is one level above both halves.  *)
(***************************************************************************)
LEMMA GrowRootShape ==
    ASSUME NEW lev, Writer, Shape(lev), GrowRoot
    PROVE  \E l : Shape(l)' /\ (Parents(lev) => Parents(l)')
<1> DEFINE N == Newest
           nd == RootOver(at, Len(nodes))
<1>1. /\ pc = "growRoot" /\ pc' = "setRoot" /\ at' = at /\ rootOffset' = rootOffset
      /\ kind' = kind /\ sib' = sib /\ nodes' = Append(nodes, nd)
  BY DEF GrowRoot, locals
<1>2. /\ Stored(nodes) /\ Leveled(nodes, lev) /\ rootOffset \in 1..N /\ at \in 1..N
      /\ N = Len(nodes) /\ N \in Nat
      /\ lev[N] = lev[at]
      /\ lev[at] \in Nat /\ (nodes[at].leaf <=> lev[at] = 0)
      /\ kind = "batch" => nodes[at].leaf
  BY <1>1, ParentsTyped DEF Shape, Fits, Newest
<1>3. med \in Key
  BY <1>1 DEF Writer, Splitting
<1>4. /\ nd \in Node(N) /\ WellFormed(nd) /\ nd.leaf = FALSE /\ nd.parent = NoParent
      /\ nd.children = <<at, N>> /\ nd.keys = <<med>>
  <2>2. /\ <<med>> \in Seq(Key) /\ <<>> \in Seq(Value) /\ 0 \in 0..N
        /\ Len(<<med>>) = 1 /\ Len(<<>>) = 0 /\ Len(<<at, N>>) = 2
    BY <1>2, <1>3
  <2>3. <<at, N>> \in Seq(1..N)
    <3>1. at \in 1..N /\ N \in 1..N
      BY <1>2
    <3> DEFINE T == 1..N
    <3>2. at \in T /\ N \in T
      BY <3>1
    <3> HIDE DEF T, N
    <3>3. <<at, N>> \in Seq(T)
      BY <3>2
    <3> QED BY <3>3 DEF T
  <2>4. /\ NewLeaf \in Node(N) /\ NewLeaf.values = <<>> /\ NewLeaf.parent = 0
    BY <1>2 DEF NewLeaf, NoParent, Node
  <2>5. /\ NewInternal \in Node(N) /\ NewInternal.leaf = FALSE
        /\ NewInternal.values = <<>> /\ NewInternal.parent = 0
    BY <2>4 DEF NewInternal, Node
  <2>6. /\ nd \in Node(N) /\ nd.leaf = FALSE /\ nd.values = <<>> /\ nd.parent = 0
        /\ nd.children = <<at, N>> /\ nd.keys = <<med>>
    BY <1>2, <2>2, <2>3, <2>5 DEF RootOver, Node
  <2> HIDE DEF nd
  <2> QED BY <2>2, <2>6 DEF WellFormed, NoParent
<1> HIDE DEF nd
<1>5. \A p \in 1..Len(nd.children) : lev[nd.children[p]] + 1 = lev[at] + 1
  <2>1. \A p \in 1..2 : <<at, N>>[p] = at \/ <<at, N>>[p] = N
    OBVIOUS
  <2>2. Len(<<at, N>>) = 2
    OBVIOUS
  <2> QED BY <1>2, <1>4, <2>1, <2>2
<1>6. /\ Stored(nodes') /\ Len(nodes') = N + 1 /\ nodes'[N + 1] = nd
      /\ \A m \in 1..N : nodes'[m] = nodes[m]
      /\ \E l : /\ Leveled(nodes', l) /\ l[N + 1] = lev[at] + 1
                /\ \A m \in 1..N : l[m] = lev[m]
  <2> DEFINE x == lev[at] + 1
  <2>1. /\ Stored(nodes) /\ Leveled(nodes, lev) /\ nd \in Node(Len(nodes)) /\ WellFormed(nd)
        /\ x \in Nat /\ nodes' = Append(nodes, nd)
    BY <1>1, <1>2, <1>4
  <2>2. nd.leaf => x = 0
    BY <1>4
  <2>3. ~nd.leaf => \A p \in 1..Len(nd.children) : lev[nd.children[p]] + 1 = x
    BY <1>5
  <2> HIDE DEF x
  <2>4. MayAppend(nodes, lev, nd, x, nodes')
    BY <2>1, <2>2, <2>3 DEF MayAppend
  <2>5. HasAppended(nodes, lev, nd, x, nodes')
    BY <2>4, Extended
  <2> QED BY <1>2, <2>5 DEF HasAppended, x
<1>7. PICK l : /\ Leveled(nodes', l) /\ l[N + 1] = lev[at] + 1
               /\ \A m \in 1..N : l[m] = lev[m]
  BY <1>6
<1>8. /\ Newest' = N + 1 /\ 1..(N + 1) = 1..N \cup {N + 1} /\ N + 1 \notin 1..N
      /\ (N + 1) - 1 = N /\ N \in 1..N /\ 1 < N + 1
  BY <1>2, <1>6 DEF Newest
<1>9. Shape(l)'
  <2>1. Fits(l)'
    BY <1>1, <1>2, <1>6, <1>7, <1>8 DEF Fits, Bulky
  <2> QED BY <1>1, <1>2, <1>6, <1>7, <1>8, <2>1 DEF Shape
<1>10. ASSUME Parents(lev) PROVE Parents(l)'
  <2>1. /\ \A n \in 1..N : nodes[n].parent # NoParent => lev[nodes[n].parent] = lev[n] + 1
        /\ \A n \in 1..N : nodes[n].leaf /\ n \notin {at, N} => nodes[n].parent # NoParent
    BY <1>1, <1>2, <1>10 DEF Parents, Orphans
  <2>2. Orphans' = {at, N}
    BY <1>1, <1>8 DEF Orphans
  <2>3. \A n \in 1..N : nodes[n].parent # NoParent => nodes[n].parent \in 1..N
    BY ParentsTyped
  <2>5. \A n \in 1..(N + 1) : nodes'[n].parent # NoParent => l[nodes'[n].parent] = l[n] + 1
    BY <1>4, <1>6, <1>7, <1>8, <2>1, <2>3
  <2>6. \A n \in 1..(N + 1) : nodes'[n].leaf /\ n \notin Orphans' => nodes'[n].parent # NoParent
    BY <1>4, <1>6, <1>8, <2>1, <2>2
  <2> QED BY <1>1, <1>8, <2>5, <2>6 DEF Parents
<1> QED BY <1>9, <1>10

(***************************************************************************)
(* SetRootOffset keeps the shape.                                          *)
(***************************************************************************)
LEMMA SetRootShape ==
    ASSUME NEW lev, Shape(lev), SetRootOffset
    PROVE  Shape(lev)' /\ (Parents(lev) => Parents(lev)')
<1>1. /\ pc = "setRoot" /\ pc' = "adoptLeft" /\ at' = at /\ rootOffset' = Newest
      /\ kind' = kind /\ sib' = sib /\ nodes' = nodes /\ Newest' = Newest
  BY DEF SetRootOffset, locals, Newest
<1>2. /\ Stored(nodes) /\ Leveled(nodes, lev) /\ at \in 1..Newest
      /\ Newest \in Nat
      /\ 1 < Newest /\ lev[Newest] = lev[at] + 1 /\ lev[Newest - 1] = lev[at]
      /\ kind = "batch" => nodes[at].leaf
  BY <1>1, ParentsTyped DEF Shape, Fits
<1>3. Shape(lev)'
  <2>1. Fits(lev)'
    BY <1>1, <1>2 DEF Fits, Bulky
  <2> QED BY <1>1, <1>2, <2>1 DEF Shape
<1>4. ASSUME Parents(lev) PROVE Parents(lev)'
  <2>1. Orphans = {at, Newest - 1} /\ Orphans' = {at, Newest - 1}
    BY <1>1 DEF Orphans
  <2>2. /\ \A n \in 1..Newest : nodes[n].parent # NoParent => lev[nodes[n].parent] = lev[n] + 1
        /\ \A n \in 1..Newest : nodes[n].leaf /\ n \notin {at, Newest - 1} => nodes[n].parent # NoParent
    BY <1>2, <1>4, <2>1 DEF Parents
  <2> QED BY <1>1, <2>1, <2>2 DEF Parents
<1> QED BY <1>3, <1>4

(***************************************************************************)
(* AdoptLeft keeps the shape.                                              *)
(***************************************************************************)
LEMMA AdoptLeftShape ==
    ASSUME NEW lev, Shape(lev), AdoptLeft
    PROVE  Shape(lev)' /\ (Parents(lev) => Parents(lev)')
<1> DEFINE N == Newest
           nd == [nodes[at] EXCEPT !.isRoot = FALSE, !.parent = rootOffset]
<1>1. /\ pc = "adoptLeft" /\ pc' = "adoptRight" /\ at' = at /\ rootOffset' = rootOffset
      /\ kind' = kind /\ sib' = sib /\ nodes' = [nodes EXCEPT ![at] = nd]
  BY DEF AdoptLeft, locals
<1>2. /\ Stored(nodes) /\ Leveled(nodes, lev) /\ at \in 1..N /\ rootOffset = N
      /\ N \in Nat /\ N = Len(nodes)
      /\ 1 < N /\ lev[N] = lev[at] + 1 /\ lev[N - 1] = lev[at]
      /\ kind = "batch" => nodes[at].leaf
  BY <1>1, ParentsTyped DEF Shape, Fits
<1>3. nodes[at] \in Node(N) /\ WellFormed(nodes[at])
  BY <1>2, StoredFacts
<1>4. /\ nd \in Node(N) /\ WellFormed(nd) /\ nd.leaf = nodes[at].leaf /\ nd.parent = N
      /\ nd.children = nodes[at].children
  <2> DEFINE h == nodes[at]
  <2>1. h \in Node(N) /\ WellFormed(h) /\ FALSE \in BOOLEAN /\ rootOffset \in 0..N
    BY <1>2, <1>3
  <2> HIDE DEF h, N
  <2>2. nd = [h EXCEPT !.isRoot = FALSE, !.parent = rootOffset]
    BY DEF h
  <2>3. /\ nd \in Node(N) /\ nd.leaf = h.leaf /\ nd.parent = rootOffset
        /\ nd.children = h.children /\ nd.keys = h.keys /\ nd.values = h.values
    BY <2>1, <2>2 DEF Node
  <2> HIDE DEF nd
  <2>4. WellFormed(nd)
    BY <2>1, <2>3 DEF WellFormed
  <2> QED BY <1>2, <2>3, <2>4 DEF h
<1> HIDE DEF nd
<1>5. /\ Stored(nodes') /\ Leveled(nodes', lev) /\ Len(nodes') = N /\ nodes'[at] = nd
      /\ \A m \in 1..N : m # at => nodes'[m] = nodes[m]
  <2>1. ~nd.leaf => \A p \in 1..Len(nd.children) : lev[nd.children[p]] + 1 = lev[at]
    BY <1>2, <1>4, LevelFacts
  <2>2. MayReplace(nodes, lev, at, nd, nodes')
    BY <1>1, <1>2, <1>4, <2>1 DEF MayReplace
  <2>3. HasReplaced(nodes, lev, at, nd, nodes')
    BY <2>2, Rewritten
  <2> QED BY <1>2, <2>3 DEF HasReplaced
<1>6. Newest' = N
  BY <1>5 DEF Newest
<1>7. Shape(lev)'
  <2>1. Fits(lev)'
    BY <1>1, <1>2, <1>4, <1>5, <1>6 DEF Fits, Bulky
  <2>2. rootOffset' \in 1..N
    BY <1>1, <1>2
  <2> QED BY <1>1, <1>2, <1>5, <1>6, <2>1, <2>2 DEF Shape
<1>8. ASSUME Parents(lev) PROVE Parents(lev)'
  <2>1. Orphans = {at, N - 1} /\ Orphans' = {N - 1}
    BY <1>1, <1>6 DEF Orphans
  <2>2. /\ \A n \in 1..N : nodes[n].parent # NoParent => lev[nodes[n].parent] = lev[n] + 1
        /\ \A n \in 1..N : nodes[n].leaf /\ n \notin {at, N - 1} => nodes[n].parent # NoParent
    BY <1>2, <1>8, <2>1 DEF Parents
  <2>3. \A n \in 1..N : nodes'[n].parent # NoParent => lev[nodes'[n].parent] = lev[n] + 1
    BY <1>2, <1>4, <1>5, <2>2
  <2>4. \A n \in 1..N : nodes'[n].leaf /\ n \notin {N - 1} => nodes'[n].parent # NoParent
    BY <1>2, <1>4, <1>5, <2>2 DEF NoParent
  <2> QED BY <1>1, <1>6, <2>1, <2>3, <2>4 DEF Parents
<1> QED BY <1>7, <1>8

(***************************************************************************)
(* AdoptRight keeps the shape.                                             *)
(***************************************************************************)
LEMMA AdoptRightShape ==
    ASSUME NEW lev, Shape(lev), AdoptRight
    PROVE  Shape(lev)' /\ (Parents(lev) => Parents(lev)')
<1> DEFINE N == Newest
           r == N - 1
           nd == [nodes[r] EXCEPT !.parent = rootOffset]
<1>1. /\ pc = "adoptRight" /\ rootOffset' = rootOffset
      /\ kind' = kind /\ nodes' = [nodes EXCEPT ![r] = nd]
      /\ \/ kind = "insert" /\ at' = rootOffset /\ pc' = "descend"
         \/ kind = "batch" /\ at' \in {at, r} /\ pc' = "batchPut"
  BY DEF AdoptRight, Half, Newest
<1>2. /\ Stored(nodes) /\ Leveled(nodes, lev) /\ at \in 1..N /\ rootOffset = N
      /\ N \in Nat /\ N = Len(nodes)
      /\ 1 < N /\ lev[N] = lev[at] + 1 /\ lev[r] = lev[at]
      /\ kind = "batch" => nodes[at].leaf
  BY <1>1, ParentsTyped DEF Shape, Fits
<1>9. r \in 1..N
  BY <1>2
<1> HIDE DEF r
<1>3. nodes[r] \in Node(N) /\ WellFormed(nodes[r])
  BY <1>2, <1>9, StoredFacts
<1>4. /\ nd \in Node(N) /\ WellFormed(nd) /\ nd.leaf = nodes[r].leaf /\ nd.parent = N
      /\ nd.children = nodes[r].children /\ nd.isRoot = nodes[r].isRoot
  <2> DEFINE h == nodes[r]
  <2>1. h \in Node(N) /\ WellFormed(h) /\ rootOffset \in 0..N
    BY <1>2, <1>3
  <2> HIDE DEF h, N
  <2>2. nd = [h EXCEPT !.parent = rootOffset]
    BY DEF h
  <2>3. /\ nd \in Node(N) /\ nd.leaf = h.leaf /\ nd.parent = rootOffset
        /\ nd.children = h.children /\ nd.isRoot = h.isRoot /\ nd.keys = h.keys
        /\ nd.values = h.values
    BY <2>1, <2>2 DEF Node
  <2> HIDE DEF nd
  <2>4. WellFormed(nd)
    BY <2>1, <2>3 DEF WellFormed
  <2> QED BY <1>2, <2>3, <2>4 DEF h
<1> HIDE DEF nd
<1>5. /\ Stored(nodes') /\ Leveled(nodes', lev) /\ Len(nodes') = N /\ nodes'[r] = nd
      /\ \A m \in 1..N : m # r => nodes'[m] = nodes[m]
  <2>1. ~nd.leaf => \A p \in 1..Len(nd.children) : lev[nd.children[p]] + 1 = lev[r]
    BY <1>2, <1>4, <1>9, LevelFacts
  <2>2. MayReplace(nodes, lev, r, nd, nodes')
    BY <1>1, <1>2, <1>4, <1>9, <2>1 DEF MayReplace
  <2>3. HasReplaced(nodes, lev, r, nd, nodes')
    BY <2>2, Rewritten
  <2> QED BY <1>2, <2>3 DEF HasReplaced
<1>6. Newest' = N
  BY <1>5 DEF Newest
<1>7. Shape(lev)'
  <2>1. nodes[at].leaf => nodes[r].leaf
    BY <1>2, <1>9, LevelFacts
  <2>2. kind = "batch" => nodes'[at'].leaf
    BY <1>1, <1>2, <1>4, <1>5, <1>9, <2>1
  <2>3. Fits(lev)'
    BY <1>1, <2>2 DEF Fits, Bulky
  <2>4. rootOffset' \in 1..N /\ at' \in 1..N
    BY <1>1, <1>2, <1>9
  <2> QED BY <1>5, <1>6, <2>3, <2>4 DEF Shape
<1>8. ASSUME Parents(lev) PROVE Parents(lev)'
  <2>1. Orphans = {r} /\ Orphans' = {}
    BY <1>1, <1>6 DEF Orphans, r
  <2>2. /\ \A n \in 1..N : nodes[n].parent # NoParent => lev[nodes[n].parent] = lev[n] + 1
        /\ \A n \in 1..N : nodes[n].leaf /\ n \notin {r} => nodes[n].parent # NoParent
    BY <1>2, <1>8, <2>1 DEF Parents
  <2>3. \A n \in 1..N : nodes'[n].parent # NoParent => lev[nodes'[n].parent] = lev[n] + 1
    BY <1>2, <1>4, <1>5, <2>2
  <2>4. \A n \in 1..N : nodes'[n].leaf => nodes'[n].parent # NoParent
    BY <1>2, <1>4, <1>5, <2>2 DEF NoParent
  <2> QED BY <1>1, <1>6, <2>1, <2>3, <2>4 DEF Parents
<1> QED BY <1>7, <1>8

(***************************************************************************)
(* Descend keeps the shape: the sibling of the child is on the level of    *)
(* the child.                                                              *)
(***************************************************************************)
LEMMA DescendShape ==
    ASSUME NEW lev, Shape(lev), Descend
    PROVE  \E l : Shape(l)' /\ (Parents(lev) => Parents(l)')
<1> DEFINE N == Newest
<1>1. /\ pc = "descend" /\ ~nodes[at].leaf /\ rootOffset' = rootOffset /\ kind' = kind
      /\ Stored(nodes) /\ Leveled(nodes, lev) /\ rootOffset \in 1..N /\ at \in 1..N
      /\ N = Len(nodes) /\ N \in Nat /\ kind # "batch"
  BY ParentsTyped DEF Descend, Shape, Fits
<1>2. PICK p \in Positions(nodes[at].keys, entry[1]) :
        LET child == nodes[nodes[at].children[p]] IN
        \/ /\ ~IsFull(child)
           /\ at' = nodes[at].children[p]
           /\ UNCHANGED <<nodes, pc, slot>>
        \/ /\ IsFull(child)
           /\ nodes' = Append(nodes, SplitRight(child))
           /\ slot' = p
           /\ pc' = "link"
           /\ UNCHANGED at
  BY DEF Descend
<1> DEFINE c == nodes[at].children[p]
<1>3. /\ p \in 1..Len(nodes[at].children) /\ c \in 1..N /\ lev[c] + 1 = lev[at]
      /\ lev[c] \in Nat /\ lev[at] \in Nat /\ c # at
  <2>1. Len(nodes[at].keys) \in Nat
    BY <1>1, StoredFacts
  <2>2. p \in 1..(Len(nodes[at].keys) + 1)
    BY <2>1, PositionsIn
  <2>3. /\ p \in 1..Len(nodes[at].children) /\ c \in 1..N /\ lev[c] + 1 = lev[at]
        /\ lev[c] \in Nat /\ lev[at] \in Nat
    BY <1>1, <2>2, WayDown
  <2> HIDE DEF c
  <2> QED BY <2>3
<1> HIDE DEF c
<1>4. CASE ~IsFull(nodes[c]) /\ at' = c /\ UNCHANGED <<nodes, pc, slot>>
  <2>1. Shape(lev)'
    BY <1>1, <1>3, <1>4 DEF Shape, Fits, Newest, Bulky
  <2>2. ASSUME Parents(lev) PROVE Parents(lev)'
    <3>1. Orphans = {} /\ Orphans' = {}
      BY <1>1, <1>4 DEF Orphans
    <3>2. Newest' = Newest /\ nodes' = nodes /\ pc' = "descend"
      BY <1>1, <1>4 DEF Newest
    <3> QED BY <2>2, <3>1, <3>2 DEF Parents
  <2> QED BY <2>1, <2>2
<1>5. CASE /\ IsFull(nodes[c]) /\ nodes' = Append(nodes, SplitRight(nodes[c]))
           /\ slot' = p /\ pc' = "link" /\ at' = at
  <2> DEFINE nd == SplitRight(nodes[c])
  <2>1. nodes[c] \in Node(N) /\ WellFormed(nodes[c]) /\ nodes[c].leaf \in BOOLEAN
        /\ nodes[c].parent \in 0..N
    BY <1>1, <1>3, StoredFacts
  <2>2. /\ nd \in Node(N) /\ WellFormed(nd)
        /\ nd.leaf = nodes[c].leaf /\ nd.isRoot = FALSE /\ nd.parent = nodes[c].parent
    <3> DEFINE h == nodes[c]
    <3>1. h \in Node(N) /\ WellFormed(h) /\ IsFull(h)
      BY <1>5, <2>1
    <3> HIDE DEF h, N
    <3>2. /\ SplitRight(h) \in Node(N) /\ WellFormed(SplitRight(h))
          /\ SplitRight(h).leaf = h.leaf /\ SplitRight(h).isRoot = FALSE
          /\ SplitRight(h).parent = h.parent
      BY <1>1, <3>1, SplitRightFacts
    <3> QED BY <3>2 DEF h
  <2>3. ~nd.leaf => \A i \in 1..Len(nd.children) : lev[nd.children[i]] + 1 = lev[c]
    <3>1. /\ Stored(nodes) /\ Leveled(nodes, lev) /\ c \in 1..Len(nodes) /\ IsFull(nodes[c])
      BY <1>1, <1>3, <1>5
    <3>2. ~nodes[c].leaf => \A i \in 1..Len(SplitRight(nodes[c]).children) :
                               lev[SplitRight(nodes[c]).children[i]] + 1 = lev[c]
      BY <3>1, SplitLevels
    <3> QED BY <2>2, <3>2
  <2>4. nd.leaf => lev[c] = 0
    <3>1. /\ Stored(nodes) /\ Leveled(nodes, lev) /\ c \in 1..Len(nodes)
      BY <1>1, <1>3, <1>5
    <3>2. nodes[c].leaf <=> lev[c] = 0
      BY <3>1, LevelFacts
    <3> QED BY <2>2, <3>2
  <2> HIDE DEF nd
  <2>5. HasAppended(nodes, lev, nd, lev[c], nodes')
    <3> DEFINE x == lev[c]
    <3>1. x \in Nat /\ nodes' = Append(nodes, nd) /\ nd \in Node(Len(nodes))
      BY <1>1, <1>3, <1>5, <2>2 DEF nd
    <3>2. (nd.leaf => x = 0) /\ (~nd.leaf => \A i \in 1..Len(nd.children) : lev[nd.children[i]] + 1 = x)
      BY <2>3, <2>4
    <3> HIDE DEF x
    <3>3. MayAppend(nodes, lev, nd, x, nodes')
      BY <1>1, <2>2, <3>1, <3>2 DEF MayAppend
    <3>4. HasAppended(nodes, lev, nd, x, nodes')
      BY <3>3, Extended
    <3> QED BY <3>4 DEF x
  <2>6. /\ Stored(nodes') /\ Len(nodes') = N + 1 /\ nodes'[N + 1] = nd
        /\ \A m \in 1..N : nodes'[m] = nodes[m]
        /\ \E l : /\ Leveled(nodes', l) /\ l[N + 1] = lev[c]
                  /\ \A m \in 1..N : l[m] = lev[m]
    BY <1>1, <2>5 DEF HasAppended
  <2>7. PICK l : /\ Leveled(nodes', l) /\ l[N + 1] = lev[c]
                 /\ \A m \in 1..N : l[m] = lev[m]
    BY <2>6
  <2>8. Newest' = N + 1 /\ 1..(N + 1) = 1..N \cup {N + 1} /\ N + 1 \notin 1..N
    BY <1>1, <2>6 DEF Newest
  <2>9. Shape(l)'
    <3>1. nodes'[at] = nodes[at] /\ nodes'[c] = nodes[c] /\ l[at] = lev[at]
      BY <1>1, <1>3, <2>6, <2>7
    <3>2. Fits(l)'
      BY <1>1, <1>3, <1>5, <2>7, <2>8, <3>1 DEF Fits, Bulky, c
    <3> QED BY <1>1, <1>5, <2>6, <2>7, <2>8, <3>2 DEF Shape
  <2>10. ASSUME Parents(lev) PROVE Parents(l)'
    <3>1. Orphans = {} /\ Orphans' = {}
      BY <1>1, <1>5 DEF Orphans
    <3>2. N # 1
      BY <1>1, <1>3
    <3>3. /\ \A n \in 1..N : nodes[n].parent # NoParent => lev[nodes[n].parent] = lev[n] + 1
          /\ \A n \in 1..N : nodes[n].leaf => nodes[n].parent # NoParent
      BY <2>10, <3>1, <3>2 DEF Parents
    <3>4. \A n \in 1..N : nodes[n].parent # NoParent => nodes[n].parent \in 1..N
      BY ParentsTyped
    <3>5. \A n \in 1..(N + 1) : nodes'[n].parent # NoParent => l[nodes'[n].parent] = l[n] + 1
      <4>1. \A n \in 1..N : nodes'[n].parent # NoParent => l[nodes'[n].parent] = l[n] + 1
        BY <2>6, <2>7, <3>3, <3>4
      <4>2. nodes'[N + 1].parent = nodes[c].parent /\ l[N + 1] = lev[c]
        BY <2>2, <2>6, <2>7
      <4>3. nodes[c].parent # NoParent => l[nodes[c].parent] = lev[c] + 1
        BY <1>3, <2>7, <3>3, <3>4
      <4> QED BY <2>8, <4>1, <4>2, <4>3
    <3>6. \A n \in 1..(N + 1) : nodes'[n].leaf => nodes'[n].parent # NoParent
      BY <1>3, <2>2, <2>6, <2>8, <3>3
    <3> QED BY <1>5, <2>8, <3>5, <3>6 DEF Parents
  <2> QED BY <2>9, <2>10
<1> QED BY <1>2, <1>4, <1>5 DEF c

(***************************************************************************)
(* The newest node linked into a node one level above it, ...              *)
(***************************************************************************)
MayHang(lev, q, p, sep, nd, g) ==
    /\ Stored(nodes) /\ Leveled(nodes, lev) /\ q \in 1..Newest /\ ~nodes[q].leaf
    /\ Newest \in 1..Newest /\ lev[Newest] + 1 = lev[q]
    /\ p \in 1..Len(nodes[q].children) /\ sep \in Key
    /\ nd = LinkAt(nodes[q], p, sep, Newest)
    /\ g = [nodes EXCEPT ![q] = nd]

(***************************************************************************)
(* ... and what that leaves.                                               *)
(***************************************************************************)
HasHung(lev, q, p, sep, nd, g) ==
    /\ HasLinked(Newest, nodes[q], p, sep, Newest, nd)
    /\ Stored(g) /\ Leveled(g, lev) /\ Len(g) = Newest /\ g[q] = nd
    /\ \A m \in 1..Newest : m # q => g[m] = nodes[m]
    /\ \A m \in 1..Newest : /\ g[m].parent = nodes[m].parent /\ g[m].isRoot = nodes[m].isRoot
                            /\ g[m].leaf <=> nodes[m].leaf

(***************************************************************************)
(* Linking the newest node keeps the file stored and its levels.           *)
(***************************************************************************)
LEMMA Hung ==
    ASSUME NEW lev, NEW q, NEW p, NEW sep, NEW nd, NEW g, MayHang(lev, q, p, sep, nd, g)
    PROVE  HasHung(lev, q, p, sep, nd, g)
<1> DEFINE N == Newest
           h == nodes[q]
<1>1. /\ Stored(nodes) /\ Leveled(nodes, lev) /\ q \in 1..N /\ ~h.leaf
      /\ N \in 1..N /\ lev[N] + 1 = lev[q]
      /\ p \in 1..Len(h.children) /\ sep \in Key
      /\ nd = LinkAt(h, p, sep, N)
      /\ g = [nodes EXCEPT ![q] = nd]
      /\ N = Len(nodes) /\ N \in Nat
  BY StoredFacts DEF MayHang, Newest
<1>2. /\ h \in Node(N) /\ WellFormed(h) /\ h.leaf = FALSE
      /\ Len(h.children) = Len(h.keys) + 1 /\ Len(h.keys) \in Nat
      /\ \A j \in 1..Len(h.children) : h.children[j] \in 1..N
  BY <1>1, StoredFacts
<1>0. \A j \in 1..Len(h.children) : lev[h.children[j]] + 1 = lev[q]
  BY <1>1, LevelFacts
<1> HIDE DEF h, N
<1>3. HasLinked(N, h, p, sep, N, nd)
  <2>1. MayLink(N, h, p, sep, N, nd)
    BY <1>1, <1>2 DEF MayLink
  <2> QED BY <2>1, LinkFacts
<1>4. /\ nd \in Node(N) /\ WellFormed(nd)
      /\ nd.leaf = FALSE /\ nd.isRoot = h.isRoot /\ nd.parent = h.parent
      /\ Len(nd.children) = Len(h.keys) + 2
      /\ \A i \in 1..p : nd.children[i] = h.children[i]
      /\ nd.children[p + 1] = N
      /\ \A i \in (p + 2)..(Len(h.keys) + 2) : nd.children[i] = h.children[i - 1]
  BY <1>3 DEF HasLinked
<1>5. \A i \in 1..Len(nd.children) : lev[nd.children[i]] + 1 = lev[q]
  <2> TAKE i \in 1..Len(nd.children)
  <2>1. CASE i \in 1..p
    <3>1. i \in 1..Len(h.children)
      BY <1>1, <1>2, <2>1
    <3> QED BY <1>0, <1>4, <2>1, <3>1
  <2>2. CASE i = p + 1
    BY <1>1, <1>4, <2>2
  <2>3. CASE i \in (p + 2)..(Len(h.keys) + 2)
    <3>1. i - 1 \in 1..Len(h.children)
      BY <1>1, <1>2, <2>3
    <3>2. nd.children[i] = h.children[i - 1]
      BY <1>4, <2>3
    <3> QED BY <1>0, <3>1, <3>2
  <2>4. i \in 1..p \/ i = p + 1 \/ i \in (p + 2)..(Len(h.keys) + 2)
    BY <1>1, <1>2, <1>4
  <2> QED BY <2>1, <2>2, <2>3, <2>4
<1>6. /\ Stored(g) /\ Leveled(g, lev) /\ Len(g) = N /\ g[q] = nd
      /\ \A m \in 1..N : m # q => g[m] = nodes[m]
  <2>1. nd.leaf = nodes[q].leaf /\ q \in 1..Len(nodes) /\ nd \in Node(Len(nodes))
    BY <1>1, <1>2, <1>4 DEF h
  <2>2. MayReplace(nodes, lev, q, nd, g)
    BY <1>1, <1>4, <1>5, <2>1 DEF MayReplace
  <2>3. HasReplaced(nodes, lev, q, nd, g)
    BY <2>2, Rewritten
  <2> QED BY <1>1, <2>3 DEF HasReplaced
<1>7. \A m \in 1..N : /\ g[m].parent = nodes[m].parent /\ g[m].isRoot = nodes[m].isRoot
                      /\ g[m].leaf <=> nodes[m].leaf
  BY <1>2, <1>4, <1>6 DEF h
<1> QED BY <1>3, <1>6, <1>7 DEF HasHung, N, h

(***************************************************************************)
(* LinkSibling keeps the shape.                                            *)
(***************************************************************************)
LEMMA LinkSiblingShape ==
    ASSUME NEW lev, Shape(lev), LinkSibling
    PROVE  Shape(lev)' /\ (Parents(lev) => Parents(lev)')
<1> DEFINE N == Newest
           c == nodes[at].children[slot]
           med1 == SplitMedian(nodes[c])
           nd == LinkAt(nodes[at], slot, med1, N)
<1>1. /\ pc = "link" /\ pc' = "descend" /\ rootOffset' = rootOffset /\ kind' = kind
      /\ Stored(nodes) /\ Leveled(nodes, lev) /\ rootOffset \in 1..N /\ at \in 1..N
      /\ N = Len(nodes) /\ N \in Nat
      /\ slot \in 1..Len(nodes[at].children) /\ IsFull(nodes[c]) /\ lev[N] + 1 = lev[at]
  BY ParentsTyped DEF LinkSibling, Shape, Fits
<1>2. nodes' = [nodes EXCEPT ![at] = nd] /\ at' \in {c, N}
  BY DEF LinkSibling, Newest
<1>3. N \in 1..N
  BY <1>1
<1>4. lev[N] \in Nat /\ lev[at] \in Nat /\ (nodes[at].leaf <=> lev[at] = 0)
  BY <1>1, <1>3, LevelFacts
<1>5. ~nodes[at].leaf
  BY <1>1, <1>4
<1>6. \A q \in 1..Len(nodes[at].children) : nodes[at].children[q] \in 1..N
  BY <1>1, <1>5, StoredFacts
<1>7. c \in 1..N
  BY <1>1, <1>6
<1>8. med1 \in Key
  <2>1. nodes[c] \in Node(N) /\ WellFormed(nodes[c]) /\ IsFull(nodes[c])
    BY <1>1, <1>7, StoredFacts
  <2> HIDE DEF c, N
  <2> QED BY <1>1, <2>1, MedianIsKey
<1>9. kind # "batch"
  BY <1>1, <1>5 DEF Shape, Fits
<1>10. nd = LinkAt(nodes[at], slot, med1, N)
  OBVIOUS
<1> HIDE DEF c, med1, nd
<1>11. HasHung(lev, at, slot, med1, nd, nodes')
  <2>1. MayHang(lev, at, slot, med1, nd, nodes')
    BY <1>1, <1>2, <1>3, <1>5, <1>8, <1>10 DEF MayHang
  <2> QED BY <2>1, Hung
<1>12. /\ Stored(nodes') /\ Leveled(nodes', lev) /\ Len(nodes') = N
       /\ \A m \in 1..N : /\ nodes'[m].parent = nodes[m].parent
                          /\ nodes'[m].isRoot = nodes[m].isRoot
                          /\ nodes'[m].leaf <=> nodes[m].leaf
  BY <1>11 DEF HasHung
<1>13. Newest' = N
  BY <1>1, <1>12 DEF Newest
<1>14. Shape(lev)'
  <2>1. Fits(lev)'
    BY <1>1, <1>9 DEF Fits, Bulky
  <2>2. at' \in 1..N
    BY <1>2, <1>3, <1>7
  <2> QED BY <1>1, <1>12, <1>13, <2>1, <2>2 DEF Shape
<1>15. ASSUME Parents(lev) PROVE Parents(lev)'
  <2>1. Orphans = {} /\ Orphans' = {}
    BY <1>1 DEF Orphans
  <2>2. /\ \A n \in 1..N : nodes[n].parent # NoParent => lev[nodes[n].parent] = lev[n] + 1
        /\ \A n \in 1..N : nodes[n].leaf => nodes[n].parent # NoParent \/ (nodes[n].isRoot /\ N = 1)
    BY <1>15, <2>1 DEF Parents
  <2> QED BY <1>1, <1>12, <1>13, <2>1, <2>2 DEF Parents
<1> QED BY <1>14, <1>15
-----------------------------------------------------------------------------
(* The stores of a leaf. *)

(***************************************************************************)
(* A leaf stored over the one the writer is at.                            *)
(***************************************************************************)
LeafStored(nd) ==
    /\ pc \in {"descend", "batchEntry", "batchPut"}
    /\ nodes[at].leaf
    /\ nd \in Node(Newest) /\ WellFormed(nd)
    /\ nd.leaf = TRUE /\ nd.isRoot = nodes[at].isRoot /\ nd.parent = nodes[at].parent
    /\ nodes' = [nodes EXCEPT ![at] = nd]
    /\ rootOffset' \in {rootOffset, at}
    /\ \/ pc' = "idle" /\ at' = 1 /\ kind' = "insert"
       \/ pc' = "batchEntry" /\ at' = at /\ kind' = kind

(***************************************************************************)
(* ... keeps the shape, whatever pairs it has.                             *)
(***************************************************************************)
LEMMA LeafStoredShape ==
    ASSUME NEW lev, Shape(lev), NEW nd, LeafStored(nd)
    PROVE  Shape(lev)' /\ (Parents(lev) => Parents(lev)')
<1> DEFINE N == Newest
<1>1. /\ Stored(nodes) /\ Leveled(nodes, lev) /\ at \in 1..N /\ rootOffset \in 1..N
      /\ N \in Nat /\ N = Len(nodes)
  BY ParentsTyped DEF Shape
<1>2. /\ pc \in {"descend", "batchEntry", "batchPut"} /\ nodes[at].leaf
      /\ nd \in Node(N) /\ WellFormed(nd)
      /\ nd.leaf = TRUE /\ nd.isRoot = nodes[at].isRoot /\ nd.parent = nodes[at].parent
      /\ nodes' = [nodes EXCEPT ![at] = nd]
      /\ rootOffset' \in {rootOffset, at}
      /\ \/ pc' = "idle" /\ at' = 1 /\ kind' = "insert"
         \/ pc' = "batchEntry" /\ at' = at /\ kind' = kind
  BY DEF LeafStored
<1>3. /\ Stored(nodes') /\ Leveled(nodes', lev) /\ Len(nodes') = N /\ nodes'[at] = nd
      /\ \A m \in 1..N : m # at => nodes'[m] = nodes[m]
  <2>1. nd.leaf = nodes[at].leaf
    BY <1>1, <1>2, StoredFacts
  <2>2. MayReplace(nodes, lev, at, nd, nodes')
    BY <1>1, <1>2, <2>1 DEF MayReplace
  <2>3. HasReplaced(nodes, lev, at, nd, nodes')
    BY <2>2, Rewritten
  <2> QED BY <1>1, <2>3 DEF HasReplaced
<1>4. Newest' = N
  BY <1>3 DEF Newest
<1>5. Shape(lev)'
  <2>1. Fits(lev)'
    BY <1>2, <1>3 DEF Fits, Bulky
  <2>2. at' \in 1..N /\ rootOffset' \in 1..N
    BY <1>1, <1>2
  <2> QED BY <1>3, <1>4, <2>1, <2>2 DEF Shape
<1>6. ASSUME Parents(lev) PROVE Parents(lev)'
  <2>1. Orphans = {} /\ Orphans' = {}
    BY <1>2 DEF Orphans
  <2>2. /\ \A n \in 1..N : nodes[n].parent # NoParent => lev[nodes[n].parent] = lev[n] + 1
        /\ \A n \in 1..N : nodes[n].leaf => nodes[n].parent # NoParent \/ (nodes[n].isRoot /\ N = 1)
    BY <1>6, <2>1 DEF Parents
  <2>3. \A n \in 1..N : nodes'[n].parent = nodes[n].parent /\ (nodes'[n].leaf => nodes[n].leaf)
                        /\ nodes'[n].isRoot = nodes[n].isRoot
    BY <1>2, <1>3
  <2> QED BY <1>2, <1>4, <2>1, <2>2, <2>3 DEF Parents
<1> QED BY <1>5, <1>6

(***************************************************************************)
(* The leaf that inserting the entry gives.                                *)
(***************************************************************************)
LEMMA LeafPut ==
    ASSUME NEW lev, Shape(lev), Writer, todo # <<>>, nodes[at].leaf,
           NEW p \in Positions(nodes[at].keys, entry[1])
    PROVE  HasPut(Newest, nodes[at], p, entry[1], entry[2], PutAt(nodes[at], p, entry[1], entry[2]))
<1> DEFINE N == Newest
           h == nodes[at]
           k == entry[1]
           v == entry[2]
           n == PutAt(h, p, k, v)
<1>1. /\ N \in Nat /\ h \in Node(N) /\ WellFormed(h) /\ h.leaf
      /\ k \in Key /\ v \in Value
  <2>1. Stored(nodes) /\ at \in 1..N /\ N = Len(nodes) /\ N \in Nat
    BY ParentsTyped DEF Shape
  <2> QED BY <2>1, StoredFacts, EntryTyped
<1>2. p \in 1..(Len(h.keys) + 1)
  <2>1. Len(h.keys) \in Nat
    BY <1>1, NodeFields
  <2> QED BY <2>1, PositionsIn
<1>3. n = PutAt(h, p, k, v)
  OBVIOUS
<1> HIDE DEF n, h, k, v, N
<1>4. MayPut(N, h, p, k, v, n)
  BY <1>1, <1>2, <1>3 DEF MayPut
<1>5. HasPut(N, h, p, k, v, n)
  BY <1>4, PutFacts
<1> QED BY <1>5 DEF n, h, k, v, N

(***************************************************************************)
(* The leaf that overwriting the entry gives.                              *)
(***************************************************************************)
LEMMA LeafOverwrite ==
    ASSUME NEW lev, Shape(lev), Writer, todo # <<>>, nodes[at].leaf,
           NEW p \in Hits(nodes[at].keys, entry[1])
    PROVE  HasOverwritten(Newest, nodes[at], p, entry[2], OverwriteAt(nodes[at], p, entry[2]))
<1> DEFINE N == Newest
           h == nodes[at]
           v == entry[2]
           n == OverwriteAt(h, p, v)
<1>1. /\ N \in Nat /\ h \in Node(N) /\ WellFormed(h) /\ h.leaf
      /\ v \in Value /\ p \in 1..Len(h.keys)
  <2>1. Stored(nodes) /\ at \in 1..N /\ N = Len(nodes) /\ N \in Nat
    BY ParentsTyped DEF Shape
  <2>2. p \in 1..Len(h.keys)
    BY DEF Hits
  <2> QED BY <2>1, <2>2, StoredFacts, EntryTyped
<1>3. n = OverwriteAt(h, p, v)
  OBVIOUS
<1> HIDE DEF n, h, v, N
<1>4. MayOverwrite(N, h, p, v, n)
  BY <1>1, <1>3 DEF MayOverwrite
<1>5. HasOverwritten(N, h, p, v, n)
  BY <1>4, OverwriteFacts
<1> QED BY <1>5 DEF n, h, v, N

(***************************************************************************)
(* StoreLeaf keeps the shape.                                              *)
(***************************************************************************)
LEMMA StoreLeafShape ==
    ASSUME NEW lev, Shape(lev), Writer, StoreLeaf
    PROVE  Shape(lev)' /\ (Parents(lev) => Parents(lev)')
<1>1. /\ pc = "descend" /\ nodes[at].leaf /\ pc' = "idle" /\ at' = 1 /\ kind' = "insert"
      /\ rootOffset' \in {rootOffset, at} /\ todo # <<>>
  BY DEF StoreLeaf, Return, Writer
<1>2. PICK p \in Positions(nodes[at].keys, entry[1]) :
           nodes' = [nodes EXCEPT ![at] =
               IF p \in Hits(@.keys, entry[1])
               THEN OverwriteAt(@, p, entry[2])
               ELSE PutAt(@, p, entry[1], entry[2])]
  BY DEF StoreLeaf
<1>3. CASE p \in Hits(nodes[at].keys, entry[1])
  <2> DEFINE nd == OverwriteAt(nodes[at], p, entry[2])
  <2>1. HasOverwritten(Newest, nodes[at], p, entry[2], nd)
    BY <1>1, <1>3, LeafOverwrite
  <2>2. nodes' = [nodes EXCEPT ![at] = nd]
    BY <1>2, <1>3
  <2> HIDE DEF nd
  <2>3. LeafStored(nd)
    BY <1>1, <2>1, <2>2 DEF LeafStored, HasOverwritten
  <2> QED BY <2>3, LeafStoredShape
<1>4. CASE p \notin Hits(nodes[at].keys, entry[1])
  <2> DEFINE nd == PutAt(nodes[at], p, entry[1], entry[2])
  <2>1. HasPut(Newest, nodes[at], p, entry[1], entry[2], nd)
    BY <1>1, LeafPut
  <2>2. nodes' = [nodes EXCEPT ![at] = nd]
    BY <1>2, <1>4
  <2> HIDE DEF nd
  <2>3. LeafStored(nd)
    BY <1>1, <2>1, <2>2 DEF LeafStored, HasPut
  <2> QED BY <2>3, LeafStoredShape
<1> QED BY <1>3, <1>4

(***************************************************************************)
(* PutEntry keeps the shape.                                               *)
(***************************************************************************)
LEMMA PutEntryShape ==
    ASSUME NEW lev, Shape(lev), Writer, PutEntry, pc \in {"batchEntry", "batchPut"}
    PROVE  Shape(lev)' /\ (Parents(lev) => Parents(lev)')
<1>1. /\ todo # <<>> /\ nodes[at].leaf /\ rootOffset' = rootOffset
      /\ \/ pc' = "idle" /\ at' = 1 /\ kind' = "insert"
         \/ pc' = "batchEntry" /\ at' = at /\ kind' = kind
  BY DEF PutEntry, Return, Writer, Shape, Fits, Bulky
<1>2. PICK p \in Positions(nodes[at].keys, entry[1]) :
           nodes' = [nodes EXCEPT ![at] = PutAt(@, p, entry[1], entry[2])]
  BY DEF PutEntry
<1> DEFINE nd == PutAt(nodes[at], p, entry[1], entry[2])
<1>3. HasPut(Newest, nodes[at], p, entry[1], entry[2], nd)
  BY <1>1, LeafPut
<1>4. nodes' = [nodes EXCEPT ![at] = nd]
  BY <1>2
<1> HIDE DEF nd
<1>5. LeafStored(nd)
  BY <1>1, <1>3, <1>4 DEF LeafStored, HasPut
<1> QED BY <1>5, LeafStoredShape
-----------------------------------------------------------------------------
(* The actions of batch_insert, and a crash. *)

(***************************************************************************)
(* BatchInsert keeps the shape: its search ends at a leaf.                 *)
(***************************************************************************)
LEMMA BatchInsertShape ==
    ASSUME NEW lev, Shape(lev), NEW entries \in Batches, BatchInsert(entries)
    PROVE  Shape(lev)' /\ (Parents(lev) => Parents(lev)')
<1> DEFINE N == Newest
           key == entries[1][1]
<1>1. /\ pc = "idle" /\ pc' = "batchEntry" /\ nodes' = nodes /\ rootOffset' = rootOffset
      /\ at' \in LeavesIn(nodes, rootOffset, key)
  BY DEF BatchInsert, disk, Leaves, LeavesUnder
<1>2. /\ Stored(nodes) /\ Leveled(nodes, lev) /\ rootOffset \in 1..N /\ N = Len(nodes)
  BY DEF Shape, Newest
<1>3. at' \in 1..N /\ nodes[at'].leaf
  <2> HIDE DEF key
  <2>1. \A m \in LeavesIn(nodes, rootOffset, key) : m \in 1..Len(nodes) /\ nodes[m].leaf
    <3>1. rootOffset \in 1..Len(nodes)
      BY <1>2
    <3> QED BY <1>2, <3>1, LeavesTyped
  <2> QED BY <1>1, <1>2, <2>1
<1>4. Newest' = N
  BY <1>1 DEF Newest
<1>5. Shape(lev)'
  <2>1. Fits(lev)'
    BY <1>1, <1>3 DEF Fits
  <2> QED BY <1>1, <1>2, <1>3, <1>4, <2>1 DEF Shape
<1>6. ASSUME Parents(lev) PROVE Parents(lev)'
  <2>1. Orphans = {} /\ Orphans' = {}
    BY <1>1 DEF Orphans
  <2> QED BY <1>1, <1>4, <1>6, <2>1 DEF Parents
<1> QED BY <1>5, <1>6

(***************************************************************************)
(* BatchSibling keeps the shape.                                           *)
(***************************************************************************)
LEMMA BatchSiblingShape ==
    ASSUME NEW lev, Shape(lev), BatchSibling
    PROVE  \E l : Shape(l)' /\ (Parents(lev) => Parents(l)')
<1> DEFINE N == Newest
           h == nodes[at]
           nd == SplitRight(h)
<1>1. /\ pc = "batchEntry" /\ pc' = "batchLeft" /\ nodes' = Append(nodes, nd) /\ IsFull(h)
      /\ rootOffset' = rootOffset /\ kind' = kind /\ at' = at
  BY DEF BatchSibling
<1>2. /\ Stored(nodes) /\ Leveled(nodes, lev) /\ rootOffset \in 1..N /\ at \in 1..N
      /\ N = Len(nodes) /\ N \in Nat /\ h.leaf /\ lev[at] = 0
  BY <1>1, ParentsTyped DEF Shape, Fits, Bulky
<1>3. h \in Node(N) /\ WellFormed(h)
  BY <1>2, StoredFacts
<1> HIDE DEF h, N
<1>4. /\ nd \in Node(N) /\ WellFormed(nd)
      /\ nd.leaf = h.leaf /\ nd.isRoot = FALSE /\ nd.parent = h.parent
  BY <1>1, <1>2, <1>3, SplitRightFacts
<1> HIDE DEF nd
<1>5. HasAppended(nodes, lev, nd, 0, nodes')
  <2>1. MayAppend(nodes, lev, nd, 0, nodes')
    BY <1>1, <1>2, <1>4 DEF MayAppend
  <2> QED BY <2>1, Extended
<1>6. /\ Stored(nodes') /\ Len(nodes') = N + 1 /\ nodes'[N + 1] = nd
      /\ \A m \in 1..N : nodes'[m] = nodes[m]
  BY <1>2, <1>5 DEF HasAppended
<1>7. PICK l : /\ Leveled(nodes', l) /\ l[N + 1] = 0
               /\ \A m \in 1..N : l[m] = lev[m]
  BY <1>2, <1>5 DEF HasAppended
<1>8. Newest' = N + 1 /\ 1..(N + 1) = 1..N \cup {N + 1} /\ N + 1 \notin 1..N
  BY <1>2, <1>6 DEF Newest
<1>9. nodes'[at] = h /\ l[at] = 0
  BY <1>2, <1>6, <1>7 DEF h
<1>10. Shape(l)'
  <2>1. Fits(l)'
    BY <1>1, <1>2, <1>7, <1>8, <1>9 DEF Fits, Bulky
  <2> QED BY <1>1, <1>2, <1>6, <1>7, <1>8, <2>1 DEF Shape
<1>11. ASSUME Parents(lev) PROVE Parents(l)'
  <2>1. Orphans = {} /\ Orphans' = {at, N + 1}
    BY <1>1, <1>8 DEF Orphans
  <2>2. /\ \A n \in 1..N : nodes[n].parent # NoParent => lev[nodes[n].parent] = lev[n] + 1
        /\ \A n \in 1..N : nodes[n].leaf => nodes[n].parent # NoParent \/ (nodes[n].isRoot /\ N = 1)
    BY <1>11, <2>1 DEF Parents, N
  <2>3. \A n \in 1..N : nodes[n].parent # NoParent => nodes[n].parent \in 1..N
    BY ParentsTyped DEF N
  <2>4. \A n \in 1..(N + 1) : nodes'[n].parent # NoParent => l[nodes'[n].parent] = l[n] + 1
    <3>1. \A n \in 1..N : nodes'[n].parent # NoParent => l[nodes'[n].parent] = l[n] + 1
      BY <1>6, <1>7, <2>2, <2>3
    <3>2. nodes'[N + 1].parent = h.parent /\ l[N + 1] = l[at]
      BY <1>4, <1>6, <1>7, <1>9
    <3>3. h.parent # NoParent => l[h.parent] = l[at] + 1
      BY <1>2, <1>6, <3>1, <1>9
    <3> QED BY <1>8, <3>1, <3>2, <3>3
  <2>5. \A n \in 1..(N + 1) : nodes'[n].leaf /\ n \notin {at, N + 1} => nodes'[n].parent # NoParent
    <3>1. \A n \in 1..N : n # at => N # 1
      BY <1>2
    <3> QED BY <1>6, <1>8, <2>2, <3>1
  <2>6. at # N + 1 /\ nodes'[N + 1].parent = nodes'[at].parent
    BY <1>2, <1>4, <1>6, <1>8, <1>9
  <2>7. nodes'[at].isRoot \/ nodes'[at].parent # NoParent
    BY <1>2, <1>9, <2>2 DEF h
  <2> QED BY <1>1, <1>8, <2>1, <2>4, <2>5, <2>6, <2>7 DEF Parents
<1> QED BY <1>10, <1>11

(***************************************************************************)
(* BatchLeft keeps the shape.                                              *)
(***************************************************************************)
LEMMA BatchLeftShape ==
    ASSUME NEW lev, Shape(lev), BatchLeft
    PROVE  Shape(lev)' /\ (Parents(lev) => Parents(lev)')
<1> DEFINE N == Newest
           h == nodes[at]
           nd == SplitLeft(h)
<1>1. /\ pc = "batchLeft" /\ nodes' = [nodes EXCEPT ![at] = nd]
      /\ rootOffset' = rootOffset /\ kind' = kind /\ at' = at
      /\ \/ h.isRoot /\ pc' = "growRoot"
         \/ ~h.isRoot /\ pc' = "batchParent"
  BY DEF BatchLeft
<1>2. /\ Stored(nodes) /\ Leveled(nodes, lev) /\ rootOffset \in 1..N /\ at \in 1..N
      /\ N = Len(nodes) /\ N \in Nat /\ h.leaf /\ IsFull(h) /\ lev[N] = lev[at]
  BY <1>1, ParentsTyped DEF Shape, Fits, Bulky
<1>3. h \in Node(N) /\ WellFormed(h)
  BY <1>2, StoredFacts
<1> HIDE DEF h, N
<1>4. /\ nd \in Node(N) /\ WellFormed(nd)
      /\ nd.leaf = h.leaf /\ nd.isRoot = h.isRoot /\ nd.parent = h.parent
  BY <1>1, <1>2, <1>3, SplitLeftFacts
<1> HIDE DEF nd
<1>5. /\ Stored(nodes') /\ Leveled(nodes', lev) /\ Len(nodes') = N /\ nodes'[at] = nd
      /\ \A m \in 1..N : m # at => nodes'[m] = nodes[m]
  <2>1. MayReplace(nodes, lev, at, nd, nodes')
    BY <1>1, <1>2, <1>4 DEF MayReplace, h
  <2>2. HasReplaced(nodes, lev, at, nd, nodes')
    BY <2>1, Rewritten
  <2> QED BY <1>2, <2>2 DEF HasReplaced
<1>6. Newest' = N
  BY <1>5 DEF Newest
<1>7. Shape(lev)'
  <2>1. Fits(lev)'
    BY <1>1, <1>2, <1>4, <1>5, <1>6 DEF Fits, Bulky
  <2> QED BY <1>1, <1>2, <1>5, <1>6, <2>1 DEF Shape
<1>8. ASSUME Parents(lev) PROVE Parents(lev)'
  <2>1. Orphans = {at, N} /\ Orphans' \in {{at, N}, {}} /\ (pc' = "growRoot" => Orphans' = {at, N})
    BY <1>1, <1>6 DEF Orphans, N
  <2>2. /\ \A n \in 1..N : nodes[n].parent # NoParent => lev[nodes[n].parent] = lev[n] + 1
        /\ \A n \in 1..N : nodes[n].leaf /\ n \notin {at, N} => nodes[n].parent # NoParent \/ N = 1
        /\ at # N /\ nodes[N].parent = h.parent
        /\ h.isRoot \/ h.parent # NoParent
    BY <1>1, <1>8, <2>1 DEF Parents, N, h
  <2>3. N # 1
    BY <1>2, <2>2
  <2>4. \A n \in 1..N : nodes'[n].parent = nodes[n].parent /\ (nodes'[n].leaf => nodes[n].leaf)
    BY <1>4, <1>5 DEF h
  <2>5. \A n \in 1..N : nodes'[n].leaf /\ n \notin Orphans' => nodes'[n].parent # NoParent
    <3>1. CASE Orphans' = {at, N}
      BY <2>2, <2>3, <2>4, <3>1
    <3>2. CASE pc' # "growRoot"
      <4>1. nodes[at].parent # NoParent /\ nodes[N].parent # NoParent
        BY <1>1, <2>2, <3>2 DEF h
      <4> QED BY <2>2, <2>3, <2>4, <4>1
    <3> QED BY <2>1, <3>1, <3>2
  <2> QED BY <1>1, <1>6, <2>2, <2>4, <2>5 DEF Parents
<1> QED BY <1>7, <1>8

(***************************************************************************)
(* BatchParent keeps the shape: the parent it links the sibling to is one  *)
(* level up, because the leaf was not a root.                              *)
(***************************************************************************)
LEMMA BatchParentShape ==
    ASSUME NEW lev, Shape(lev), Parents(lev), Writer, BatchParent
    PROVE  Shape(lev)' /\ Parents(lev)'
<1> DEFINE N == Newest
           q == nodes[at].parent
<1>1. /\ pc = "batchParent" /\ pc' = "batchPut" /\ rootOffset' = rootOffset /\ kind' = kind
      /\ at' \in {at, N} /\ med \in Key
  BY DEF BatchParent, Half, Newest, Writer, Splitting
<1>2. PICK p \in Positions(nodes[q].keys, med) :
         nodes' = [nodes EXCEPT ![q] = LinkAt(nodes[q], p, med, N)]
  BY DEF BatchParent, Newest
<1>3. /\ Stored(nodes) /\ Leveled(nodes, lev) /\ rootOffset \in 1..N /\ at \in 1..N
      /\ N = Len(nodes) /\ N \in Nat /\ nodes[at].leaf /\ lev[N] = lev[at]
  BY <1>1, ParentsTyped DEF Shape, Fits, Bulky
<1>4. Orphans = {} /\ Orphans' = {}
  BY <1>1 DEF Orphans
<1>5. /\ \A n \in 1..N : nodes[n].parent # NoParent => lev[nodes[n].parent] = lev[n] + 1
      /\ \A n \in 1..N : nodes[n].leaf => nodes[n].parent # NoParent \/ (nodes[n].isRoot /\ N = 1)
      /\ at # N
  BY <1>1, <1>4 DEF Parents
<1>6. N # 1 /\ N \in 1..N
  BY <1>3, <1>5
<1>7. q # NoParent /\ q \in 1..N /\ lev[q] = lev[at] + 1
  <2>1. q # NoParent
    BY <1>3, <1>5, <1>6
  <2> QED BY <1>3, <1>5, <2>1, ParentsTyped
<1> HIDE DEF q
<1>8. /\ lev[q] \in Nat /\ lev[at] \in Nat /\ lev[at] = 0 /\ ~nodes[q].leaf
  <2>1. /\ \A n \in 1..N : lev[n] \in Nat /\ (nodes[n].leaf <=> lev[n] = 0)
    BY ParentsTyped
  <2> QED BY <1>3, <1>7, <2>1
<1>9. p \in 1..Len(nodes[q].children)
  <2>1. Len(nodes[q].children) = Len(nodes[q].keys) + 1 /\ Len(nodes[q].keys) \in Nat
    BY <1>3, <1>7, <1>8, StoredFacts
  <2> QED BY <2>1, PositionsIn
<1> DEFINE nd == LinkAt(nodes[q], p, med, N)
<1>10. nd = LinkAt(nodes[q], p, med, N) /\ nodes' = [nodes EXCEPT ![q] = nd]
  BY <1>2
<1> HIDE DEF nd
<1>11. HasHung(lev, q, p, med, nd, nodes')
  <2>1. MayHang(lev, q, p, med, nd, nodes')
    BY <1>1, <1>3, <1>6, <1>7, <1>8, <1>9, <1>10 DEF MayHang
  <2> QED BY <2>1, Hung
<1>12. /\ Stored(nodes') /\ Leveled(nodes', lev) /\ Len(nodes') = N
       /\ \A m \in 1..N : /\ nodes'[m].parent = nodes[m].parent
                          /\ nodes'[m].isRoot = nodes[m].isRoot
                          /\ nodes'[m].leaf <=> nodes[m].leaf
  BY <1>11 DEF HasHung
<1>13. Newest' = N
  BY <1>3, <1>12 DEF Newest
<1>14. nodes'[at'].leaf /\ at' \in 1..N
  <2>1. nodes[N].leaf
    BY <1>3, <1>6, <1>8, ParentsTyped
  <2>2. nodes'[N].leaf /\ nodes'[at].leaf
    BY <1>3, <1>6, <1>12, <2>1
  <2> QED BY <1>1, <1>3, <1>6, <2>2
<1>15. Shape(lev)'
  <2>1. Fits(lev)'
    BY <1>1, <1>14 DEF Fits
  <2> QED BY <1>1, <1>3, <1>12, <1>13, <1>14, <2>1 DEF Shape
<1>16. Parents(lev)'
  BY <1>1, <1>4, <1>5, <1>12, <1>13 DEF Parents
<1> QED BY <1>15, <1>16

(***************************************************************************)
(* Crash keeps the shape, though not the parent pointers.                  *)
(***************************************************************************)
LEMMA CrashShape ==
    ASSUME NEW lev, Shape(lev), Crash
    PROVE  Shape(lev)'
<1>1. /\ pc' = "idle" /\ kind' = "insert" /\ at' = 1 /\ nodes' = nodes /\ rootOffset' = rootOffset
  BY DEF Crash, Return, disk
<1>2. 1 \in 1..Newest /\ Newest' = Newest
  BY <1>1, ParentsTyped DEF Shape, Newest
<1>3. Fits(lev)'
  BY <1>1 DEF Fits, Bulky
<1> QED BY <1>1, <1>2, <1>3 DEF Shape
-----------------------------------------------------------------------------
(* Types and depth, of any tree. *)

(***************************************************************************)
(* The writer is at rest after Return.                                     *)
(***************************************************************************)
LEMMA ReturnWrites ==
    ASSUME Writer, Return, allowed' \in [Key -> SUBSET (Value \cup {None})]
    PROVE  Writer'
<1>1. pc' = "idle" /\ kind' = "insert" /\ todo' = <<>>
  BY DEF Return
<1>2. todo' \in Seq(Key \X Value)
  BY <1>1
<1> QED BY <1>1, <1>2 DEF Writer, Stages, Splitting

(***************************************************************************)
(* Done replaces what a key may be answered with.                          *)
(***************************************************************************)
LEMMA DoneTyped ==
    ASSUME Writer, NEW k \in Key, NEW v \in Value, Done(k, v)
    PROVE  allowed' \in [Key -> SUBSET (Value \cup {None})]
<1> DEFINE T == SUBSET (Value \cup {None})
<1>1. allowed \in [Key -> T] /\ {v} \in T
  BY DEF Writer
<1>2. allowed' = [allowed EXCEPT ![k] = {v}]
  BY DEF Done
<1> HIDE DEF T
<1>3. allowed' \in [Key -> T]
  BY <1>1, <1>2
<1> QED BY <1>3 DEF T

(***************************************************************************)
(* Insert keeps the types of the writer's memory.                          *)
(***************************************************************************)
LEMMA WriterInsert ==
    ASSUME NEW lev, Shape(lev), Writer, NEW k \in Key, NEW v \in Value, Insert(k, v)
    PROVE  Writer'
<1>1. /\ kind' = "insert" /\ todo' = <<<<k, v>>>> /\ pc' \in {"descend", "sibling"}
      /\ pc' = "sibling" => IsFull(nodes[rootOffset]) /\ med' = SplitMedian(nodes[rootOffset])
  BY DEF Insert
<1>2. todo' \in Seq(Key \X Value) /\ todo' # <<>>
  <2> DEFINE T == Key \X Value
             e == <<k, v>>
  <2>1. e \in T /\ todo' = <<e>>
    BY <1>1
  <2> HIDE DEF T, e
  <2>2. todo' \in Seq(T) /\ todo' # <<>>
    BY <2>1
  <2> QED BY <2>2 DEF T
<1>3. allowed' \in [Key -> SUBSET (Value \cup {None})]
  <2> DEFINE T == SUBSET (Value \cup {None})
  <2>1. allowed \in [Key -> T] /\ allowed[k] \cup {v} \in T
    BY DEF Writer
  <2>2. allowed' = [allowed EXCEPT ![k] = allowed[k] \cup {v}]
    BY DEF Insert
  <2> HIDE DEF T
  <2>3. allowed' \in [Key -> T]
    BY <2>1, <2>2
  <2> QED BY <2>3 DEF T
<1>4. pc' \in Splitting => med' \in Key
  <2>1. Stored(nodes) /\ rootOffset \in 1..Len(nodes) /\ Len(nodes) \in Nat
    BY ParentsTyped DEF Shape, Newest
  <2>2. /\ nodes[rootOffset] \in Node(Len(nodes)) /\ WellFormed(nodes[rootOffset])
    BY <2>1, StoredFacts
  <2>3. IsFull(nodes[rootOffset]) => SplitMedian(nodes[rootOffset]) \in Key
    BY <2>1, <2>2, MedianIsKey
  <2> QED BY <1>1, <2>3 DEF Splitting
<1> QED BY <1>1, <1>2, <1>3, <1>4 DEF Writer, Stages, Torn

(***************************************************************************)
(* BatchInsert does.                                                       *)
(***************************************************************************)
LEMMA WriterBatch ==
    ASSUME Writer, NEW entries \in Batches, BatchInsert(entries)
    PROVE  Writer'
<1>1. entries \in Seq(Key \X Value)
  BY TreeAssumption
<1>2. kind' = "batch" /\ todo' = entries /\ entries # <<>> /\ pc' = "batchEntry"
  BY DEF BatchInsert
<1>3. allowed' \in [Key -> SUBSET (Value \cup {None})]
  <2> DEFINE New(k) == {entries[i][2] : i \in {j \in DOMAIN entries : entries[j][1] = k}}
  <2>1. allowed' = [k \in Key |-> allowed[k] \cup New(k)]
    BY DEF BatchInsert
  <2>2. ASSUME NEW k \in Key PROVE New(k) \subseteq Value
    <3>1. \A i \in DOMAIN entries : entries[i][2] \in Value
      <4> DEFINE T == Key \X Value
      <4>1. \A i \in DOMAIN entries : entries[i] \in T
        <5> HIDE DEF T
        <5>1. entries \in Seq(T)
          BY <1>1 DEF T
        <5> QED BY <5>1
      <4> QED BY <4>1
    <3> QED BY <3>1
  <2> HIDE DEF New
  <2>3. \A k \in Key : allowed[k] \in SUBSET (Value \cup {None})
    BY DEF Writer
  <2>4. \A k \in Key : allowed[k] \cup New(k) \in SUBSET (Value \cup {None})
    BY <2>2, <2>3
  <2> QED BY <2>1, <2>4
<1> QED BY <1>1, <1>2, <1>3 DEF Writer, Stages, Splitting

(***************************************************************************)
(* PutEntry does.                                                          *)
(***************************************************************************)
LEMMA WriterPutEntry ==
    ASSUME Writer, PutEntry, todo # <<>>
    PROVE  Writer'
<1>1. allowed' \in [Key -> SUBSET (Value \cup {None})]
  <2>1. entry[1] \in Key /\ entry[2] \in Value
    BY EntryTyped
  <2>2. Done(entry[1], entry[2])
    BY DEF PutEntry
  <2> HIDE DEF entry
  <2> QED BY <2>1, <2>2, DoneTyped
<1>2. CASE Return
  BY <1>1, <1>2, ReturnWrites
<1>3. CASE Len(todo) > 1 /\ todo' = Tail(todo) /\ pc' = "batchEntry" /\ kind' = kind
  <2> DEFINE T == Key \X Value
  <2>1. todo \in Seq(T)
    BY DEF Writer
  <2> HIDE DEF T
  <2>2. todo' \in Seq(T) /\ Len(todo') = Len(todo) - 1 /\ Len(todo) \in Nat
    BY <1>3, <2>1
  <2>3. todo' # <<>>
    BY <1>3, <2>2
  <2> QED BY <1>1, <1>3, <2>2, <2>3 DEF T, Writer, Stages, Splitting
<1> QED BY <1>2, <1>3 DEF PutEntry

(***************************************************************************)
(* Every store does.                                                       *)
(***************************************************************************)
LEMMA WriterStore ==
    ASSUME NEW lev, Shape(lev), Writer, Store
    PROVE  Writer'
<1>1. ASSUME RootSibling \/ GrowRoot \/ SetRootOffset \/ AdoptLeft
      PROVE  Writer'
  <2>1. /\ kind' = kind /\ todo' = todo /\ allowed' = allowed /\ med' = med /\ todo # <<>>
        /\ pc \in {"sibling", "growRoot", "setRoot", "adoptLeft"}
        /\ pc' \in {"growRoot", "setRoot", "adoptLeft", "adoptRight"}
        /\ pc = "adoptLeft" => pc' = "adoptRight"
        /\ pc = "setRoot" => pc' = "adoptLeft"
    BY <1>1 DEF RootSibling, GrowRoot, SetRootOffset, AdoptLeft, locals, Writer
  <2> QED BY <2>1 DEF Writer, Stages, Torn, Splitting
<1>2. ASSUME AdoptRight \/ Descend \/ LinkSibling
      PROVE  Writer'
  <2>1. /\ kind' = kind /\ todo' = todo /\ allowed' = allowed /\ todo # <<>>
        /\ pc' \in {"descend", "batchPut", "link"}
    BY <1>2 DEF AdoptRight, Descend, LinkSibling, Writer
  <2> QED BY <2>1 DEF Writer, Stages, Splitting
<1>3. ASSUME StoreLeaf PROVE Writer'
  <2>1. entry[1] \in Key /\ entry[2] \in Value
    BY <1>3, EntryTyped DEF StoreLeaf, Writer
  <2>2. Done(entry[1], entry[2]) /\ Return
    BY <1>3 DEF StoreLeaf
  <2> HIDE DEF entry
  <2> QED BY <2>1, <2>2, DoneTyped, ReturnWrites
<1>4. ASSUME BatchStore \/ BatchPut PROVE Writer'
  BY <1>4, WriterPutEntry DEF BatchStore, BatchPut, Writer
<1>5. ASSUME BatchSibling PROVE Writer'
  <2>1. /\ kind' = kind /\ todo' = todo /\ allowed' = allowed /\ todo # <<>>
        /\ pc' = "batchLeft" /\ IsFull(nodes[at]) /\ med' = SplitMedian(nodes[at])
    BY <1>5 DEF BatchSibling, Writer
  <2>2. Stored(nodes) /\ at \in 1..Len(nodes) /\ Len(nodes) \in Nat
    BY ParentsTyped DEF Shape, Newest
  <2>3. nodes[at] \in Node(Len(nodes)) /\ WellFormed(nodes[at])
    BY <2>2, StoredFacts
  <2>4. med' \in Key
    BY <2>1, <2>2, <2>3, MedianIsKey
  <2> QED BY <2>1, <2>4 DEF Writer, Stages
<1>6. ASSUME BatchLeft \/ BatchParent PROVE Writer'
  <2>1. /\ kind' = kind /\ todo' = todo /\ allowed' = allowed /\ todo # <<>>
        /\ pc' \in {"growRoot", "batchParent", "batchPut"}
        /\ pc' # "batchPut" => pc = "batchLeft" /\ med' = med
    BY <1>6 DEF BatchLeft, BatchParent, Writer
  <2> QED BY <2>1 DEF Writer, Stages, Torn, Splitting
<1> QED BY <1>1, <1>2, <1>3, <1>4, <1>5, <1>6 DEF Store

(***************************************************************************)
(* The inductive invariant of trees whose writer does not die, ...         *)
(***************************************************************************)
Whole == Writer /\ \E lev : Shape(lev) /\ Parents(lev)

(***************************************************************************)
(* ... and of those filled by insert, whose writer may.                    *)
(***************************************************************************)
Restored == /\ Writer
            /\ kind = "insert"
            /\ pc \notin Bulky
            /\ \E lev : Shape(lev)

(***************************************************************************)
(* Every store keeps the shape, and the parents where they are needed.     *)
(***************************************************************************)
LEMMA StoreShape ==
    ASSUME NEW lev, Shape(lev), Writer, Store, pc \in Bulky => Parents(lev)
    PROVE  \E l : Shape(l)' /\ (Parents(lev) => Parents(l)')
<1>1. CASE RootSibling
  BY <1>1, RootSiblingShape
<1>2. CASE GrowRoot
  BY <1>2, GrowRootShape
<1>3. CASE SetRootOffset
  BY <1>3, SetRootShape
<1>4. CASE AdoptLeft
  BY <1>4, AdoptLeftShape
<1>5. CASE AdoptRight
  BY <1>5, AdoptRightShape
<1>6. CASE Descend
  BY <1>6, DescendShape
<1>7. CASE LinkSibling
  BY <1>7, LinkSiblingShape
<1>8. CASE StoreLeaf
  BY <1>8, StoreLeafShape
<1>9. CASE BatchStore \/ BatchPut
  BY <1>9, PutEntryShape DEF BatchStore, BatchPut
<1>10. CASE BatchSibling
  BY <1>10, BatchSiblingShape
<1>11. CASE BatchLeft
  BY <1>11, BatchLeftShape
<1>12. CASE BatchParent
  <2>1. Parents(lev)
    BY <1>12 DEF BatchParent, Bulky
  <2> QED BY <1>12, <2>1, BatchParentShape
<1> QED BY <1>1, <1>2, <1>3, <1>4, <1>5, <1>6, <1>7, <1>8, <1>9, <1>10, <1>11, <1>12 DEF Store

(***************************************************************************)
(* Every step of AnySpec keeps Whole.                                      *)
(***************************************************************************)
LEMMA WholeNext ==
    ASSUME Whole, [AnyInsert \/ AnyBatch \/ Store]_vars
    PROVE  Whole'
<1>1. PICK lev : Shape(lev) /\ Parents(lev)
  BY DEF Whole
<1>2. Writer
  BY DEF Whole
<1>3. CASE AnyInsert
  <2>1. PICK k \in Key, v \in Value : Insert(k, v)
    BY <1>3 DEF AnyInsert
  <2>2. Writer'
    BY <1>1, <1>2, <2>1, WriterInsert
  <2>3. Shape(lev)' /\ Parents(lev)'
    BY <1>1, <1>2, <2>1, InsertShape
  <2> QED BY <2>2, <2>3 DEF Whole
<1>4. CASE AnyBatch
  <2>1. PICK entries \in Batches : BatchInsert(entries)
    BY <1>4 DEF AnyBatch
  <2>2. Writer'
    BY <1>2, <2>1, WriterBatch
  <2>3. Shape(lev)' /\ Parents(lev)'
    BY <1>1, <2>1, BatchInsertShape
  <2> QED BY <2>2, <2>3 DEF Whole
<1>5. CASE Store
  <2>1. Writer'
    BY <1>1, <1>2, <1>5, WriterStore
  <2>2. PICK l : Shape(l)' /\ (Parents(lev) => Parents(l)')
    BY <1>1, <1>2, <1>5, StoreShape
  <2> QED BY <1>1, <2>1, <2>2 DEF Whole
<1>6. CASE UNCHANGED vars
  <2>1. Writer'
    BY <1>2, <1>6 DEF Writer, vars, disk, locals
  <2>2. Shape(lev)' /\ Parents(lev)'
    BY <1>1, <1>6 DEF Shape, Fits, Parents, Orphans, Newest, vars, disk, locals
  <2> QED BY <2>1, <2>2 DEF Whole
<1> QED BY <1>3, <1>4, <1>5, <1>6

(***************************************************************************)
(* Every step of AnyCrashSpec keeps Restored.                              *)
(***************************************************************************)
LEMMA RestoredNext ==
    ASSUME Restored, [AnyInsert \/ Store \/ Crash]_vars
    PROVE  Restored'
<1>1. PICK lev : Shape(lev)
  BY DEF Restored
<1>2. Writer /\ kind = "insert" /\ pc \notin Bulky
  BY DEF Restored
<1>3. CASE AnyInsert
  <2>1. PICK k \in Key, v \in Value : Insert(k, v)
    BY <1>3 DEF AnyInsert
  <2>2. Writer'
    BY <1>1, <1>2, <2>1, WriterInsert
  <2>3. Shape(lev)'
    BY <1>1, <1>2, <2>1, InsertShape
  <2>4. kind' = "insert" /\ pc' \notin Bulky
    BY <2>1 DEF Insert, Bulky
  <2> QED BY <2>2, <2>3, <2>4 DEF Restored
<1>4. CASE Store
  <2>1. Writer'
    BY <1>1, <1>2, <1>4, WriterStore
  <2>2. PICK l : Shape(l)'
    BY <1>1, <1>2, <1>4, StoreShape
  <2>3. ~(BatchStore \/ BatchPut \/ BatchSibling \/ BatchLeft \/ BatchParent)
    BY <1>2 DEF Bulky, BatchStore, BatchPut, BatchSibling, BatchLeft, BatchParent
  <2>4. kind' = "insert" /\ pc' \notin Bulky
    <3>1. CASE RootSibling \/ GrowRoot \/ SetRootOffset \/ AdoptLeft
      BY <1>2, <3>1 DEF RootSibling, GrowRoot, SetRootOffset, AdoptLeft, locals, Bulky
    <3>2. CASE AdoptRight \/ Descend \/ LinkSibling
      BY <1>2, <3>2 DEF AdoptRight, Descend, LinkSibling, Bulky
    <3>3. CASE StoreLeaf
      BY <3>3 DEF StoreLeaf, Return, Bulky
    <3> QED BY <1>4, <2>3, <3>1, <3>2, <3>3 DEF Store
  <2> QED BY <2>1, <2>2, <2>4 DEF Restored
<1>5. CASE Crash
  <2>1. Return /\ allowed' = allowed
    BY <1>5 DEF Crash
  <2>2. Writer'
    BY <1>2, <2>1, ReturnWrites DEF Writer
  <2>3. Shape(lev)'
    BY <1>1, <1>5, CrashShape
  <2>4. kind' = "insert" /\ pc' \notin Bulky
    BY <2>1 DEF Return, Bulky
  <2> QED BY <2>2, <2>3, <2>4 DEF Restored
<1>6. CASE UNCHANGED vars
  <2>1. Writer'
    BY <1>2, <1>6 DEF Writer, vars, disk, locals
  <2>2. Shape(lev)'
    BY <1>1, <1>6 DEF Shape, Fits, Newest, vars, disk, locals
  <2> QED BY <1>2, <1>6, <2>1, <2>2 DEF Restored, vars, locals
<1> QED BY <1>3, <1>4, <1>5, <1>6

(***************************************************************************)
(* Both invariants imply the properties.                                   *)
(***************************************************************************)
LEMMA ShapeTyped ==
    ASSUME Writer, \E lev : Shape(lev)
    PROVE  TypeOK /\ UniformDepth
<1>1. PICK lev : Shape(lev)
  OBVIOUS
<1>2. Stored(nodes) /\ Leveled(nodes, lev) /\ rootOffset \in 1..Len(nodes) /\ at \in 1..Len(nodes)
  BY <1>1 DEF Shape, Newest
<1>3. UniformDepth
  BY <1>2, OneDepth
<1>4. DOMAIN nodes = 1..Len(nodes) /\ Len(nodes) \in Nat
  BY <1>2, StoredFacts
<1>5. ASSUME NEW n \in DOMAIN nodes
      PROVE  /\ nodes[n].leaf \in BOOLEAN
             /\ nodes[n].isRoot \in BOOLEAN
             /\ nodes[n].keys \in Seq(Key)
             /\ nodes[n].values \in Seq(Value)
             /\ ToSet(nodes[n].children) \subseteq DOMAIN nodes
             /\ nodes[n].parent \in DOMAIN nodes \cup {NoParent}
             /\ Len(nodes[n].values) = IF nodes[n].leaf THEN Len(nodes[n].keys) ELSE 0
             /\ Len(nodes[n].children) = IF nodes[n].leaf THEN 0 ELSE Len(nodes[n].keys) + 1
  <2>1. n \in 1..Len(nodes)
    BY <1>4
  <2>2. /\ nodes[n].leaf \in BOOLEAN /\ nodes[n].isRoot \in BOOLEAN
        /\ nodes[n].keys \in Seq(Key) /\ nodes[n].values \in Seq(Value)
    BY <1>2, <2>1, StoredFacts
  <2>3. /\ Len(nodes[n].values) = IF nodes[n].leaf THEN Len(nodes[n].keys) ELSE 0
        /\ Len(nodes[n].children) = IF nodes[n].leaf THEN 0 ELSE Len(nodes[n].keys) + 1
    BY <1>2, <2>1, StoredFacts
  <2>4. nodes[n].parent \in DOMAIN nodes \cup {NoParent}
    <3>1. nodes[n].parent \in 0..Len(nodes)
      BY <1>2, <2>1, StoredFacts
    <3> QED BY <1>4, <3>1 DEF NoParent
  <2>5. ToSet(nodes[n].children) \subseteq DOMAIN nodes
    <3>1. /\ DOMAIN nodes[n].children = 1..Len(nodes[n].children)
          /\ \A p \in 1..Len(nodes[n].children) : nodes[n].children[p] \in 1..Len(nodes)
      BY <1>2, <2>1, StoredFacts
    <3> QED BY <1>4, <3>1 DEF ToSet
  <2> QED BY <2>2, <2>3, <2>4, <2>5
<1>6. TypeOK
  BY <1>2, <1>4, <1>5 DEF TypeOK, Writer
<1> QED BY <1>3, <1>6

(***************************************************************************)
(* Whatever is inserted and batch-inserted in whatever order, into a tree  *)
(* of any size, each field of the file and of the writer has its type:     *)
(* every offset stored names a node, and nodes have as many values and     *)
(* children as keys ask for (node.rs, tree.rs).                            *)
(***************************************************************************)
THEOREM AnyTreeTyped == AnySpec => []TypeOK
<1>1. Init => Whole
  BY ShapeInit DEF Whole
<1>2. Whole /\ [AnyInsert \/ AnyBatch \/ Store]_vars => Whole'
  BY WholeNext
<1>3. Whole => TypeOK
  BY ShapeTyped DEF Whole
<1> QED BY <1>1, <1>2, <1>3, PTL DEF AnySpec

(***************************************************************************)
(* Whatever is inserted and batch-inserted, every leaf is as deep as every *)
(* other (UniformDepth): the splits of insert, insert_non_full and         *)
(* batch_insert link a sibling on the level of the node it was split from, *)
(* always.                                                                 *)
(***************************************************************************)
THEOREM AnyTreeUniform == AnySpec => []UniformDepth
<1>1. Init => Whole
  BY ShapeInit DEF Whole
<1>2. Whole /\ [AnyInsert \/ AnyBatch \/ Store]_vars => Whole'
  BY WholeNext
<1>3. Whole => UniformDepth
  BY ShapeTyped DEF Whole
<1> QED BY <1>1, <1>2, <1>3, PTL DEF AnySpec

(***************************************************************************)
(* A tree filled by insert in any order, whose writer dies between any two *)
(* stores of any insertions, keeps the types.                              *)
(***************************************************************************)
THEOREM CrashedTreeTyped == AnyCrashSpec => []TypeOK
<1>1. Init => Restored
  BY ShapeInit DEF Restored, Init, Idle, Bulky
<1>2. Restored /\ [AnyInsert \/ Store \/ Crash]_vars => Restored'
  BY RestoredNext
<1>3. Restored => TypeOK
  BY ShapeTyped DEF Restored
<1> QED BY <1>1, <1>2, <1>3, PTL DEF AnyCrashSpec

(***************************************************************************)
(* ... and stays as deep everywhere, though the new half of a root may     *)
(* then be lost.                                                           *)
(***************************************************************************)
THEOREM CrashedTreeUniform == AnyCrashSpec => []UniformDepth
<1>1. Init => Restored
  BY ShapeInit DEF Restored, Init, Idle, Bulky
<1>2. Restored /\ [AnyInsert \/ Store \/ Crash]_vars => Restored'
  BY RestoredNext
<1>3. Restored => UniformDepth
  BY ShapeTyped DEF Restored
<1> QED BY <1>1, <1>2, <1>3, PTL DEF AnyCrashSpec
-----------------------------------------------------------------------------
(* Searches in two files, and in the halves of a node. *)

(***************************************************************************)
(* Induction on levels.                                                    *)
(***************************************************************************)
LEMMA LevelInduction ==
    ASSUME NEW D, NEW lev, \A n \in D : lev[n] \in Nat, NEW S,
           \A n \in D : (\A c \in D : lev[c] < lev[n] => c \in S) => n \in S
    PROVE  \A n \in D : n \in S
<1> DEFINE T == {i \in Nat : \A n \in D : lev[n] < i => n \in S}
<1>1. 0 \in T
  OBVIOUS
<1>2. ASSUME NEW i \in T PROVE i + 1 \in T
  <2>1. i \in Nat /\ \A n \in D : lev[n] < i => n \in S
    BY <1>2
  <2>2. ASSUME NEW n \in D, lev[n] < i + 1 PROVE n \in S
    <3>1. \A c \in D : lev[c] < lev[n] => lev[c] < i
      BY <2>1, <2>2
    <3> QED BY <2>1, <3>1
  <2> QED BY <2>1, <2>2
<1>3. T = Nat
  <2>1. T \in SUBSET Nat
    OBVIOUS
  <2> HIDE DEF T
  <2> QED BY <1>1, <1>2, <2>1, NatSetInduction
<1>4. ASSUME NEW n \in D PROVE n \in S
  <2>1. lev[n] + 1 \in T /\ lev[n] < lev[n] + 1
    <3> HIDE DEF T
    <3> QED BY <1>3
  <2> QED BY <2>1
<1> QED BY <1>4

(***************************************************************************)
(* The nodes differ in root flag and parent at most: a search sees no      *)
(* difference.                                                             *)
(***************************************************************************)
SameContent(a, b) ==
    /\ a.leaf = b.leaf
    /\ a.keys = b.keys
    /\ a.values = b.values
    /\ a.children = b.children

(***************************************************************************)
(* Searches from below n find the same in both files.                      *)
(***************************************************************************)
AgreeBelow(f, g, lev, key, n) ==
    \A c \in 1..Len(f) : lev[c] < lev[n] => Answers(g, c, key) = Answers(f, c, key)

(***************************************************************************)
(* Two files that differ, among the nodes of M, only where it makes no     *)
(* difference to a search that none is made below.                         *)
(***************************************************************************)
MayAgree(f, g, lev, key, M) ==
    /\ Stored(f) /\ Stored(g) /\ Leveled(f, lev) /\ Len(f) <= Len(g)
    /\ M \subseteq 1..Len(f)
    /\ \A n \in M : \A c \in 1..Len(f) : lev[c] < lev[n] => c \in M
    /\ \A n \in M : \/ SameContent(f[n], g[n])
                    \/ AgreeBelow(f, g, lev, key, n) => Answers(g, n, key) = Answers(f, n, key)

(***************************************************************************)
(* ... a search from any node of M finds the same in both.                 *)
(***************************************************************************)
LEMMA AnswersAgree ==
    ASSUME NEW f, NEW g, NEW lev, NEW key, NEW M, MayAgree(f, g, lev, key, M)
    PROVE  \A n \in M : Answers(g, n, key) = Answers(f, n, key)
<1>1. /\ Stored(f) /\ Stored(g) /\ Leveled(f, lev) /\ Len(f) <= Len(g)
      /\ M \subseteq 1..Len(f)
      /\ \A n \in M : \A c \in 1..Len(f) : lev[c] < lev[n] => c \in M
      /\ \A n \in M : \/ SameContent(f[n], g[n])
                      \/ AgreeBelow(f, g, lev, key, n) => Answers(g, n, key) = Answers(f, n, key)
  BY DEF MayAgree
<1>2. /\ Len(f) \in Nat /\ Len(g) \in Nat
      /\ \A n \in 1..Len(f) : n \in 1..Len(g) /\ lev[n] \in Nat
  BY <1>1, StoredFacts, LevelFacts
<1> DEFINE S == {n \in M : Answers(g, n, key) = Answers(f, n, key)}
<1>3. ASSUME NEW n \in M, \A c \in M : lev[c] < lev[n] => c \in S
      PROVE  n \in S
  <2>1. AgreeBelow(f, g, lev, key, n)
    BY <1>1, <1>3 DEF AgreeBelow
  <2>2. CASE SameContent(f[n], g[n])
    <3>1. n \in 1..Len(f) /\ n \in 1..Len(g)
      BY <1>1, <1>2
    <3>2. g[n].leaf = f[n].leaf /\ g[n].keys = f[n].keys /\ g[n].values = f[n].values
          /\ g[n].children = f[n].children
      BY <2>2 DEF SameContent
    <3>3. CASE f[n].leaf
      <4>1. Answers(f, n, key) = LeafAnswers(f[n], key) /\ Answers(g, n, key) = LeafAnswers(g[n], key)
        BY <1>1, <3>1, <3>2, <3>3, AnswersStep
      <4>2. LeafAnswers(f[n], key) = LeafAnswers(g[n], key)
        BY <3>2 DEF LeafAnswers
      <4> QED BY <4>1, <4>2
    <3>4. CASE ~f[n].leaf
      <4> DEFINE P == Positions(f[n].keys, key)
      <4>1. /\ Answers(f, n, key) = UNION {Answers(f, f[n].children[p], key) : p \in P}
            /\ Answers(g, n, key) = UNION {Answers(g, f[n].children[p], key) : p \in P}
        BY <1>1, <3>1, <3>2, <3>4, AnswersStep
      <4>2. ASSUME NEW p \in P
            PROVE  Answers(g, f[n].children[p], key) = Answers(f, f[n].children[p], key)
        <5>1. p \in 1..(Len(f[n].keys) + 1)
          <6>1. Len(f[n].keys) \in Nat
            BY <1>1, <3>1, StoredFacts
          <6> QED BY <6>1, PositionsIn
        <5>2. f[n].children[p] \in 1..Len(f) /\ lev[f[n].children[p]] < lev[n]
          BY <1>1, <3>1, <3>4, <5>1, WayDown
        <5> QED BY <2>1, <5>2 DEF AgreeBelow
      <4> HIDE DEF P
      <4>3. ASSUME NEW v PROVE v \in Answers(g, n, key) <=> v \in Answers(f, n, key)
        <5>1. v \in Answers(f, n, key) <=> \E p \in P : v \in Answers(f, f[n].children[p], key)
          BY <4>1, Zenon
        <5>2. v \in Answers(g, n, key) <=> \E p \in P : v \in Answers(g, f[n].children[p], key)
          BY <4>1, Zenon
        <5> QED BY <4>2, <5>1, <5>2, Zenon
      <4> QED BY <4>3
    <3> QED BY <3>3, <3>4
  <2>3. CASE Answers(g, n, key) = Answers(f, n, key)
    BY <2>3
  <2> QED BY <1>1, <2>1, <2>2, <2>3
<1>4. \A n \in M : lev[n] \in Nat
  BY <1>1, <1>2
<1>5. \A n \in M : n \in S
  <2> HIDE DEF S
  <2> QED BY <1>3, <1>4, LevelInduction
<1> QED BY <1>5

(***************************************************************************)
(* The one position of a key among sorted keys, by what is before and      *)
(* after it; ...                                                           *)
(***************************************************************************)
LEMMA ThePosition ==
    ASSUME NEW keys \in Seq(Key), Sorted(keys), NEW k \in Key
    PROVE  \E p \in 1..(Len(keys) + 1) :
               /\ Positions(keys, k) = {p}
               /\ p = 1 \/ keys[p - 1] < k
               /\ p = Len(keys) + 1 \/ k <= keys[p]
<1> DEFINE L == Len(keys)
<1>1. L \in Nat /\ k \in Nat /\ \A i \in 1..L : keys[i] \in Nat
  <2>1. L \in Nat /\ \A i \in 1..L : keys[i] \in Key
    OBVIOUS
  <2> QED BY <2>1, KeyIsNumber
<1>2. PICK p \in 1..(L + 1) :
               /\ Positions(keys, k) = {p}
               /\ \/ p \in 1..L /\ keys[p] = k /\ Hits(keys, k) = {p} /\ Gaps(keys, k) = {}
                  \/ Hits(keys, k) = {} /\ Gaps(keys, k) = {p}
  BY OnePosition
<1>3. CASE p \in 1..L /\ keys[p] = k
  <2>1. p = 1 \/ keys[p - 1] < k
    <3>1. p # 1 => p - 1 \in 1..L /\ p - 1 < p
      BY <1>1, <1>3
    <3> QED BY <1>3, <3>1 DEF Sorted
  <2> QED BY <1>1, <1>2, <1>3, <2>1
<1>4. CASE Gaps(keys, k) = {p}
  <2>1. /\ p = 1 \/ keys[p - 1] < k
        /\ p = L + 1 \/ k < keys[p]
    BY <1>4 DEF Gaps
  <2>2. p = L + 1 \/ p \in 1..L
    BY <1>1
  <2>3. p = L + 1 \/ k <= keys[p]
    BY <1>1, <2>1, <2>2
  <2> QED BY <1>2, <2>1, <2>3
<1> QED BY <1>2, <1>3, <1>4

(***************************************************************************)
(* ... and any position like that is the one.                              *)
(***************************************************************************)
LEMMA PositionIs ==
    ASSUME NEW keys \in Seq(Key), Sorted(keys), NEW k \in Key, NEW p \in 1..(Len(keys) + 1),
           p = 1 \/ keys[p - 1] < k,
           p = Len(keys) + 1 \/ k <= keys[p]
    PROVE  Positions(keys, k) = {p}
<1> DEFINE L == Len(keys)
<1>1. L \in Nat /\ k \in Nat /\ \A i \in 1..L : keys[i] \in Nat
  <2>1. L \in Nat /\ \A i \in 1..L : keys[i] \in Key
    OBVIOUS
  <2> QED BY <2>1, KeyIsNumber
<1>2. PICK q \in 1..(L + 1) :
               /\ Positions(keys, k) = {q}
               /\ q = 1 \/ keys[q - 1] < k
               /\ q = L + 1 \/ k <= keys[q]
  BY ThePosition
<1>3. ASSUME q < p PROVE FALSE
  <2>1. p - 1 \in 1..L /\ q \in 1..L /\ q <= p - 1
    BY <1>1, <1>3
  <2>2. keys[q] <= keys[p - 1]
    BY <1>1, <2>1 DEF Sorted
  <2>3. keys[p - 1] < k /\ k <= keys[q]
    BY <1>1, <1>2, <2>1
  <2> QED BY <1>1, <2>1, <2>2, <2>3
<1>4. ASSUME p < q PROVE FALSE
  <2>1. q - 1 \in 1..L /\ p \in 1..L /\ p <= q - 1
    BY <1>1, <1>4
  <2>2. keys[p] <= keys[q - 1]
    BY <1>1, <2>1 DEF Sorted
  <2>3. keys[q - 1] < k /\ k <= keys[p]
    BY <1>1, <1>2, <2>1
  <2> QED BY <1>1, <2>1, <2>2, <2>3
<1>5. p = q
  BY <1>1, <1>3, <1>4
<1> QED BY <1>2, <1>5

(***************************************************************************)
(* What a sorted leaf answers.                                             *)
(***************************************************************************)
LEMMA LeafAnswer ==
    ASSUME NEW nd, nd.keys \in Seq(Key), Sorted(nd.keys), NEW k \in Key
    PROVE  /\ \A p \in 1..Len(nd.keys) : nd.keys[p] = k => LeafAnswers(nd, k) = {nd.values[p]}
           /\ (\A p \in 1..Len(nd.keys) : nd.keys[p] # k) => LeafAnswers(nd, k) = {None}
<1> DEFINE keys == nd.keys
<1>1. PICK q \in 1..(Len(keys) + 1) :
               /\ Positions(keys, k) = {q}
               /\ \/ q \in 1..Len(keys) /\ keys[q] = k /\ Hits(keys, k) = {q} /\ Gaps(keys, k) = {}
                  \/ Hits(keys, k) = {} /\ Gaps(keys, k) = {q}
  <2>1. keys \in Seq(Key) /\ Sorted(keys)
    OBVIOUS
  <2> HIDE DEF keys
  <2> QED BY <2>1, OnePosition
<1>2. ASSUME NEW p \in 1..Len(keys), keys[p] = k PROVE LeafAnswers(nd, k) = {nd.values[p]}
  <2>1. p \in Hits(keys, k)
    BY <1>2 DEF Hits
  <2>2. Hits(keys, k) = {p} /\ Gaps(keys, k) = {}
    BY <1>1, <2>1
  <2> QED BY <2>2 DEF LeafAnswers
<1>3. ASSUME \A p \in 1..Len(keys) : keys[p] # k PROVE LeafAnswers(nd, k) = {None}
  <2>1. Hits(keys, k) = {}
    BY <1>3 DEF Hits
  <2>2. Gaps(keys, k) = {q}
    BY <1>1, <1>3
  <2> QED BY <2>1, <2>2 DEF LeafAnswers
<1> QED BY <1>2, <1>3

(***************************************************************************)
(* What a search finds that starts at a node in memory.                    *)
(***************************************************************************)
NodeAnswers(file, nd, key) ==
    IF nd.leaf THEN LeafAnswers(nd, key)
    ELSE UNION {Answers(file, nd.children[p], key) : p \in Positions(nd.keys, key)}

(***************************************************************************)
(* ... which is that of its copy in the file.                              *)
(***************************************************************************)
LEMMA NodeAnswersIn ==
    ASSUME NEW file, Stored(file), NEW n \in 1..Len(file), NEW key
    PROVE  Answers(file, n, key) = NodeAnswers(file, file[n], key)
  BY AnswersStep DEF NodeAnswers

(***************************************************************************)
(* h has the keys of nd that follow the first off, as far as it goes.      *)
(***************************************************************************)
Part(nd, h, off) ==
    /\ nd.keys \in Seq(Key) /\ h.keys \in Seq(Key) /\ Sorted(nd.keys)
    /\ off \in Nat /\ off + Len(h.keys) <= Len(nd.keys)
    /\ h.leaf = nd.leaf
    /\ \A i \in 1..Len(h.keys) : h.keys[i] = nd.keys[off + i]

(***************************************************************************)
(* A part of a sorted node is sorted.                                      *)
(***************************************************************************)
LEMMA PartSorted ==
    ASSUME NEW nd, NEW h, NEW off, Part(nd, h, off)
    PROVE  Sorted(h.keys)
<1>1. /\ Len(nd.keys) \in Nat /\ Len(h.keys) \in Nat /\ Sorted(nd.keys)
      /\ off \in Nat /\ off + Len(h.keys) <= Len(nd.keys)
      /\ \A i \in 1..Len(h.keys) : h.keys[i] = nd.keys[off + i]
  BY DEF Part
<1>2. ASSUME NEW i \in 1..Len(h.keys), NEW j \in 1..Len(h.keys), i < j PROVE h.keys[i] < h.keys[j]
  <2>1. off + i \in 1..Len(nd.keys) /\ off + j \in 1..Len(nd.keys) /\ off + i < off + j
    BY <1>1, <1>2
  <2> QED BY <1>1, <2>1 DEF Sorted
<1> QED BY <1>2 DEF Sorted

(***************************************************************************)
(* A part of a leaf answers for the keys it covers as the leaf does.       *)
(***************************************************************************)
LEMMA PartOfLeaf ==
    ASSUME NEW nd, NEW h, NEW off, Part(nd, h, off), NEW k \in Key, nd.leaf,
           \A i \in 1..Len(h.keys) : h.values[i] = nd.values[off + i],
           off = 0 \/ nd.keys[off] < k,
           off + Len(h.keys) = Len(nd.keys) \/ (1 <= Len(h.keys) /\ k <= nd.keys[off + Len(h.keys)])
    PROVE  LeafAnswers(h, k) = LeafAnswers(nd, k)
<1> DEFINE m == Len(h.keys)
           L == Len(nd.keys)
<1>1. /\ nd.keys \in Seq(Key) /\ h.keys \in Seq(Key) /\ L \in Nat /\ m \in Nat /\ Sorted(nd.keys)
      /\ off \in Nat /\ off + m <= L
      /\ \A i \in 1..m : h.keys[i] = nd.keys[off + i]
  BY DEF Part
<1>2. k \in Nat /\ \A i \in 1..L : nd.keys[i] \in Nat
  <2>1. \A i \in 1..L : nd.keys[i] \in Key
    BY <1>1
  <2> QED BY <2>1, KeyIsNumber
<1>3. Sorted(h.keys)
  BY PartSorted
<1> HIDE DEF m, L
<1>4. ASSUME NEW q \in 1..L, nd.keys[q] = k PROVE off < q /\ q <= off + m
  <2>1. ASSUME q <= off PROVE FALSE
    <3>1. off \in 1..L /\ nd.keys[off] < k
      BY <1>1, <2>1 DEF m, L
    <3>2. nd.keys[q] <= nd.keys[off]
      BY <1>1, <1>2, <2>1, <3>1 DEF Sorted, L
    <3> QED BY <1>2, <1>4, <3>1, <3>2
  <2>2. ASSUME off + m < q PROVE FALSE
    <3>1. off + m \in 1..L /\ k <= nd.keys[off + m]
      BY <1>1, <2>2 DEF m, L
    <3>2. nd.keys[off + m] < nd.keys[q]
      BY <1>1, <2>2, <3>1 DEF Sorted, L
    <3> QED BY <1>2, <1>4, <3>1, <3>2
  <2> QED BY <1>1, <2>1, <2>2
<1>5. CASE \E q \in 1..L : nd.keys[q] = k
  <2>1. PICK q \in 1..L : nd.keys[q] = k
    BY <1>5
  <2>2. q - off \in 1..m /\ off + (q - off) = q
    BY <1>1, <1>4, <2>1
  <2>3. h.keys[q - off] = k /\ h.values[q - off] = nd.values[q]
    <3>1. \A i \in 1..m : h.values[i] = nd.values[off + i]
      BY DEF m
    <3> QED BY <1>1, <2>1, <2>2, <3>1
  <2>4. LeafAnswers(nd, k) = {nd.values[q]}
    BY <1>1, <2>1, LeafAnswer DEF L
  <2>5. LeafAnswers(h, k) = {h.values[q - off]}
    <3>1. h.keys \in Seq(Key) /\ q - off \in 1..Len(h.keys) /\ h.keys[q - off] = k
      BY <1>1, <2>2, <2>3 DEF m
    <3> QED BY <1>3, <3>1, LeafAnswer
  <2> QED BY <2>3, <2>4, <2>5
<1>6. CASE \A q \in 1..L : nd.keys[q] # k
  <2>1. \A i \in 1..m : off + i \in 1..L
    BY <1>1
  <2>2. \A i \in 1..m : h.keys[i] # k
    BY <1>1, <1>6, <2>1
  <2>3. LeafAnswers(nd, k) = {None}
    BY <1>1, <1>6, LeafAnswer DEF L
  <2>4. LeafAnswers(h, k) = {None}
    BY <1>1, <1>3, <2>2, LeafAnswer DEF m
  <2> QED BY <2>3, <2>4
<1> QED BY <1>5, <1>6

(***************************************************************************)
(* A part of an internal node sends a key it covers where the node does.   *)
(***************************************************************************)
LEMMA PartOfInner ==
    ASSUME NEW file, NEW nd, NEW h, NEW off, Part(nd, h, off), NEW k \in Key, ~nd.leaf,
           \A i \in 1..(Len(h.keys) + 1) : h.children[i] = nd.children[off + i],
           off = 0 \/ nd.keys[off] < k,
           off + Len(h.keys) = Len(nd.keys) \/ k <= nd.keys[off + Len(h.keys) + 1]
    PROVE  NodeAnswers(file, h, k) = NodeAnswers(file, nd, k)
<1> DEFINE m == Len(h.keys)
           L == Len(nd.keys)
<1>1. /\ nd.keys \in Seq(Key) /\ h.keys \in Seq(Key) /\ L \in Nat /\ m \in Nat /\ Sorted(nd.keys)
      /\ off \in Nat /\ off + m <= L /\ h.leaf = nd.leaf
      /\ \A i \in 1..m : h.keys[i] = nd.keys[off + i]
  BY DEF Part
<1>2. k \in Nat /\ \A i \in 1..L : nd.keys[i] \in Nat
  <2>1. \A i \in 1..L : nd.keys[i] \in Key
    BY <1>1
  <2> QED BY <2>1, KeyIsNumber
<1>3. Sorted(h.keys)
  BY PartSorted
<1>0. PICK q \in 1..(L + 1) :
               /\ Positions(nd.keys, k) = {q}
               /\ q = 1 \/ nd.keys[q - 1] < k
               /\ q = L + 1 \/ k <= nd.keys[q]
  BY <1>1, ThePosition
<1>9. /\ off = 0 \/ nd.keys[off] < k
      /\ off + m = L \/ k <= nd.keys[off + m + 1]
      /\ \A i \in 1..(m + 1) : h.children[i] = nd.children[off + i]
  OBVIOUS
<1>10. \A i, j \in 1..L : i < j => nd.keys[i] < nd.keys[j]
  BY <1>1 DEF Sorted
<1> HIDE DEF m, L
<1>4. off < q
  <2> SUFFICES ASSUME q <= off PROVE FALSE
    BY <1>1
  <2>1. off \in 1..L /\ q \in 1..L /\ nd.keys[off] < k /\ k <= nd.keys[q]
    BY <1>1, <1>0, <1>9
  <2>2. CASE q = off
    BY <1>2, <2>1, <2>2
  <2>3. CASE q < off
    <3>1. nd.keys[q] < nd.keys[off]
      BY <1>10, <2>1, <2>3
    <3> QED BY <1>2, <2>1, <3>1
  <2> QED BY <2>1, <2>2, <2>3
<1>5. q <= off + m + 1
  <2> SUFFICES ASSUME off + m + 1 < q PROVE FALSE
    BY <1>1
  <2>1. /\ q - 1 \in 1..L /\ off + m + 1 \in 1..L /\ off + m + 1 <= q - 1
        /\ nd.keys[q - 1] < k /\ k <= nd.keys[off + m + 1]
    BY <1>1, <1>0, <1>9
  <2>2. CASE off + m + 1 = q - 1
    BY <1>2, <2>1, <2>2
  <2>3. CASE off + m + 1 < q - 1
    <3>1. nd.keys[off + m + 1] < nd.keys[q - 1]
      BY <1>10, <2>1, <2>3
    <3> QED BY <1>2, <2>1, <3>1
  <2> QED BY <2>1, <2>2, <2>3
<1> DEFINE p == q - off
<1>6. p \in 1..(m + 1) /\ off + p = q
  BY <1>1, <1>4, <1>5
<1> HIDE DEF p
<1>7. Positions(h.keys, k) = {p}
  <2>1. p = 1 \/ h.keys[p - 1] < k
    <3>1. ASSUME p # 1 PROVE h.keys[p - 1] < k
      <4>1. p - 1 \in 1..m /\ off + (p - 1) = q - 1 /\ q # 1
        BY <1>1, <1>6, <3>1
      <4>2. h.keys[p - 1] = nd.keys[q - 1]
        BY <1>1, <4>1
      <4> QED BY <1>0, <4>1, <4>2
    <3> QED BY <3>1
  <2>2. p = m + 1 \/ k <= h.keys[p]
    <3>1. ASSUME p # m + 1 PROVE k <= h.keys[p]
      <4>1. p \in 1..m /\ q # L + 1
        BY <1>1, <1>6, <3>1
      <4>2. h.keys[p] = nd.keys[q]
        BY <1>1, <1>6, <4>1
      <4> QED BY <1>0, <4>1, <4>2
    <3> QED BY <3>1
  <2> QED BY <1>1, <1>3, <1>6, <2>1, <2>2, PositionIs DEF m
<1>8. h.children[p] = nd.children[q]
  BY <1>6, <1>9
<1>11. NodeAnswers(file, nd, k) = Answers(file, nd.children[q], k)
  BY <1>0 DEF NodeAnswers
<1>12. NodeAnswers(file, h, k) = Answers(file, h.children[p], k)
  BY <1>1, <1>7 DEF NodeAnswers
<1> QED BY <1>8, <1>11, <1>12

(***************************************************************************)
(* A full, sorted node.                                                    *)
(***************************************************************************)
MaySplit(N, nd) == /\ N \in Nat /\ nd \in Node(N) /\ WellFormed(nd) /\ IsFull(nd)
                   /\ Sorted(nd.keys)

(***************************************************************************)
(* The halves of a split are parts of the node, either side of the median. *)
(***************************************************************************)
LEMMA SplitParts ==
    ASSUME NEW N, NEW nd, MaySplit(N, nd)
    PROVE  /\ Part(nd, SplitRight(nd), B) /\ Part(nd, SplitLeft(nd), 0)
           /\ Sorted(SplitRight(nd).keys) /\ Sorted(SplitLeft(nd).keys)
           /\ B \in 1..(Len(nd.keys) - 1) /\ Len(nd.keys) \in Nat
           /\ \A i \in 1..Len(SplitRight(nd).keys) : SplitMedian(nd) < SplitRight(nd).keys[i]
           /\ SplitMedian(nd) < nd.keys[B + 1]
<1> DEFINE r == SplitRight(nd)
           l == SplitLeft(nd)
<1>1. /\ N \in Nat /\ nd \in Node(N) /\ WellFormed(nd) /\ IsFull(nd) /\ Sorted(nd.keys)
  BY DEF MaySplit
<1>2. nd.keys \in Seq(Key) /\ Len(nd.keys) \in Nat /\ nd.leaf \in BOOLEAN
  BY <1>1, NodeFields
<1>3. B \in 1..(Len(nd.keys) - 1) /\ 1 < B
  BY <1>1, <1>2, SplitPoint DEF IsFull
<1>4. /\ r \in Node(N) /\ WellFormed(r) /\ r.leaf = nd.leaf
      /\ Len(r.keys) = Len(nd.keys) - B
      /\ \A i \in 1..(Len(nd.keys) - B) : r.keys[i] = nd.keys[B + i]
  BY <1>1, SplitRightFacts
<1>5. /\ l \in Node(N) /\ WellFormed(l) /\ l.leaf = nd.leaf
      /\ Len(l.keys) \in {B, B - 1}
      /\ \A i \in 1..Len(l.keys) : l.keys[i] = nd.keys[i]
  BY <1>1, SplitLeftFacts
<1> HIDE DEF r, l
<1>6. r.keys \in Seq(Key) /\ l.keys \in Seq(Key)
  BY <1>1, <1>4, <1>5, NodeFields
<1>7. Part(nd, r, B)
  BY <1>1, <1>2, <1>3, <1>4, <1>6 DEF Part
<1>8. Part(nd, l, 0)
  <2>1. \A i \in 1..Len(l.keys) : 0 + i = i
    OBVIOUS
  <2>2. 0 + Len(l.keys) <= Len(nd.keys)
    BY <1>2, <1>3, <1>5
  <2> QED BY <1>1, <1>2, <1>5, <1>6, <2>1, <2>2 DEF Part
<1>9. \A i \in 1..Len(r.keys) : SplitMedian(nd) < r.keys[i]
  <2> TAKE i \in 1..Len(r.keys)
  <2>1. B \in 1..Len(nd.keys) /\ B + i \in 1..Len(nd.keys) /\ B < B + i
    BY <1>2, <1>3, <1>4
  <2>2. r.keys[i] = nd.keys[B + i]
    BY <1>4
  <2> QED BY <1>1, <2>1, <2>2 DEF SplitMedian, Sorted
<1>10. SplitMedian(nd) < nd.keys[B + 1]
  <2>1. B \in 1..Len(nd.keys) /\ B + 1 \in 1..Len(nd.keys) /\ B < B + 1
    BY <1>2, <1>3
  <2> QED BY <1>1, <2>1 DEF SplitMedian, Sorted
<1>11. Sorted(r.keys) /\ Sorted(l.keys)
  BY <1>7, <1>8, PartSorted
<1> QED BY <1>2, <1>3, <1>7, <1>8, <1>9, <1>10, <1>11 DEF r, l

(***************************************************************************)
(* A key above the median is answered by the sibling, another by the left  *)
(* half, as the node answered it: the heart of split (node.rs), for leaf   *)
(* and internal node.                                                      *)
(***************************************************************************)
LEMMA SplitAnswers ==
    ASSUME NEW file, NEW N, NEW nd, MaySplit(N, nd), NEW k \in Key
    PROVE  /\ SplitMedian(nd) < k => NodeAnswers(file, SplitRight(nd), k) = NodeAnswers(file, nd, k)
           /\ ~(SplitMedian(nd) < k) => NodeAnswers(file, SplitLeft(nd), k) = NodeAnswers(file, nd, k)
<1> DEFINE r == SplitRight(nd)
           l == SplitLeft(nd)
<1>1. /\ N \in Nat /\ nd \in Node(N) /\ WellFormed(nd) /\ IsFull(nd) /\ Sorted(nd.keys)
  BY DEF MaySplit
<1>2. nd.keys \in Seq(Key) /\ Len(nd.keys) \in Nat /\ nd.leaf \in BOOLEAN
  BY <1>1, NodeFields
<1>3. /\ Part(nd, r, B) /\ Part(nd, l, 0) /\ B \in 1..(Len(nd.keys) - 1)
  BY SplitParts
<1>4. /\ Len(r.keys) = Len(nd.keys) - B /\ r.leaf = nd.leaf
      /\ nd.leaf => \A i \in 1..(Len(nd.keys) - B) : r.values[i] = nd.values[B + i]
      /\ ~nd.leaf => \A i \in 1..(Len(nd.keys) - B + 1) : r.children[i] = nd.children[B + i]
  BY <1>1, SplitRightFacts
<1>5. /\ Len(l.keys) = (IF nd.leaf THEN B ELSE B - 1) /\ l.leaf = nd.leaf
      /\ nd.leaf => \A i \in 1..B : l.values[i] = nd.values[i]
      /\ ~nd.leaf => \A i \in 1..B : l.children[i] = nd.children[i]
  BY <1>1, SplitLeftFacts
<1> HIDE DEF r, l
<1>6. k \in Nat /\ nd.keys[B] \in Nat
  <2>1. nd.keys[B] \in Key
    <3>1. B \in 1..Len(nd.keys)
      BY <1>2, <1>3
    <3> QED BY <1>2, <3>1
  <2> QED BY <2>1, KeyIsNumber
<1>7. ASSUME SplitMedian(nd) < k PROVE NodeAnswers(file, r, k) = NodeAnswers(file, nd, k)
  <2>1. nd.keys[B] < k
    BY <1>7 DEF SplitMedian
  <2>2. B + Len(r.keys) = Len(nd.keys)
    BY <1>2, <1>3, <1>4
  <2>3. CASE nd.leaf
    <3>0. \A i \in 1..Len(r.keys) : r.values[i] = nd.values[B + i]
      BY <1>4, <2>3
    <3>1. LeafAnswers(r, k) = LeafAnswers(nd, k)
      BY <1>3, <2>1, <2>2, <2>3, <3>0, PartOfLeaf
    <3> QED BY <1>4, <2>3, <3>1 DEF NodeAnswers
  <2>4. CASE ~nd.leaf
    BY <1>3, <1>4, <2>1, <2>2, <2>4, PartOfInner
  <2> QED BY <2>3, <2>4
<1>8. ASSUME ~(SplitMedian(nd) < k) PROVE NodeAnswers(file, l, k) = NodeAnswers(file, nd, k)
  <2>1. k <= nd.keys[B]
    BY <1>6, <1>8 DEF SplitMedian
  <2>0. \A i : i \in 1..B => 0 + i = i
    OBVIOUS
  <2>2. CASE nd.leaf
    <3>1. Len(l.keys) = B /\ 0 + Len(l.keys) = B /\ 1 <= Len(l.keys)
      BY <1>2, <1>3, <1>5, <2>2
    <3>2. \A i \in 1..Len(l.keys) : l.values[i] = nd.values[0 + i]
      BY <1>5, <2>0, <2>2, <3>1
    <3>3. 1 <= Len(l.keys) /\ k <= nd.keys[0 + Len(l.keys)]
      BY <2>1, <3>1
    <3>4. LeafAnswers(l, k) = LeafAnswers(nd, k)
      BY <1>3, <2>2, <3>2, <3>3, PartOfLeaf
    <3> QED BY <1>5, <2>2, <3>4 DEF NodeAnswers
  <2>3. CASE ~nd.leaf
    <3>1. Len(l.keys) + 1 = B /\ 0 + Len(l.keys) + 1 = B
      BY <1>2, <1>3, <1>5, <2>3
    <3>2. \A i \in 1..(Len(l.keys) + 1) : l.children[i] = nd.children[0 + i]
      BY <1>5, <2>0, <2>3, <3>1
    <3>3. k <= nd.keys[0 + Len(l.keys) + 1]
      BY <2>1, <3>1
    <3> QED BY <1>3, <2>3, <3>2, <3>3, PartOfInner
  <2> QED BY <2>2, <2>3
<1> QED BY <1>7, <1>8 DEF r, l
-----------------------------------------------------------------------------
(* Order, for trees whose keys ascend. *)

(***************************************************************************)
(* The nodes of a file and one more.                                       *)
(***************************************************************************)
LEMMA Grew ==
    ASSUME NEW file, Stored(file), NEW nd, NEW g, g = Append(file, nd)
    PROVE  /\ Len(g) = Len(file) + 1 /\ g[Len(file) + 1] = nd
           /\ \A m \in 1..Len(file) : g[m] = file[m]
<1> DEFINE T == Node(Len(file)) \cup {nd}
<1>1. file \in Seq(Node(Len(file))) /\ Len(file) \in Nat
  BY StoredFacts DEF Stored
<1>2. \A S, U : S \subseteq U => Seq(S) \subseteq Seq(U)
  OBVIOUS
<1>3. file \in Seq(T) /\ nd \in T
  <2> DEFINE S == Node(Len(file))
  <2>1. file \in Seq(S) /\ S \subseteq T
    BY <1>1
  <2>2. nd \in T
    OBVIOUS
  <2> HIDE DEF S, T
  <2> QED BY <1>2, <2>1, <2>2
<1> HIDE DEF T
<1> QED BY <1>1, <1>3

(***************************************************************************)
(* The nodes of a file, but for one.                                       *)
(***************************************************************************)
LEMMA Wrote ==
    ASSUME NEW file, Stored(file), NEW n \in 1..Len(file), NEW nd, NEW g, g = [file EXCEPT ![n] = nd]
    PROVE  /\ Len(g) = Len(file) /\ g[n] = nd
           /\ \A m \in 1..Len(file) : m # n => g[m] = file[m]
<1> DEFINE T == Node(Len(file)) \cup {nd}
<1>1. file \in Seq(Node(Len(file))) /\ Len(file) \in Nat
  BY StoredFacts DEF Stored
<1>2. \A S, U : S \subseteq U => Seq(S) \subseteq Seq(U)
  OBVIOUS
<1>3. file \in Seq(T) /\ nd \in T
  <2> DEFINE S == Node(Len(file))
  <2>1. file \in Seq(S) /\ S \subseteq T
    BY <1>1
  <2>2. nd \in T
    OBVIOUS
  <2> HIDE DEF S, T
  <2> QED BY <1>2, <2>1, <2>2
<1> HIDE DEF T
<1> QED BY <1>1, <1>3

(***************************************************************************)
(* A file that has all the nodes another has, in content.                  *)
(***************************************************************************)
Kept(f, g) ==
    /\ Stored(f) /\ Stored(g)
    /\ \E lev : Leveled(f, lev)
    /\ Len(f) <= Len(g)
    /\ \A n \in 1..Len(f) : SameContent(f[n], g[n])

(***************************************************************************)
(* ... answers the same from each of them.                                 *)
(***************************************************************************)
LEMMA KeptAnswers ==
    ASSUME NEW f, NEW g, Kept(f, g), NEW key
    PROVE  \A n \in 1..Len(f) : Answers(g, n, key) = Answers(f, n, key)
<1>1. PICK lev : Leveled(f, lev)
  BY DEF Kept
<1>2. MayAgree(f, g, lev, key, 1..Len(f))
  BY <1>1 DEF Kept, MayAgree
<1> QED BY <1>2, AnswersAgree

(***************************************************************************)
(* A node and its copy find the same where their children do.              *)
(***************************************************************************)
LEMMA SameNode ==
    ASSUME NEW f, NEW g, NEW key, NEW N \in Nat, NEW a \in Node(N), WellFormed(a), NEW b,
           SameContent(a, b),
           ~a.leaf => \A p \in 1..Len(a.children) :
                          Answers(g, a.children[p], key) = Answers(f, a.children[p], key)
    PROVE  NodeAnswers(g, b, key) = NodeAnswers(f, a, key)
<1>1. b.leaf = a.leaf /\ b.keys = a.keys /\ b.values = a.values /\ b.children = a.children
  BY DEF SameContent
<1>2. CASE a.leaf
  <2>1. LeafAnswers(b, key) = LeafAnswers(a, key)
    BY <1>1 DEF LeafAnswers
  <2> QED BY <1>1, <1>2, <2>1 DEF NodeAnswers
<1>3. CASE ~a.leaf
  <2> DEFINE P == Positions(a.keys, key)
  <2>1. Len(a.keys) \in Nat /\ Len(a.children) = Len(a.keys) + 1
    BY <1>3, NodeFields
  <2>2. \A p \in P : p \in 1..Len(a.children)
    BY <2>1, PositionsIn
  <2>3. \A p \in P : Answers(g, a.children[p], key) = Answers(f, a.children[p], key)
    BY <1>3, <2>2
  <2>4. /\ NodeAnswers(g, b, key) = UNION {Answers(g, a.children[p], key) : p \in P}
        /\ NodeAnswers(f, a, key) = UNION {Answers(f, a.children[p], key) : p \in P}
    BY <1>1, <1>3 DEF NodeAnswers
  <2> HIDE DEF P
  <2>5. ASSUME NEW v PROVE v \in NodeAnswers(g, b, key) <=> v \in NodeAnswers(f, a, key)
    <3>1. v \in NodeAnswers(g, b, key) <=> \E p \in P : v \in Answers(g, a.children[p], key)
      BY <2>4, Zenon
    <3>2. v \in NodeAnswers(f, a, key) <=> \E p \in P : v \in Answers(f, a.children[p], key)
      BY <2>4, Zenon
    <3> QED BY <2>3, <3>1, <3>2, Zenon
  <2> QED BY <2>5
<1> QED BY <1>2, <1>3

(***************************************************************************)
(* ... in particular in a file that keeps the nodes.                       *)
(***************************************************************************)
LEMMA KeptNode ==
    ASSUME NEW f, NEW g, Kept(f, g), NEW key, NEW a \in Node(Len(f)), WellFormed(a), NEW b,
           SameContent(a, b)
    PROVE  NodeAnswers(g, b, key) = NodeAnswers(f, a, key)
<1>1. Len(f) \in Nat
  BY StoredFacts DEF Kept
<1>2. \A p \in 1..Len(a.children) : a.children[p] \in 1..Len(f)
  BY <1>1, NodeFields
<1>3. \A p \in 1..Len(a.children) : Answers(g, a.children[p], key) = Answers(f, a.children[p], key)
  BY <1>2, KeptAnswers
<1> QED BY <1>1, <1>3, SameNode

(***************************************************************************)
(* Keys ascend in a node, and every key of a child is above the separator  *)
(* at its left. (Keys of a child may well be above the separator at its    *)
(* right: a child split in insert_non_full keeps on disk all it had.)      *)
(***************************************************************************)
NodeOrdered(file, nd) ==
    /\ Sorted(nd.keys)
    /\ ~nd.leaf =>
          /\ 1 <= Len(nd.keys)
          /\ \A p \in 1..Len(nd.keys) : \A q \in 1..Len(file[nd.children[p + 1]].keys) :
                nd.keys[p] < file[nd.children[p + 1]].keys[q]

(***************************************************************************)
(* A value for k has been begun to be inserted.                            *)
(***************************************************************************)
Said(past, k) == past[k] # {None}

(***************************************************************************)
(* k is below a key that has.                                              *)
(***************************************************************************)
Before(past, k) == \E j \in Key : Said(past, j) /\ k < j

(***************************************************************************)
(* The keys of a leaf have been given, those of an internal node are below *)
(* one that has.                                                           *)
(***************************************************************************)
Timely(past, nd) ==
    \A p \in 1..Len(nd.keys) : IF nd.leaf THEN Said(past, nd.keys[p]) ELSE Before(past, nd.keys[p])

(***************************************************************************)
(* A search for key from start passes n: every set that has n, and each    *)
(* node all of whose ways lead into the set, has start.                    *)
(***************************************************************************)
OnPath(file, start, n, key) ==
    \A S \in SUBSET (1..Len(file)) :
        /\ n \in S
        /\ \A m \in 1..Len(file) :
              ~file[m].leaf /\ (\A p \in Positions(file[m].keys, key) : file[m].children[p] \in S)
                  => m \in S
        => start \in S

(***************************************************************************)
(* A file that keeps the nodes keeps their order.                          *)
(***************************************************************************)
LEMMA KeptOrdered ==
    ASSUME NEW f, NEW g, Kept(f, g), NEW a \in Node(Len(f)), WellFormed(a), NodeOrdered(f, a),
           NEW b, SameContent(a, b)
    PROVE  NodeOrdered(g, b)
<1>1. b.leaf = a.leaf /\ b.keys = a.keys /\ b.values = a.values /\ b.children = a.children
  BY DEF SameContent
<1>2. Sorted(a.keys)
  BY DEF NodeOrdered
<1>3. ASSUME ~a.leaf
      PROVE  /\ 1 <= Len(a.keys)
             /\ \A p \in 1..Len(a.keys) : \A q \in 1..Len(g[a.children[p + 1]].keys) :
                   a.keys[p] < g[a.children[p + 1]].keys[q]
  <2>1. Len(a.keys) \in Nat /\ Len(a.children) = Len(a.keys) + 1
        /\ \A p \in 1..Len(a.children) : a.children[p] \in 1..Len(f)
    <3>1. Len(f) \in Nat
      BY StoredFacts DEF Kept
    <3> QED BY <1>3, <3>1, NodeFields
  <2>2. \A p \in 1..Len(a.keys) : a.children[p + 1] \in 1..Len(f)
    BY <2>1
  <2>3. \A n \in 1..Len(f) : g[n].keys = f[n].keys
    BY DEF Kept, SameContent
  <2>4. \A p \in 1..Len(a.keys) : g[a.children[p + 1]].keys = f[a.children[p + 1]].keys
    BY <2>2, <2>3
  <2> QED BY <1>3, <2>4 DEF NodeOrdered
<1> QED BY <1>1, <1>2, <1>3 DEF NodeOrdered

(***************************************************************************)
(* Nodes stay timely as more keys are given.                               *)
(***************************************************************************)
LEMMA TimelyStill ==
    ASSUME NEW past, NEW now, \A k \in Key : Said(past, k) => Said(now, k),
           NEW a, a.keys \in Seq(Key), NEW b, a.leaf = b.leaf, a.keys = b.keys, Timely(past, a)
    PROVE  Timely(now, b)
<1>1. \A k : Before(past, k) => Before(now, k)
  BY DEF Before
<1>2. \A p \in 1..Len(b.keys) : b.keys[p] \in Key
  OBVIOUS
<1> QED BY <1>1, <1>2 DEF Timely
-----------------------------------------------------------------------------
(* The invariant of a tree filled in ascending order, and the root's split. *)

(***************************************************************************)
(* What the tree says of k: a search on disk, or while the root has lost   *)
(* its right half, one of the half that is meant.                          *)
(***************************************************************************)
Says(k) == IF pc \in Torn
           THEN NodeAnswers(nodes, IF med < k THEN sib ELSE nodes[at], k)
           ELSE Answers(nodes, rootOffset, k)

(***************************************************************************)
(* Every node is ordered and timely.                                       *)
(***************************************************************************)
Ordering == \A n \in 1..Newest : NodeOrdered(nodes, nodes[n]) /\ Timely(allowed, nodes[n])

(***************************************************************************)
(* The key being inserted is the greatest ever: what ascending inserts     *)
(* mean for the writer.                                                    *)
(***************************************************************************)
Latest == pc # "idle" => \A j \in Key : Said(allowed, j) => j <= entry[1]

(***************************************************************************)
(* The root flag is set in no node but the root, or the node about to be.  *)
(***************************************************************************)
Flags == \A n \in 1..Newest : nodes[n].isRoot => n = rootOffset \/ (pc = "setRoot" /\ n = Newest)

(***************************************************************************)
(* A root over two halves.                                                 *)
(***************************************************************************)
RootIs(nd, m, left, right) == nd.leaf = FALSE /\ nd.keys = <<m>> /\ nd.children = <<left, right>>

(***************************************************************************)
(* The sibling of a root's split is ordered, timely and above the median,  *)
(* wherever it is.                                                         *)
(***************************************************************************)
TornHalf ==
    /\ pc \in {"sibling", "growRoot", "setRoot"} =>
          /\ at = rootOffset /\ ~nodes[at].isRoot /\ ~sib.isRoot
          /\ NodeOrdered(nodes, sib) /\ Timely(allowed, sib) /\ Before(allowed, med)
          /\ \A q \in 1..Len(sib.keys) : med < sib.keys[q]
    /\ pc = "growRoot" => nodes[Newest] = sib
    /\ pc = "setRoot" => nodes[Newest - 1] = sib /\ RootIs(nodes[Newest], med, at, Newest - 1)

(***************************************************************************)
(* The child being split is the last, and its sibling is stored.           *)
(***************************************************************************)
LinkHalf ==
    pc = "link" => /\ slot = Len(nodes[at].children)
                   /\ nodes[Newest] = SplitRight(nodes[nodes[at].children[slot]])

(***************************************************************************)
(* A search for the key being inserted passes the node the writer is at.   *)
(***************************************************************************)
WayToAt == pc \in {"descend", "link"} => OnPath(nodes, rootOffset, at, entry[1])

(***************************************************************************)
(* What the tree says is allowed.                                          *)
(***************************************************************************)
Truth == \A k \in Key : Says(k) \subseteq allowed[k]

(***************************************************************************)
(* The inductive invariant of trees filled in ascending order.             *)
(***************************************************************************)
Log == /\ Restored
       /\ Ordering
       /\ Latest
       /\ Flags
       /\ TornHalf
       /\ LinkHalf
       /\ WayToAt
       /\ Truth

(***************************************************************************)
(* The step changes nothing the tree says.                                 *)
(***************************************************************************)
Silent == \A k \in Key : Says(k)' = Says(k)

(***************************************************************************)
(* Elementary consequences of Restored.                                    *)
(***************************************************************************)
LEMMA RestoredFacts ==
    ASSUME Restored
    PROVE  /\ Stored(nodes) /\ \E lev : Leveled(nodes, lev)
           /\ Newest \in Nat /\ Newest = Len(nodes) /\ rootOffset \in 1..Newest /\ at \in 1..Newest
           /\ kind = "insert" /\ pc \notin Bulky
           /\ \A n \in 1..Newest : /\ nodes[n] \in Node(Newest) /\ WellFormed(nodes[n])
                                   /\ nodes[n].keys \in Seq(Key)
           /\ pc = "sibling" => sib \in Node(Newest) /\ WellFormed(sib)
           /\ pc = "setRoot" => 1 < Newest
<1>1. PICK lev : Shape(lev)
  BY DEF Restored
<1>2. Stored(nodes) /\ Leveled(nodes, lev) /\ rootOffset \in 1..Newest /\ at \in 1..Newest
  BY <1>1 DEF Shape
<1>3. Newest \in Nat /\ Newest = Len(nodes)
  BY <1>2, StoredFacts DEF Newest
<1>4. \A n \in 1..Newest : /\ nodes[n] \in Node(Newest) /\ WellFormed(nodes[n])
                           /\ nodes[n].keys \in Seq(Key)
  BY <1>2, <1>3, StoredFacts
<1>5. pc = "sibling" => sib \in Node(Newest) /\ WellFormed(sib)
  BY <1>1 DEF Shape, Fits
<1>6. pc = "setRoot" => 1 < Newest
  BY <1>1 DEF Shape, Fits
<1> QED BY <1>2, <1>3, <1>4, <1>5, <1>6 DEF Restored

(***************************************************************************)
(* The sibling of a root's split is a node.                                *)
(***************************************************************************)
LEMMA HalfTyped ==
    ASSUME Log, pc \in {"sibling", "growRoot", "setRoot"}
    PROVE  sib \in Node(Newest) /\ WellFormed(sib)
<1>1. CASE pc = "sibling"
  BY <1>1, RestoredFacts DEF Log
<1>2. CASE pc = "growRoot"
  <2>1. Newest \in 1..Newest
    BY RestoredFacts DEF Log
  <2>2. nodes[Newest] = sib
    BY <1>2 DEF Log, TornHalf
  <2> QED BY <2>1, <2>2, RestoredFacts DEF Log
<1>3. CASE pc = "setRoot"
  <2>1. Newest - 1 \in 1..Newest
    BY <1>3, RestoredFacts DEF Log
  <2>2. nodes[Newest - 1] = sib
    BY <1>3 DEF Log, TornHalf
  <2> QED BY <2>1, <2>2, RestoredFacts DEF Log
<1> QED BY <1>1, <1>2, <1>3

(***************************************************************************)
(* The file is stored after a step that keeps Restored.                    *)
(***************************************************************************)
LEMMA RestoredStored ==
    ASSUME Restored'
    PROVE  Stored(nodes')
  BY DEF Restored, Shape

(***************************************************************************)
(* A store at the end keeps the nodes there are.                           *)
(***************************************************************************)
LEMMA Appending ==
    ASSUME Restored, Restored', NEW nd, nodes' = Append(nodes, nd)
    PROVE  /\ Kept(nodes, nodes') /\ Newest' = Newest + 1 /\ nodes'[Newest + 1] = nd
           /\ \A m \in 1..Newest : nodes'[m] = nodes[m]
           /\ 1..(Newest + 1) = 1..Newest \cup {Newest + 1} /\ Newest + 1 \notin 1..Newest
<1>1. /\ Stored(nodes) /\ \E lev : Leveled(nodes, lev)
      /\ Newest \in Nat /\ Newest = Len(nodes)
  BY RestoredFacts
<1>2. Stored(nodes')
  BY RestoredStored
<1>3. /\ Len(nodes') = Newest + 1 /\ nodes'[Newest + 1] = nd
      /\ \A m \in 1..Newest : nodes'[m] = nodes[m]
  BY <1>1, Grew
<1>4. Kept(nodes, nodes')
  <2>1. Len(nodes) <= Len(nodes')
    BY <1>1, <1>3
  <2>2. \A m \in 1..Len(nodes) : SameContent(nodes[m], nodes'[m])
    BY <1>1, <1>3 DEF SameContent
  <2> QED BY <1>1, <1>2, <2>1, <2>2 DEF Kept
<1>5. Newest' = Newest + 1
  BY <1>3 DEF Newest
<1>6. 1..(Newest + 1) = 1..Newest \cup {Newest + 1} /\ Newest + 1 \notin 1..Newest
  BY <1>1
<1> QED BY <1>3, <1>4, <1>5, <1>6

(***************************************************************************)
(* A step that keeps the nodes keeps their order, and what searches find.  *)
(***************************************************************************)
LEMMA KeptRest ==
    ASSUME Log, Kept(nodes, nodes'), allowed' = allowed
    PROVE  /\ \A n \in 1..Newest : NodeOrdered(nodes', nodes'[n]) /\ Timely(allowed', nodes'[n])
           /\ pc \in {"sibling", "growRoot", "setRoot"} => NodeOrdered(nodes', sib)
           /\ \A k : Answers(nodes', rootOffset, k) = Answers(nodes, rootOffset, k)
           /\ \A k : NodeAnswers(nodes', nodes'[at], k) = NodeAnswers(nodes, nodes[at], k)
           /\ pc \in {"sibling", "growRoot", "setRoot"} =>
                 \A k : NodeAnswers(nodes', sib, k) = NodeAnswers(nodes, sib, k)
<1>1. /\ Newest = Len(nodes) /\ rootOffset \in 1..Newest /\ at \in 1..Newest
      /\ \A n \in 1..Newest : /\ nodes[n] \in Node(Newest) /\ WellFormed(nodes[n])
                              /\ nodes[n].keys \in Seq(Key)
  BY RestoredFacts DEF Log
<1>2. \A n \in 1..Newest : SameContent(nodes[n], nodes'[n])
  BY <1>1 DEF Kept
<1>3. ASSUME NEW n \in 1..Newest PROVE NodeOrdered(nodes', nodes'[n]) /\ Timely(allowed', nodes'[n])
  <2>1. NodeOrdered(nodes, nodes[n]) /\ Timely(allowed, nodes[n])
    BY DEF Log, Ordering
  <2>2. NodeOrdered(nodes', nodes'[n])
    BY <1>1, <1>2, <2>1, KeptOrdered
  <2>3. nodes[n].leaf = nodes'[n].leaf /\ nodes[n].keys = nodes'[n].keys
    BY <1>2 DEF SameContent
  <2>4. Timely(allowed', nodes'[n])
    BY <1>1, <2>1, <2>3, TimelyStill
  <2> QED BY <2>2, <2>4
<1>4. \A nd : SameContent(nd, nd)
  BY DEF SameContent
<1>5. ASSUME pc \in {"sibling", "growRoot", "setRoot"}
      PROVE  NodeOrdered(nodes', sib) /\ \A k : NodeAnswers(nodes', sib, k) = NodeAnswers(nodes, sib, k)
  <2>1. sib \in Node(Newest) /\ WellFormed(sib) /\ NodeOrdered(nodes, sib)
    BY <1>5, HalfTyped DEF Log, TornHalf
  <2> QED BY <1>1, <1>4, <2>1, KeptOrdered, KeptNode
<1>6. \A k : Answers(nodes', rootOffset, k) = Answers(nodes, rootOffset, k)
  BY <1>1, KeptAnswers
<1>7. \A k : NodeAnswers(nodes', nodes'[at], k) = NodeAnswers(nodes, nodes[at], k)
  BY <1>1, <1>2, KeptNode
<1> QED BY <1>3, <1>5, <1>6, <1>7

(***************************************************************************)
(* A silent step keeps what the tree says allowed.                         *)
(***************************************************************************)
LEMMA SilentTruth ==
    ASSUME Log, Silent, \A k \in Key : allowed[k] \subseteq allowed'[k]
    PROVE  Truth'
  BY DEF Log, Truth, Silent

(***************************************************************************)
(* A store at the end during a root's split is silent.                     *)
(***************************************************************************)
LEMMA TornSilent ==
    ASSUME Log, Kept(nodes, nodes'), allowed' = allowed, at' = at, sib' = sib, med' = med,
           pc \in {"sibling", "growRoot"}, pc' \in {"growRoot", "setRoot"}
    PROVE  Silent
<1>1. ASSUME NEW k \in Key PROVE Says(k)' = Says(k)
  <2>1. /\ Says(k) = NodeAnswers(nodes, IF med < k THEN sib ELSE nodes[at], k)
        /\ Says(k)' = NodeAnswers(nodes', IF med < k THEN sib ELSE nodes'[at], k)
    BY DEF Says, Torn
  <2>2. CASE med < k
    <3>1. NodeAnswers(nodes', sib, k) = NodeAnswers(nodes, sib, k)
      BY KeptRest
    <3> QED BY <2>1, <2>2, <3>1
  <2>3. CASE ~(med < k)
    <3>1. NodeAnswers(nodes', nodes'[at], k) = NodeAnswers(nodes, nodes[at], k)
      BY KeptRest
    <3> QED BY <2>1, <2>3, <3>1
  <2> QED BY <2>2, <2>3
<1> QED BY <1>1 DEF Silent

(***************************************************************************)
(* RootSibling keeps the invariant, silently.                              *)
(***************************************************************************)
LEMMA LogRootSibling ==
    ASSUME Log, Restored', RootSibling
    PROVE  Log' /\ Silent
<1>1. /\ pc = "sibling" /\ pc' = "growRoot" /\ nodes' = Append(nodes, sib)
      /\ at' = at /\ rootOffset' = rootOffset /\ sib' = sib /\ med' = med /\ todo' = todo
      /\ allowed' = allowed
  BY DEF RootSibling, locals
<1>2. /\ Kept(nodes, nodes') /\ Newest' = Newest + 1 /\ nodes'[Newest + 1] = sib
      /\ \A m \in 1..Newest : nodes'[m] = nodes[m]
      /\ 1..(Newest + 1) = 1..Newest \cup {Newest + 1} /\ Newest + 1 \notin 1..Newest
  BY <1>1, Appending DEF Log
<1>3. Silent
  BY <1>1, <1>2, TornSilent
<1>4. Ordering'
  BY <1>1, <1>2, KeptRest DEF Ordering, Log, TornHalf
<1>5. Latest'
  BY <1>1 DEF Log, Latest, entry, Said
<1>6. Flags'
  BY <1>1, <1>2 DEF Log, Flags, TornHalf
<1>7. TornHalf'
  <2>1. nodes'[at] = nodes[at]
    BY <1>2, RestoredFacts DEF Log
  <2> QED BY <1>1, <1>2, <2>1, KeptRest DEF Log, TornHalf
<1>8. Truth'
  BY <1>1, <1>3, SilentTruth
<1> QED BY <1>1, <1>3, <1>4, <1>5, <1>6, <1>7, <1>8 DEF Log, LinkHalf, WayToAt

(***************************************************************************)
(* GrowRoot does.                                                          *)
(***************************************************************************)
LEMMA LogGrowRoot ==
    ASSUME Log, Restored', GrowRoot
    PROVE  Log' /\ Silent
<1> DEFINE N == Newest
           nd == RootOver(at, N)
<1>1. /\ pc = "growRoot" /\ pc' = "setRoot" /\ nodes' = Append(nodes, nd)
      /\ at' = at /\ rootOffset' = rootOffset /\ sib' = sib /\ med' = med /\ todo' = todo
      /\ allowed' = allowed
  BY DEF GrowRoot, locals, Newest
<1>0. RootIs(nd, med, at, N)
  BY DEF RootIs, RootOver, NewInternal, NewLeaf
<1> HIDE DEF nd
<1>2. /\ Kept(nodes, nodes') /\ Newest' = N + 1 /\ nodes'[N + 1] = nd
      /\ \A m \in 1..N : nodes'[m] = nodes[m]
      /\ 1..(N + 1) = 1..N \cup {N + 1} /\ N + 1 \notin 1..N
  BY <1>1, Appending DEF Log
<1>3. Silent
  BY <1>1, <1>2, TornSilent
<1>9. N \in 1..N /\ at \in 1..N /\ nodes'[N] = sib /\ N + 1 - 1 = N /\ nodes'[at] = nodes[at]
  <2>1. N \in 1..N /\ at \in 1..N
    BY RestoredFacts DEF Log
  <2>2. nodes[N] = sib
    BY <1>1 DEF Log, TornHalf
  <2> QED BY <1>2, <2>1, <2>2
<1>4. Ordering'
  <2>1. NodeOrdered(nodes', nd)
    <3>1. nd.keys = <<med>> /\ nd.children = <<at, N>> /\ Len(nd.keys) = 1
      BY <1>0 DEF RootIs
    <3>2. Sorted(nd.keys)
      BY <3>1 DEF Sorted
    <3>3. \A p \in 1..Len(nd.keys) : nd.keys[p] = med /\ nd.children[p + 1] = N
      <4>1. \A p \in 1..1 : p = 1
        OBVIOUS
      <4> QED BY <3>1, <4>1
    <3>4. \A q \in 1..Len(sib.keys) : med < sib.keys[q]
      BY <1>1 DEF Log, TornHalf
    <3> QED BY <1>9, <3>1, <3>2, <3>3, <3>4 DEF NodeOrdered
  <2>2. Timely(allowed', nd)
    <3>1. nd.leaf = FALSE /\ \A p \in 1..Len(nd.keys) : nd.keys[p] = med
      <4>1. \A p \in 1..1 : p = 1
        OBVIOUS
      <4> QED BY <1>0, <4>1 DEF RootIs
    <3>2. Before(allowed', med)
      BY <1>1 DEF Log, TornHalf
    <3> QED BY <3>1, <3>2 DEF Timely
  <2> QED BY <1>1, <1>2, <2>1, <2>2, KeptRest DEF Ordering
<1>5. Latest'
  BY <1>1 DEF Log, Latest, entry, Said
<1>6. Flags'
  BY <1>1, <1>2 DEF Log, Flags
<1>7. TornHalf'
  <2>1. /\ at = rootOffset /\ ~nodes'[at].isRoot /\ ~sib.isRoot
        /\ Timely(allowed, sib) /\ Before(allowed, med)
        /\ \A q \in 1..Len(sib.keys) : med < sib.keys[q]
    BY <1>1, <1>9 DEF Log, TornHalf
  <2>2. NodeOrdered(nodes', sib)
    BY <1>1, <1>2, KeptRest
  <2>3. nodes'[Newest' - 1] = sib /\ nodes'[Newest'] = nd /\ Newest' - 1 = N
    BY <1>2, <1>9
  <2>4. RootIs(nodes'[Newest'], med, at, Newest' - 1)
    BY <1>0, <2>3
  <2> QED BY <1>1, <2>1, <2>2, <2>3, <2>4 DEF TornHalf
<1>8. Truth'
  BY <1>1, <1>3, SilentTruth
<1> QED BY <1>1, <1>3, <1>4, <1>5, <1>6, <1>7, <1>8 DEF Log, LinkHalf, WayToAt

(***************************************************************************)
(* SetRootOffset does: a search through the new root goes to the half that *)
(* is meant.                                                               *)
(***************************************************************************)
LEMMA LogSetRoot ==
    ASSUME Log, Restored', SetRootOffset
    PROVE  Log' /\ Silent
<1> DEFINE N == Newest
<1>1. /\ pc = "setRoot" /\ pc' = "adoptLeft" /\ nodes' = nodes /\ rootOffset' = N
      /\ at' = at /\ sib' = sib /\ med' = med /\ todo' = todo /\ allowed' = allowed /\ Newest' = N
  BY DEF SetRootOffset, locals, Newest
<1>2. /\ Stored(nodes) /\ N = Len(nodes) /\ N \in 1..N /\ at \in 1..N /\ N - 1 \in 1..N /\ N # N - 1
  BY <1>1, RestoredFacts DEF Log
<1>3. /\ nodes[N - 1] = sib /\ RootIs(nodes[N], med, at, N - 1)
      /\ at = rootOffset /\ ~nodes[at].isRoot
  BY <1>1 DEF Log, TornHalf
<1>4. Silent
  <2>1. ASSUME NEW k \in Key PROVE Says(k)' = Says(k)
    <3>1. Says(k)' = Answers(nodes, N, k)
      BY <1>1 DEF Says, Torn
    <3>2. Says(k) = NodeAnswers(nodes, IF med < k THEN sib ELSE nodes[at], k)
      BY <1>1 DEF Says, Torn
    <3>3. nodes[N].leaf = FALSE /\ nodes[N].keys = <<med>> /\ nodes[N].children = <<at, N - 1>>
      BY <1>3 DEF RootIs
    <3>4. Answers(nodes, N, k) = UNION {Answers(nodes, nodes[N].children[p], k) :
                                           p \in Positions(nodes[N].keys, k)}
      BY <1>2, <3>3, AnswersStep
    <3>5. <<med>> \in Seq(Key) /\ Sorted(<<med>>) /\ Len(<<med>>) = 1 /\ <<med>>[1] = med
      <4>1. med \in Key
        BY <1>1 DEF Log, Restored, Writer, Splitting
      <4> QED BY <4>1 DEF Sorted
    <3>6. med \in Nat /\ k \in Nat
      <4>1. med \in Key
        BY <1>1 DEF Log, Restored, Writer, Splitting
      <4> QED BY <4>1, KeyIsNumber
    <3>7. CASE med < k
      <4>1. Positions(<<med>>, k) = {2}
        <5> DEFINE p == 2
        <5>1. p \in 1..(Len(<<med>>) + 1) /\ p = Len(<<med>>) + 1 /\ <<med>>[p - 1] < k
          BY <3>5, <3>7
        <5> HIDE DEF p
        <5>2. Positions(<<med>>, k) = {p}
          BY <3>5, <5>1, PositionIs
        <5> QED BY <5>2 DEF p
      <4>2. Answers(nodes, N, k) = Answers(nodes, N - 1, k)
        BY <3>3, <3>4, <4>1
      <4>3. Answers(nodes, N - 1, k) = NodeAnswers(nodes, sib, k)
        BY <1>2, <1>3, NodeAnswersIn
      <4> QED BY <3>1, <3>2, <3>7, <4>2, <4>3
    <3>8. CASE ~(med < k)
      <4>1. Positions(<<med>>, k) = {1}
        <5> DEFINE p == 1
        <5>1. p \in 1..(Len(<<med>>) + 1) /\ p = 1 /\ k <= <<med>>[p]
          BY <3>5, <3>6, <3>8
        <5> HIDE DEF p
        <5>2. Positions(<<med>>, k) = {p}
          BY <3>5, <5>1, PositionIs
        <5> QED BY <5>2 DEF p
      <4>2. Answers(nodes, N, k) = Answers(nodes, at, k)
        BY <3>3, <3>4, <4>1
      <4>3. Answers(nodes, at, k) = NodeAnswers(nodes, nodes[at], k)
        BY <1>2, NodeAnswersIn
      <4> QED BY <3>1, <3>2, <3>8, <4>2, <4>3
    <3> QED BY <3>7, <3>8
  <2> QED BY <2>1 DEF Silent
<1>5. Ordering' /\ Latest'
  <2>1. Ordering'
    BY <1>1 DEF Log, Ordering
  <2>2. Latest'
    BY <1>1 DEF Log, Latest, entry, Said
  <2> QED BY <2>1, <2>2
<1>6. Flags'
  BY <1>1, <1>3 DEF Log, Flags
<1>7. Truth'
  BY <1>1, <1>4, SilentTruth
<1> QED BY <1>1, <1>4, <1>5, <1>6, <1>7 DEF Log, TornHalf, LinkHalf, WayToAt

(***************************************************************************)
(* A store that changes root flag or parent only keeps the nodes.          *)
(***************************************************************************)
LEMMA Remarked ==
    ASSUME Restored, Restored', NEW n \in 1..Newest, NEW nd, nodes' = [nodes EXCEPT ![n] = nd],
           SameContent(nodes[n], nd)
    PROVE  /\ Kept(nodes, nodes') /\ Newest' = Newest /\ nodes'[n] = nd
           /\ \A m \in 1..Newest : m # n => nodes'[m] = nodes[m]
<1>1. /\ Stored(nodes) /\ \E lev : Leveled(nodes, lev)
      /\ Newest \in Nat /\ Newest = Len(nodes)
  BY RestoredFacts
<1>2. Stored(nodes')
  BY RestoredStored
<1>3. /\ Len(nodes') = Newest /\ nodes'[n] = nd
      /\ \A m \in 1..Newest : m # n => nodes'[m] = nodes[m]
  BY <1>1, Wrote
<1>4. \A m \in 1..Len(nodes) : SameContent(nodes[m], nodes'[m])
  <2> TAKE m \in 1..Len(nodes)
  <2>1. CASE m = n
    BY <1>3, <2>1
  <2>2. CASE m # n
    BY <1>1, <1>3, <2>2 DEF SameContent
  <2> QED BY <2>1, <2>2
<1>5. Kept(nodes, nodes')
  BY <1>1, <1>2, <1>3, <1>4 DEF Kept
<1> QED BY <1>3, <1>5 DEF Newest

(***************************************************************************)
(* A step that keeps the nodes and the root is silent outside a root's     *)
(* split.                                                                  *)
(***************************************************************************)
LEMMA KeptSilent ==
    ASSUME Log, Kept(nodes, nodes'), allowed' = allowed, rootOffset' = rootOffset,
           pc \notin Torn, pc' \notin Torn
    PROVE  Silent /\ Truth'
<1>1. \A k \in Key : Says(k)' = Says(k)
  BY KeptRest DEF Says
<1>2. Silent
  BY <1>1 DEF Silent
<1> QED BY <1>2, SilentTruth

(***************************************************************************)
(* AdoptLeft keeps the invariant, silently.                                *)
(***************************************************************************)
LEMMA LogAdoptLeft ==
    ASSUME Log, Restored', AdoptLeft
    PROVE  Log' /\ Silent
<1> DEFINE nd == [nodes[at] EXCEPT !.isRoot = FALSE, !.parent = rootOffset]
<1>1. /\ pc = "adoptLeft" /\ pc' = "adoptRight" /\ nodes' = [nodes EXCEPT ![at] = nd]
      /\ at' = at /\ rootOffset' = rootOffset /\ sib' = sib /\ med' = med /\ todo' = todo
      /\ allowed' = allowed
  BY DEF AdoptLeft, locals
<1>2. at \in 1..Newest /\ nodes[at] \in Node(Newest)
  BY RestoredFacts DEF Log
<1>3. SameContent(nodes[at], nd) /\ nd.isRoot = FALSE
  BY <1>2 DEF Node, SameContent
<1> HIDE DEF nd
<1>4. /\ Kept(nodes, nodes') /\ Newest' = Newest /\ nodes'[at] = nd
      /\ \A m \in 1..Newest : m # at => nodes'[m] = nodes[m]
  BY <1>1, <1>2, <1>3, Remarked DEF Log
<1>5. Silent /\ Truth'
  BY <1>1, <1>4, KeptSilent DEF Torn
<1>6. Ordering'
  BY <1>1, <1>4, KeptRest DEF Ordering
<1>7. Latest'
  BY <1>1 DEF Log, Latest, entry, Said
<1>8. Flags'
  BY <1>1, <1>3, <1>4 DEF Log, Flags
<1> QED BY <1>1, <1>5, <1>6, <1>7, <1>8 DEF Log, TornHalf, LinkHalf, WayToAt

(***************************************************************************)
(* AdoptRight does: the descent begins at the root.                        *)
(***************************************************************************)
LEMMA LogAdoptRight ==
    ASSUME Log, Restored', AdoptRight
    PROVE  Log' /\ Silent
<1> DEFINE n == Len(nodes) - 1
           nd == [nodes[n] EXCEPT !.parent = rootOffset]
<1>1. /\ pc = "adoptRight" /\ nodes' = [nodes EXCEPT ![n] = nd]
      /\ pc' = "descend" /\ at' = rootOffset
      /\ rootOffset' = rootOffset /\ todo' = todo
      /\ allowed' = allowed
  BY RestoredFacts DEF AdoptRight, Log
<1>2. n \in 1..Newest
  <2>1. 1 < Newest
    BY <1>1 DEF Log, Restored, Shape, Fits
  <2>2. Newest \in Nat /\ Newest = Len(nodes)
    BY RestoredFacts DEF Log
  <2> QED BY <2>1, <2>2
<1> HIDE DEF n
<1>9. nodes[n] \in Node(Newest)
  BY <1>2, RestoredFacts DEF Log
<1>3. SameContent(nodes[n], nd) /\ nd.isRoot = nodes[n].isRoot
  BY <1>9 DEF Node, SameContent
<1> HIDE DEF nd
<1>4. /\ Kept(nodes, nodes') /\ Newest' = Newest /\ nodes'[n] = nd
      /\ \A m \in 1..Newest : m # n => nodes'[m] = nodes[m]
  BY <1>1, <1>2, <1>3, Remarked DEF Log
<1>5. Silent /\ Truth'
  BY <1>1, <1>4, KeptSilent DEF Torn
<1>6. Ordering'
  BY <1>1, <1>4, KeptRest DEF Ordering
<1>7. Latest'
  BY <1>1 DEF Log, Latest, entry, Said
<1>8. Flags'
  BY <1>1, <1>3, <1>4 DEF Log, Flags
<1>10. WayToAt'
  BY <1>1 DEF WayToAt, OnPath
<1> QED BY <1>1, <1>5, <1>6, <1>7, <1>8, <1>10 DEF Log, TornHalf, LinkHalf

(***************************************************************************)
(* A crash anywhere but in a root's split does.                            *)
(***************************************************************************)
LEMMA LogCrash ==
    ASSUME Log, Restored', pc \notin Torn, Crash
    PROVE  Log' /\ Silent
<1>1. /\ nodes' = nodes /\ rootOffset' = rootOffset /\ allowed' = allowed /\ pc' = "idle"
      /\ Newest' = Newest
  BY DEF Crash, Return, disk, Newest
<1>2. Silent
  BY <1>1 DEF Silent, Says, Torn
<1>3. Truth'
  BY <1>1, <1>2, SilentTruth
<1>4. Ordering'
  BY <1>1 DEF Log, Ordering
<1>5. Flags'
  BY <1>1 DEF Log, Flags, Torn
<1> QED BY <1>1, <1>2, <1>3, <1>4, <1>5 DEF Log, Latest, TornHalf, LinkHalf, WayToAt

(***************************************************************************)
(* Stuttering does.                                                        *)
(***************************************************************************)
LEMMA LogSame ==
    ASSUME Log, Restored', UNCHANGED vars
    PROVE  Log' /\ Silent
<1>1. /\ nodes' = nodes /\ rootOffset' = rootOffset /\ allowed' = allowed /\ pc' = pc /\ Newest' = Newest
      /\ at' = at /\ sib' = sib /\ med' = med /\ todo' = todo /\ slot' = slot
  BY DEF vars, disk, locals, Newest
<1>2. Silent
  BY <1>1 DEF Silent, Says, Torn
<1>3. Truth'
  BY <1>1, <1>2, SilentTruth
<1> QED BY <1>1, <1>2, <1>3 DEF Log, Ordering, Latest, Flags, TornHalf, LinkHalf, WayToAt, entry
-----------------------------------------------------------------------------
(* The descent. *)

(***************************************************************************)
(* A part of an ordered node is ordered.                                   *)
(***************************************************************************)
LEMMA PartOrdered ==
    ASSUME NEW file, NEW nd, NEW h, NEW off, Part(nd, h, off), NodeOrdered(file, nd),
           ~nd.leaf => /\ 1 <= Len(h.keys)
                       /\ \A i \in 1..(Len(h.keys) + 1) : h.children[i] = nd.children[off + i]
    PROVE  NodeOrdered(file, h)
<1>1. Sorted(h.keys)
  BY PartSorted
<1>2. /\ Len(nd.keys) \in Nat /\ Len(h.keys) \in Nat
      /\ off \in Nat /\ off + Len(h.keys) <= Len(nd.keys) /\ h.leaf = nd.leaf
      /\ \A i \in 1..Len(h.keys) : h.keys[i] = nd.keys[off + i]
  BY DEF Part
<1>3. ASSUME ~nd.leaf, NEW p \in 1..Len(h.keys), NEW q \in 1..Len(file[h.children[p + 1]].keys)
      PROVE  h.keys[p] < file[h.children[p + 1]].keys[q]
  <2>1. /\ off + p \in 1..Len(nd.keys) /\ p + 1 \in 1..(Len(h.keys) + 1)
        /\ off + (p + 1) = (off + p) + 1
    BY <1>2
  <2>2. h.keys[p] = nd.keys[off + p] /\ h.children[p + 1] = nd.children[(off + p) + 1]
    BY <1>2, <1>3, <2>1
  <2> QED BY <1>3, <2>1, <2>2 DEF NodeOrdered
<1> QED BY <1>1, <1>2, <1>3 DEF NodeOrdered

(***************************************************************************)
(* A part of a timely node is timely.                                      *)
(***************************************************************************)
LEMMA PartTimely ==
    ASSUME NEW past, NEW nd, NEW h, NEW off, Part(nd, h, off), Timely(past, nd)
    PROVE  Timely(past, h)
<1>1. /\ Len(nd.keys) \in Nat /\ Len(h.keys) \in Nat
      /\ off \in Nat /\ off + Len(h.keys) <= Len(nd.keys) /\ h.leaf = nd.leaf
      /\ \A i \in 1..Len(h.keys) : h.keys[i] = nd.keys[off + i]
  BY DEF Part
<1>2. \A p \in 1..Len(h.keys) : off + p \in 1..Len(nd.keys)
  BY <1>1
<1> QED BY <1>1, <1>2 DEF Timely

(***************************************************************************)
(* So the halves of a split are; and the median is below a key that has    *)
(* been given.                                                             *)
(***************************************************************************)
LEMMA SplitOrdered ==
    ASSUME NEW file, NEW past, NEW N, NEW nd, MaySplit(N, nd), NodeOrdered(file, nd), Timely(past, nd)
    PROVE  /\ NodeOrdered(file, SplitRight(nd)) /\ Timely(past, SplitRight(nd))
           /\ NodeOrdered(file, SplitLeft(nd)) /\ Timely(past, SplitLeft(nd))
           /\ Before(past, SplitMedian(nd))
<1> DEFINE r == SplitRight(nd)
           l == SplitLeft(nd)
<1>1. /\ N \in Nat /\ nd \in Node(N) /\ WellFormed(nd) /\ IsFull(nd) /\ Sorted(nd.keys)
  BY DEF MaySplit
<1>2. /\ nd.keys \in Seq(Key) /\ Len(nd.keys) \in Nat /\ nd.leaf \in BOOLEAN
      /\ \A p \in 1..Len(nd.keys) : nd.keys[p] \in Key
  BY <1>1, NodeFields
<1>3. /\ Part(nd, r, B) /\ Part(nd, l, 0) /\ B \in 1..(Len(nd.keys) - 1)
      /\ SplitMedian(nd) < nd.keys[B + 1]
  BY SplitParts
<1>4. /\ Len(r.keys) = Len(nd.keys) - B /\ 1 <= Len(r.keys)
      /\ ~nd.leaf => \A i \in 1..(Len(nd.keys) - B + 1) : r.children[i] = nd.children[B + i]
  <2>1. /\ Len(r.keys) = Len(nd.keys) - B
        /\ ~nd.leaf => \A i \in 1..(Len(nd.keys) - B + 1) : r.children[i] = nd.children[B + i]
    BY <1>1, SplitRightFacts
  <2> HIDE DEF r
  <2> QED BY <1>2, <1>3, <2>1
<1>5. ~nd.leaf => /\ Len(l.keys) = B - 1 /\ 1 <= B - 1
                  /\ \A i \in 1..B : l.children[i] = nd.children[i]
  <2>1. ~nd.leaf => /\ Len(l.keys) = B - 1
                    /\ \A i \in 1..B : l.children[i] = nd.children[i]
    BY <1>1, SplitLeftFacts
  <2> HIDE DEF l
  <2> QED BY <2>1, SplitPoint
<1> HIDE DEF r, l
<1>6. NodeOrdered(file, r)
  BY <1>3, <1>4, PartOrdered
<1>7. NodeOrdered(file, l)
  <2>1. \A i \in 1..B : 0 + i = i
    OBVIOUS
  <2>2. ~nd.leaf => Len(l.keys) + 1 = B
    BY <1>3, <1>5
  <2>3. ~nd.leaf => /\ 1 <= Len(l.keys)
                    /\ \A i \in 1..(Len(l.keys) + 1) : l.children[i] = nd.children[0 + i]
    BY <1>5, <2>1, <2>2
  <2> QED BY <1>3, <2>3, PartOrdered
<1>8. Timely(past, r) /\ Timely(past, l)
  BY <1>3, PartTimely
<1>9. Before(past, SplitMedian(nd))
  <2>1. B \in 1..Len(nd.keys) /\ B + 1 \in 1..Len(nd.keys)
    BY <1>2, <1>3
  <2>2. CASE nd.leaf
    <3>1. Said(past, nd.keys[B + 1]) /\ nd.keys[B + 1] \in Key
      BY <1>2, <2>1, <2>2 DEF Timely
    <3> QED BY <1>3, <3>1 DEF Before
  <2>3. CASE ~nd.leaf
    BY <2>1, <2>3 DEF Timely, SplitMedian
  <2> QED BY <1>2, <2>2, <2>3
<1> QED BY <1>6, <1>7, <1>8, <1>9 DEF r, l

(***************************************************************************)
(* The pair being inserted is a key and a value.                           *)
(***************************************************************************)
LEMMA EntryIsKey ==
    ASSUME Log, pc # "idle"
    PROVE  entry[1] \in Key /\ entry[1] \in Nat /\ entry[2] \in Value
<1>1. Writer /\ todo # <<>>
  BY DEF Log, Restored, Writer
<1>2. entry[1] \in Key /\ entry[2] \in Value
  BY <1>1, EntryTyped
<1> QED BY <1>2, KeyIsNumber

(***************************************************************************)
(* What is below a key given is below the key being inserted.              *)
(***************************************************************************)
LEMMA BeforeEntry ==
    ASSUME Log, pc # "idle", NEW k \in Key, Before(allowed, k)
    PROVE  k < entry[1]
<1>1. PICK j \in Key : Said(allowed, j) /\ k < j
  BY DEF Before
<1>2. j <= entry[1]
  BY <1>1 DEF Log, Latest
<1>3. k \in Nat /\ j \in Nat /\ entry[1] \in Nat
  BY EntryIsKey, KeyIsNumber
<1> HIDE DEF entry
<1> QED BY <1>1, <1>2, <1>3

(***************************************************************************)
(* In an internal node, the way of the key being inserted is the last      *)
(* child.                                                                  *)
(***************************************************************************)
LEMMA LastWay ==
    ASSUME Log, pc # "idle", NEW n \in 1..Newest, ~nodes[n].leaf
    PROVE  /\ \A i \in 1..Len(nodes[n].keys) : nodes[n].keys[i] < entry[1]
           /\ Positions(nodes[n].keys, entry[1]) = {Len(nodes[n].keys) + 1}
<1>1. /\ nodes[n].keys \in Seq(Key)
      /\ \A i \in 1..Len(nodes[n].keys) : nodes[n].keys[i] \in Key
  <2>1. Stored(nodes) /\ n \in 1..Len(nodes)
    BY RestoredFacts DEF Log
  <2> QED BY <2>1, StoredFacts
<1>2. Sorted(nodes[n].keys) /\ Timely(allowed, nodes[n])
  BY DEF Log, Ordering, NodeOrdered
<1>3. ASSUME NEW i \in 1..Len(nodes[n].keys) PROVE nodes[n].keys[i] < entry[1]
  <2>1. Before(allowed, nodes[n].keys[i]) /\ nodes[n].keys[i] \in Key
    BY <1>1, <1>2 DEF Timely
  <2> QED BY <2>1, BeforeEntry
<1>4. entry[1] \in Key
  BY EntryIsKey
<1> HIDE DEF entry
<1> QED BY <1>1, <1>2, <1>3, <1>4, LastPosition

(***************************************************************************)
(* If a search passes n and its way goes on from n to c only, it passes c; *)
(* and it does in any file that has the other nodes as they were.          *)
(***************************************************************************)
LEMMA PathGoesOn ==
    ASSUME NEW f, NEW g, NEW start, NEW n, NEW c, NEW key, OnPath(f, start, n, key),
           Len(f) \in Nat, Len(g) \in Nat, Len(f) <= Len(g), n \in 1..Len(f),
           \A m \in 1..Len(f) : m # n => /\ g[m].leaf = f[m].leaf /\ g[m].keys = f[m].keys
                                         /\ g[m].children = f[m].children,
           c = n \/ (~g[n].leaf /\ \A p \in Positions(g[n].keys, key) : g[n].children[p] = c)
    PROVE  OnPath(g, start, c, key)
<1> SUFFICES ASSUME NEW S \in SUBSET (1..Len(g)), c \in S,
                    \A m \in 1..Len(g) :
                       ~g[m].leaf /\ (\A p \in Positions(g[m].keys, key) : g[m].children[p] \in S)
                           => m \in S
             PROVE  start \in S
  BY DEF OnPath
<1>1. n \in 1..Len(g) /\ \A m \in 1..Len(f) : m \in 1..Len(g)
  OBVIOUS
<1>2. n \in S
  BY <1>1
<1> DEFINE T == S \cap (1..Len(f))
<1>3. T \in SUBSET (1..Len(f)) /\ n \in T
  BY <1>2
<1>4. ASSUME NEW m \in 1..Len(f), ~f[m].leaf,
             \A p \in Positions(f[m].keys, key) : f[m].children[p] \in T
      PROVE  m \in T
  <2>1. CASE m = n
    BY <1>3, <2>1
  <2>2. CASE m # n
    <3>1. ~g[m].leaf /\ \A p \in Positions(g[m].keys, key) : g[m].children[p] \in S
      BY <1>4, <2>2
    <3> QED BY <1>1, <3>1
  <2> QED BY <2>1, <2>2
<1>5. start \in T
  <2> HIDE DEF T
  <2> QED BY <1>3, <1>4 DEF OnPath
<1> QED BY <1>5

(***************************************************************************)
(* Descend keeps the invariant, silently.                                  *)
(***************************************************************************)
LEMMA LogDescend ==
    ASSUME Log, Restored', Descend
    PROVE  Log' /\ Silent
<1> DEFINE e == entry[1]
           p == Len(nodes[at].keys) + 1
           c == nodes[at].children[p]
<1>1. /\ pc = "descend" /\ ~nodes[at].leaf /\ rootOffset' = rootOffset /\ todo' = todo
      /\ sib' = sib /\ med' = med /\ allowed' = allowed
  BY DEF Descend
<1>2. /\ Stored(nodes) /\ Newest \in Nat /\ Newest = Len(nodes) /\ at \in 1..Newest
      /\ rootOffset \in 1..Newest
      /\ \A n \in 1..Newest : nodes[n] \in Node(Newest) /\ WellFormed(nodes[n])
  BY RestoredFacts DEF Log
<1>3. Positions(nodes[at].keys, e) = {p}
  BY <1>1, <1>2, LastWay
<1>4. /\ p = Len(nodes[at].children) /\ p \in 1..Len(nodes[at].children) /\ c \in 1..Newest
      /\ ~nodes[at].leaf
  <2>1. /\ Len(nodes[at].keys) \in Nat /\ Len(nodes[at].children) = Len(nodes[at].keys) + 1
        /\ \A i \in 1..Len(nodes[at].children) : nodes[at].children[i] \in 1..Newest
    BY <1>1, <1>2, StoredFacts
  <2> QED BY <1>1, <2>1
<1>5. OnPath(nodes, rootOffset, at, e)
  BY <1>1 DEF Log, WayToAt
<1>6. \/ ~IsFull(nodes[c]) /\ at' = c /\ nodes' = nodes /\ pc' = pc
      \/ IsFull(nodes[c]) /\ nodes' = Append(nodes, SplitRight(nodes[c])) /\ slot' = p
         /\ pc' = "link" /\ at' = at
  <2> HIDE DEF p, e
  <2>1. \E q \in {p} :
        LET child == nodes[nodes[at].children[q]] IN
        \/ /\ ~IsFull(child)
           /\ at' = nodes[at].children[q]
           /\ UNCHANGED <<nodes, pc, slot>>
        \/ /\ IsFull(child)
           /\ nodes' = Append(nodes, SplitRight(child))
           /\ slot' = q
           /\ pc' = "link"
           /\ UNCHANGED at
    BY <1>3 DEF Descend, e
  <2> QED BY <2>1
<1>7. entry' = entry
  BY <1>1 DEF entry
<1>8. Latest'
  BY <1>1, <1>7 DEF Log, Latest, Said
<1>9. CASE at' = c /\ nodes' = nodes /\ pc' = pc
  <2>1. Newest' = Newest
    BY <1>9 DEF Newest
  <2>2. Silent
    BY <1>1, <1>9 DEF Silent, Says, Torn
  <2>3. Truth'
    BY <1>1, <2>2, SilentTruth
  <2>4. OnPath(nodes, rootOffset, c, e)
    <3>1. \A q \in Positions(nodes[at].keys, e) : nodes[at].children[q] = c
      BY <1>3
    <3> HIDE DEF c, e
    <3>2. Len(nodes) \in Nat /\ Len(nodes) <= Len(nodes)
      BY <1>2
    <3> QED BY <1>1, <1>2, <1>5, <3>1, <3>2, PathGoesOn
  <2>5. WayToAt'
    BY <1>1, <1>7, <1>9, <2>4 DEF WayToAt
  <2>6. Ordering' /\ Flags'
    BY <1>1, <1>9, <2>1 DEF Log, Ordering, Flags
  <2> QED BY <1>1, <1>8, <1>9, <2>2, <2>3, <2>5, <2>6 DEF Log, TornHalf, LinkHalf
<1>10. CASE /\ IsFull(nodes[c]) /\ nodes' = Append(nodes, SplitRight(nodes[c])) /\ slot' = p
            /\ pc' = "link" /\ at' = at
  <2> DEFINE r == SplitRight(nodes[c])
             h == nodes[c]
  <2>1. /\ Kept(nodes, nodes') /\ Newest' = Newest + 1 /\ nodes'[Newest + 1] = r
        /\ \A m \in 1..Newest : nodes'[m] = nodes[m]
        /\ 1..(Newest + 1) = 1..Newest \cup {Newest + 1} /\ Newest + 1 \notin 1..Newest
    BY <1>10, Appending DEF Log
  <2>2. Silent /\ Truth'
    BY <1>1, <1>10, <2>1, KeptSilent DEF Torn
  <2>3. /\ h \in Node(Newest) /\ WellFormed(h) /\ IsFull(h) /\ NodeOrdered(nodes, h)
        /\ Timely(allowed, h)
    BY <1>2, <1>4, <1>10 DEF Log, Ordering
  <2>4. MaySplit(Newest, h)
    BY <1>2, <2>3 DEF MaySplit, NodeOrdered
  <2>5. /\ r \in Node(Newest) /\ WellFormed(r) /\ r.isRoot = FALSE
        /\ NodeOrdered(nodes, r) /\ Timely(allowed, r)
    <3> HIDE DEF h, c
    <3>1. /\ SplitRight(h) \in Node(Newest) /\ WellFormed(SplitRight(h)) /\ SplitRight(h).isRoot = FALSE
      BY <1>2, <2>3, SplitRightFacts
    <3>2. NodeOrdered(nodes, SplitRight(h)) /\ Timely(allowed, SplitRight(h))
      BY <2>3, <2>4, SplitOrdered
    <3> QED BY <3>1, <3>2 DEF h
  <2> HIDE DEF r
  <2>6. NodeOrdered(nodes', r)
    <3>1. SameContent(r, r)
      BY DEF SameContent
    <3> QED BY <1>2, <2>1, <2>5, <3>1, KeptOrdered
  <2>7. Ordering'
    BY <1>1, <2>1, <2>5, <2>6, KeptRest DEF Ordering
  <2>8. Flags'
    BY <1>1, <2>1, <2>5 DEF Log, Flags
  <2>9. LinkHalf'
    <3>1. nodes'[at] = nodes[at] /\ nodes'[c] = nodes[c]
      BY <1>2, <1>4, <2>1
    <3>2. slot' = Len(nodes'[at'].children) /\ nodes'[at'].children[slot'] = c
      BY <1>4, <1>10, <3>1
    <3>3. nodes'[Newest'] = SplitRight(nodes'[c])
      BY <2>1, <3>1 DEF r
    <3> QED BY <3>2, <3>3 DEF LinkHalf
  <2>10. WayToAt'
    <3>1. Len(nodes) <= Len(nodes') /\ Len(nodes') \in Nat
      BY <1>2, <2>1 DEF Newest
    <3>2. OnPath(nodes', rootOffset, at, e)
      <4> HIDE DEF e
      <4> QED BY <1>2, <1>5, <2>1, <3>1, PathGoesOn
    <3> QED BY <1>1, <1>7, <1>10, <3>2 DEF WayToAt
  <2> QED BY <1>8, <1>10, <2>2, <2>7, <2>8, <2>9, <2>10 DEF Log, TornHalf
<1> QED BY <1>6, <1>9, <1>10
-----------------------------------------------------------------------------
(* The link of a sibling. *)

(***************************************************************************)
(* The child after the last separator.                                     *)
(***************************************************************************)
LastChild(nd) == nd.children[Len(nd.keys) + 1]

(***************************************************************************)
(* The step of LinkSibling: node q gets, after the separators it has, the  *)
(* median of its last child, and the child's sibling at its right.         *)
(***************************************************************************)
Widens(f, g, lev, q) ==
    /\ Stored(f) /\ Stored(g) /\ Leveled(f, lev) /\ Len(g) = Len(f)
    /\ \A n \in 1..Len(f) : NodeOrdered(f, f[n])
    /\ q \in 1..Len(f) /\ ~f[q].leaf /\ ~g[q].leaf
    /\ \A m \in 1..Len(f) : m # q => g[m] = f[m]
    /\ IsFull(f[LastChild(f[q])]) /\ f[Len(f)] = SplitRight(f[LastChild(f[q])])
    /\ lev[Len(f)] + 1 = lev[q]
    /\ Len(g[q].keys) = Len(f[q].keys) + 1
    /\ g[q].keys[Len(f[q].keys) + 1] = SplitMedian(f[LastChild(f[q])])
    /\ \A i \in 1..Len(f[q].keys) : g[q].keys[i] = f[q].keys[i]
    /\ \A i \in 1..(Len(f[q].keys) + 1) : g[q].children[i] = f[q].children[i]
    /\ g[q].children[Len(f[q].keys) + 2] = Len(f)

(***************************************************************************)
(* The separators q has are below the new one.                             *)
(***************************************************************************)
LEMMA WidensFacts ==
    ASSUME NEW f, NEW g, NEW lev, NEW q, Widens(f, g, lev, q)
    PROVE  LET L == Len(f[q].keys)
               c == LastChild(f[q])
               N == Len(f)
               sep == SplitMedian(f[c])
           IN /\ L \in Nat /\ 1 <= L /\ N \in Nat /\ N \in 1..N /\ N # q
              /\ f[q].keys \in Seq(Key) /\ g[q].keys \in Seq(Key)
              /\ c \in 1..N /\ c # q /\ MaySplit(N, f[c])
              /\ \A i \in 1..(L + 1) : /\ f[q].children[i] \in 1..N /\ f[q].children[i] # q
                                       /\ lev[f[q].children[i]] < lev[q]
              /\ sep \in Nat /\ \A i \in 1..L : f[q].keys[i] \in Nat /\ f[q].keys[i] < sep
              /\ Sorted(f[q].keys) /\ Sorted(g[q].keys)
<1> DEFINE L == Len(f[q].keys)
           c == LastChild(f[q])
           N == Len(f)
           h == f[c]
           sep == SplitMedian(h)
<1>1. /\ Stored(f) /\ Stored(g) /\ Leveled(f, lev) /\ Len(g) = N /\ q \in 1..N /\ ~f[q].leaf /\ ~g[q].leaf
      /\ \A n \in 1..N : NodeOrdered(f, f[n])
      /\ IsFull(h) /\ lev[N] + 1 = lev[q]
      /\ Len(g[q].keys) = L + 1 /\ g[q].keys[L + 1] = sep
      /\ \A i \in 1..L : g[q].keys[i] = f[q].keys[i]
  BY DEF Widens
<1>2. /\ N \in Nat /\ L \in Nat /\ f[q].keys \in Seq(Key) /\ g[q].keys \in Seq(Key)
      /\ Len(f[q].children) = L + 1
      /\ \A i \in 1..L : f[q].keys[i] \in Key
  BY <1>1, StoredFacts
<1>3. \A i \in 1..(L + 1) : /\ f[q].children[i] \in 1..N /\ f[q].children[i] # q
                            /\ lev[f[q].children[i]] < lev[q]
  <2> TAKE i \in 1..(L + 1)
  <2>1. /\ f[q].children[i] \in 1..N /\ lev[f[q].children[i]] < lev[q]
        /\ lev[f[q].children[i]] \in Nat /\ lev[q] \in Nat
    BY <1>1, WayDown
  <2> HIDE DEF L, N
  <2> QED BY <2>1
<1>4. c \in 1..N /\ c # q
  <2>1. L + 1 \in 1..(L + 1)
    BY <1>2
  <2> QED BY <1>3, <2>1 DEF LastChild
<1>5. N \in 1..N /\ N # q
  <2>1. N \in 1..N
    <3> HIDE DEF L, c, h, sep
    <3> QED BY <1>1, <1>2
  <2>2. lev[N] \in Nat /\ lev[q] \in Nat
    BY <1>1, <2>1, LevelFacts
  <2> HIDE DEF N
  <2> QED BY <1>1, <2>1, <2>2
<1>6. MaySplit(N, h)
  <2>1. h \in Node(N) /\ WellFormed(h)
    BY <1>1, <1>4, StoredFacts
  <2>2. Sorted(h.keys)
    BY <1>1, <1>4 DEF NodeOrdered
  <2> QED BY <1>1, <1>2, <2>1, <2>2 DEF MaySplit
<1>7. sep \in Key /\ B \in 1..Len(h.keys)
  BY <1>6, MedianIsKey DEF MaySplit
<1>8. Sorted(f[q].keys) /\ 1 <= L
      /\ \A p \in 1..L : \A j \in 1..Len(f[f[q].children[p + 1]].keys) :
            f[q].keys[p] < f[f[q].children[p + 1]].keys[j]
  BY <1>1 DEF NodeOrdered
<1>9. sep \in Nat /\ \A i \in 1..L : f[q].keys[i] \in Nat
  BY <1>2, <1>7, KeyIsNumber
<1>10. f[q].keys[L] < sep
  <2>1. L \in 1..L
    BY <1>2, <1>8
  <2>2. f[f[q].children[L + 1]] = h /\ sep = h.keys[B]
    BY DEF SplitMedian, LastChild
  <2> HIDE DEF h, sep, L, c
  <2> QED BY <1>7, <1>8, <2>1, <2>2
<1>11. \A i \in 1..L : f[q].keys[i] < sep
  <2> TAKE i \in 1..L
  <2>1. L \in 1..L
    BY <1>2, <1>8
  <2>2. i = L \/ f[q].keys[i] < f[q].keys[L]
    <3>1. i = L \/ i < L
      BY <1>2
    <3> QED BY <1>8, <2>1, <3>1 DEF Sorted
  <2>3. f[q].keys[i] \in Nat /\ f[q].keys[L] \in Nat
    BY <1>9, <2>1
  <2> HIDE DEF sep, L
  <2> QED BY <1>9, <1>10, <2>2, <2>3
<1>12. Sorted(g[q].keys)
  <2> SUFFICES ASSUME NEW i \in 1..(L + 1), NEW j \in 1..(L + 1), i < j
               PROVE  g[q].keys[i] < g[q].keys[j]
    BY <1>1 DEF Sorted
  <2>1. i \in 1..L /\ (j \in 1..L \/ j = L + 1)
    BY <1>2
  <2>2. CASE j \in 1..L
    BY <1>1, <1>8, <2>1, <2>2 DEF Sorted
  <2>3. CASE j = L + 1
    BY <1>1, <1>11, <2>1, <2>3
  <2> QED BY <2>1, <2>2, <2>3
<1> QED BY <1>2, <1>3, <1>4, <1>5, <1>6, <1>8, <1>9, <1>11, <1>12

(***************************************************************************)
(* Every node is ordered still: also the one above q, since the new        *)
(* separator is above the old ones of q.                                   *)
(***************************************************************************)
LEMMA WidenedOrdered ==
    ASSUME NEW f, NEW g, NEW lev, NEW q, Widens(f, g, lev, q)
    PROVE  \A n \in 1..Len(f) : NodeOrdered(g, g[n])
<1> DEFINE L == Len(f[q].keys)
           c == LastChild(f[q])
           N == Len(f)
           sep == SplitMedian(f[c])
<1>1. /\ L \in Nat /\ 1 <= L /\ N \in Nat /\ N \in 1..N /\ N # q
      /\ MaySplit(N, f[c])
      /\ \A i \in 1..(L + 1) : f[q].children[i] \in 1..N /\ f[q].children[i] # q
      /\ sep \in Nat /\ \A i \in 1..L : f[q].keys[i] \in Nat /\ f[q].keys[i] < sep
      /\ Sorted(g[q].keys)
  BY WidensFacts
<1>2. /\ q \in 1..N /\ Stored(f) /\ \A n \in 1..N : NodeOrdered(f, f[n])
      /\ ~f[q].leaf
      /\ \A m \in 1..N : m # q => g[m] = f[m]
      /\ f[N] = SplitRight(f[c])
      /\ Len(g[q].keys) = L + 1 /\ g[q].keys[L + 1] = sep
      /\ \A i \in 1..L : g[q].keys[i] = f[q].keys[i]
      /\ \A i \in 1..(L + 1) : g[q].children[i] = f[q].children[i]
      /\ g[q].children[L + 2] = N
  BY DEF Widens
<1>3. \A i \in 1..Len(f[N].keys) : sep < f[N].keys[i]
  BY <1>1, <1>2, SplitParts
<1> HIDE DEF L, N, c, sep
<1>4. NodeOrdered(g, g[q])
  <2>1. ASSUME NEW p \in 1..(L + 1), NEW j \in 1..Len(g[g[q].children[p + 1]].keys)
        PROVE  g[q].keys[p] < g[g[q].children[p + 1]].keys[j]
    <3>1. CASE p \in 1..L
      <4>1. p + 1 \in 1..(L + 1)
        BY <1>1, <3>1
      <4>2. g[g[q].children[p + 1]] = f[f[q].children[p + 1]] /\ g[q].keys[p] = f[q].keys[p]
        BY <1>1, <1>2, <3>1, <4>1
      <4>3. NodeOrdered(f, f[q])
        BY <1>1, <1>2
      <4> QED BY <1>2, <2>1, <3>1, <4>2, <4>3 DEF NodeOrdered, L
    <3>2. CASE p = L + 1
      <4>1. p + 1 = L + 2 /\ g[q].children[p + 1] = N /\ g[N] = f[N] /\ g[q].keys[p] = sep
        BY <1>1, <1>2, <3>2
      <4> QED BY <1>3, <2>1, <4>1
    <3> QED BY <1>1, <2>1, <3>1, <3>2
  <2>2. 1 <= Len(g[q].keys)
    BY <1>1, <1>2
  <2> QED BY <1>1, <1>2, <2>1, <2>2 DEF NodeOrdered
<1>5. ASSUME NEW n \in 1..N, n # q PROVE NodeOrdered(g, g[n])
  <2>1. NodeOrdered(f, f[n]) /\ g[n] = f[n]
    BY <1>2, <1>5
  <2>2. ASSUME ~f[n].leaf, NEW p \in 1..Len(f[n].keys), NEW j \in 1..Len(g[f[n].children[p + 1]].keys)
        PROVE  f[n].keys[p] < g[f[n].children[p + 1]].keys[j]
    <3> DEFINE d == f[n].children[p + 1]
    <3>1. \A i \in 1..Len(f[d].keys) : f[n].keys[p] < f[d].keys[i]
      BY <2>1, <2>2 DEF NodeOrdered
    <3>2. d \in 1..N /\ f[n].keys[p] \in Nat
      <4>1. /\ Len(f[n].keys) \in Nat /\ Len(f[n].children) = Len(f[n].keys) + 1
            /\ \A i \in 1..Len(f[n].children) : f[n].children[i] \in 1..N
            /\ f[n].keys[p] \in Key
        BY <1>2, <2>2, StoredFacts DEF N
      <4>2. p + 1 \in 1..Len(f[n].children)
        BY <4>1
      <4> QED BY <4>1, <4>2, KeyIsNumber
    <3>3. CASE d # q
      <4>1. g[d] = f[d]
        BY <1>2, <3>2, <3>3
      <4> QED BY <2>2, <3>1, <4>1
    <3>4. CASE d = q
      <4>1. j \in 1..L \/ j = L + 1
        BY <1>1, <1>2, <2>2, <3>4
      <4>2. CASE j \in 1..L
        BY <1>2, <3>1, <3>4, <4>2 DEF L
      <4>3. CASE j = L + 1
        <5>1. 1 \in 1..L
          BY <1>1
        <5>2. f[n].keys[p] < f[q].keys[1] /\ f[q].keys[1] < sep /\ f[q].keys[1] \in Nat
          BY <1>1, <3>1, <3>4, <5>1 DEF L
        <5>3. f[n].keys[p] < sep
          <6> DEFINE a == f[n].keys[p]
                     b == f[q].keys[1]
          <6>1. a \in Nat /\ b \in Nat /\ a < b /\ b < sep
            BY <3>2, <5>2
          <6>2. sep \in Nat
            BY <1>1
          <6> HIDE DEF a, b
          <6>3. a < sep
            BY <6>1, <6>2
          <6> QED BY <6>3 DEF a
        <5> QED BY <1>2, <3>4, <4>3, <5>3
      <4> QED BY <4>1, <4>2, <4>3
    <3> QED BY <3>3, <3>4
  <2> QED BY <2>1, <2>2 DEF NodeOrdered
<1> QED BY <1>4, <1>5 DEF N

(***************************************************************************)
(* A search from q finds the same: the sibling answers for the keys above  *)
(* the median, for which the child did.                                    *)
(***************************************************************************)
LEMMA WidenedNode ==
    ASSUME NEW f, NEW g, NEW lev, NEW q, Widens(f, g, lev, q), NEW k \in Key,
           AgreeBelow(f, g, lev, k, q)
    PROVE  Answers(g, q, k) = Answers(f, q, k)
<1> DEFINE L == Len(f[q].keys)
           c == LastChild(f[q])
           N == Len(f)
           sep == SplitMedian(f[c])
<1>1. /\ L \in Nat /\ 1 <= L /\ N \in Nat /\ N \in 1..N /\ N # q
      /\ f[q].keys \in Seq(Key) /\ g[q].keys \in Seq(Key)
      /\ c \in 1..N /\ c # q /\ MaySplit(N, f[c])
      /\ \A i \in 1..(L + 1) : /\ f[q].children[i] \in 1..N /\ lev[f[q].children[i]] < lev[q]
      /\ sep \in Nat /\ \A i \in 1..L : f[q].keys[i] \in Nat /\ f[q].keys[i] < sep
      /\ Sorted(f[q].keys) /\ Sorted(g[q].keys)
  BY WidensFacts
<1>2. /\ Stored(f) /\ Stored(g) /\ Len(g) = N /\ q \in 1..N
      /\ ~f[q].leaf /\ ~g[q].leaf
      /\ \A m \in 1..N : m # q => g[m] = f[m]
      /\ f[N] = SplitRight(f[c])
      /\ Len(g[q].keys) = L + 1 /\ g[q].keys[L + 1] = sep
      /\ \A i \in 1..L : g[q].keys[i] = f[q].keys[i]
      /\ \A i \in 1..(L + 1) : g[q].children[i] = f[q].children[i]
      /\ g[q].children[L + 2] = N
  BY DEF Widens
<1>3. f[q].children[L + 1] = c
  BY DEF LastChild
<1>4. \A i \in 1..(L + 1) : Answers(g, f[q].children[i], k) = Answers(f, f[q].children[i], k)
  BY <1>1 DEF AgreeBelow
<1>5. k \in Nat
  BY KeyIsNumber
<1>6. /\ Answers(f, q, k) = UNION {Answers(f, f[q].children[p], k) : p \in Positions(f[q].keys, k)}
      /\ Answers(g, q, k) = UNION {Answers(g, g[q].children[p], k) : p \in Positions(g[q].keys, k)}
  BY <1>2, AnswersStep
<1>7. PICK p \in 1..(L + 1) :
        /\ Positions(f[q].keys, k) = {p}
        /\ p = 1 \/ f[q].keys[p - 1] < k
        /\ p = L + 1 \/ k <= f[q].keys[p]
  BY <1>1, ThePosition
<1>8. ASSUME NEW i \in 1..(L + 1), Positions(g[q].keys, k) = {i}, i = p
      PROVE  Answers(g, q, k) = Answers(f, q, k)
  BY <1>2, <1>4, <1>6, <1>7, <1>8
<1> HIDE DEF L, N, c, sep
<1>9. p = 1 \/ (p - 1 \in 1..L /\ g[q].keys[p - 1] < k)
  <2>1. p = 1 \/ p - 1 \in 1..L
    BY <1>1
  <2> QED BY <1>2, <1>7, <2>1
<1>10. ASSUME NEW i \in 1..(L + 2), i = 1 \/ g[q].keys[i - 1] < k, i = L + 2 \/ k <= g[q].keys[i]
       PROVE  Positions(g[q].keys, k) = {i}
  <2>1. Len(g[q].keys) + 1 = L + 2
    BY <1>1, <1>2
  <2> QED BY <1>1, <1>10, <2>1, PositionIs
<1>11. CASE p # L + 1
  <2>1. p \in 1..L /\ p \in 1..(L + 2)
    BY <1>1, <1>11
  <2>2. k <= g[q].keys[p]
    BY <1>2, <1>7, <1>11, <2>1
  <2>3. Positions(g[q].keys, k) = {p}
    BY <1>9, <1>10, <2>1, <2>2
  <2> QED BY <1>8, <2>3
<1>12. CASE p = L + 1 /\ ~(sep < k)
  <2>1. p \in 1..(L + 2) /\ k <= g[q].keys[p]
    BY <1>1, <1>2, <1>5, <1>12
  <2>2. Positions(g[q].keys, k) = {p}
    BY <1>9, <1>10, <2>1
  <2> QED BY <1>8, <2>2
<1>13. CASE p = L + 1 /\ sep < k
  <2>1. L + 2 \in 1..(L + 2) /\ (L + 2) - 1 = L + 1
    BY <1>1
  <2>2. g[q].keys[(L + 2) - 1] < k
    BY <1>2, <1>13, <2>1
  <2>3. Positions(g[q].keys, k) = {L + 2}
    BY <1>10, <2>1, <2>2
  <2>4. Answers(g, q, k) = Answers(g, N, k)
    BY <1>2, <1>6, <2>3
  <2>5. Answers(f, q, k) = Answers(f, c, k)
    BY <1>3, <1>6, <1>7, <1>13
  <2>6. Answers(g, c, k) = Answers(f, c, k)
    BY <1>1, <1>3, <1>4, <1>7, <1>13
  <2>7. g[N] = SplitRight(f[c]) /\ g[c] = f[c]
    BY <1>1, <1>2
  <2>8. /\ Answers(g, N, k) = NodeAnswers(g, SplitRight(f[c]), k)
        /\ Answers(g, c, k) = NodeAnswers(g, f[c], k)
    <3>1. N \in 1..Len(g) /\ c \in 1..Len(g) /\ Stored(g)
      BY <1>1, <1>2
    <3>2. Answers(g, N, k) = NodeAnswers(g, g[N], k)
      BY <3>1, NodeAnswersIn
    <3>3. Answers(g, c, k) = NodeAnswers(g, g[c], k)
      BY <3>1, NodeAnswersIn
    <3> QED BY <2>7, <3>2, <3>3
  <2>9. NodeAnswers(g, SplitRight(f[c]), k) = NodeAnswers(g, f[c], k)
    <3>1. SplitMedian(f[c]) < k
      BY <1>13 DEF sep
    <3>2. MaySplit(N, f[c])
      BY <1>1
    <3> QED BY <3>1, <3>2, SplitAnswers
  <2> QED BY <2>4, <2>5, <2>6, <2>8, <2>9
<1> QED BY <1>11, <1>12, <1>13

(***************************************************************************)
(* ... and so does one from any node.                                      *)
(***************************************************************************)
LEMMA WidenedAnswers ==
    ASSUME NEW f, NEW g, NEW lev, NEW q, Widens(f, g, lev, q), NEW k \in Key
    PROVE  \A n \in 1..Len(f) : Answers(g, n, k) = Answers(f, n, k)
<1>1. /\ Stored(f) /\ Stored(g) /\ Leveled(f, lev) /\ Len(g) = Len(f)
      /\ \A m \in 1..Len(f) : m # q => g[m] = f[m]
  BY DEF Widens
<1>2. Len(f) \in Nat
  BY <1>1, StoredFacts
<1>3. ASSUME NEW n \in 1..Len(f)
      PROVE  \/ SameContent(f[n], g[n])
             \/ AgreeBelow(f, g, lev, k, n) => Answers(g, n, k) = Answers(f, n, k)
  <2>1. CASE n # q
    BY <1>1, <2>1 DEF SameContent
  <2>2. CASE n = q
    BY <2>2, WidenedNode
  <2> QED BY <2>1, <2>2
<1>4. MayAgree(f, g, lev, k, 1..Len(f))
  BY <1>1, <1>2, <1>3 DEF MayAgree
<1> QED BY <1>4, AnswersAgree

(***************************************************************************)
(* LinkSibling keeps the invariant, silently: the key being inserted is    *)
(* above the median, so the writer goes on with the sibling.               *)
(***************************************************************************)
LEMMA LogLinkSibling ==
    ASSUME Log, Restored', LinkSibling
    PROVE  Log' /\ Silent
<1> DEFINE N == Newest
           e == entry[1]
           L == Len(nodes[at].keys)
           c == nodes[at].children[slot]
           sep == SplitMedian(nodes[c])
           nd == LinkAt(nodes[at], slot, sep, N)
<1>0. PICK lev : Shape(lev)
  BY DEF Log, Restored
<1>1. /\ pc = "link" /\ pc' = "descend" /\ rootOffset' = rootOffset /\ todo' = todo
      /\ sib' = sib /\ med' = med /\ allowed' = allowed
      /\ nodes' = [nodes EXCEPT ![at] = nd] /\ at' = IF e < sep THEN c ELSE N
  BY DEF LinkSibling, Newest
<1>2. /\ Stored(nodes) /\ Leveled(nodes, lev) /\ rootOffset \in 1..N /\ at \in 1..N
      /\ N = Len(nodes) /\ N \in Nat
      /\ slot \in 1..Len(nodes[at].children) /\ IsFull(nodes[c]) /\ lev[N] + 1 = lev[at]
  BY <1>0, <1>1, RestoredFacts DEF Shape, Fits, Log
<1>3. /\ slot = Len(nodes[at].children) /\ nodes[N] = SplitRight(nodes[c])
  BY <1>1 DEF Log, LinkHalf
<1>4. N \in 1..N
  BY <1>2
<1>5. lev[N] \in Nat /\ lev[at] \in Nat /\ ~nodes[at].leaf
  BY <1>2, <1>4, LevelFacts
<1>6. /\ L \in Nat /\ slot = L + 1 /\ slot \in 1..(L + 1)
      /\ \A i \in 1..Len(nodes[at].children) : nodes[at].children[i] \in 1..N
  BY <1>2, <1>3, <1>5, StoredFacts
<1>7. c \in 1..N
  BY <1>2, <1>6
<1>8. /\ \A n \in 1..N : NodeOrdered(nodes, nodes[n]) /\ Timely(allowed, nodes[n])
      /\ \A n \in 1..N : nodes[n] \in Node(N) /\ WellFormed(nodes[n])
  BY RestoredFacts DEF Log, Ordering
<1>9. MaySplit(N, nodes[c])
  BY <1>2, <1>7, <1>8 DEF MaySplit, NodeOrdered
<1>10. sep \in Key /\ Before(allowed, sep)
  <2> DEFINE h == nodes[c]
  <2>1. NodeOrdered(nodes, h) /\ Timely(allowed, h) /\ MaySplit(N, h)
    BY <1>7, <1>8, <1>9
  <2> HIDE DEF h, N
  <2>2. SplitMedian(h) \in Key
    BY <2>1, MedianIsKey DEF MaySplit
  <2>3. Before(allowed, SplitMedian(h))
    BY <2>1, SplitOrdered
  <2> QED BY <2>2, <2>3 DEF h
<1>11. nd = LinkAt(nodes[at], slot, sep, N)
  OBVIOUS
<1>12. sep < e
  BY <1>1, <1>10, BeforeEntry
<1>13. at' = N
  <2>1. sep \in Nat /\ e \in Nat
    BY <1>1, <1>10, EntryIsKey, KeyIsNumber
  <2> HIDE DEF sep, e
  <2> QED BY <1>1, <1>12, <2>1
<1>14. LastChild(nodes[at]) = c
  BY <1>6 DEF LastChild
<1>15. sep = SplitMedian(nodes[LastChild(nodes[at])])
  BY <1>14
<1> HIDE DEF c, sep, nd, L
<1>16. HasHung(lev, at, slot, sep, nd, nodes')
  <2>1. MayHang(lev, at, slot, sep, nd, nodes')
    BY <1>1, <1>2, <1>4, <1>5, <1>10, <1>11 DEF MayHang
  <2> QED BY <2>1, Hung
<1>17. /\ HasLinked(N, nodes[at], slot, sep, N, nd)
       /\ Stored(nodes') /\ Len(nodes') = N /\ nodes'[at] = nd
       /\ \A m \in 1..N : m # at => nodes'[m] = nodes[m]
       /\ \A m \in 1..N : nodes'[m].isRoot = nodes[m].isRoot
  BY <1>16 DEF HasHung
<1>18. /\ nd.leaf = FALSE /\ Len(nd.keys) = L + 1 /\ nd.keys[L + 1] = sep
       /\ \A i \in 1..L : nd.keys[i] = nodes[at].keys[i]
       /\ \A i \in 1..(L + 1) : nd.children[i] = nodes[at].children[i]
       /\ nd.children[L + 2] = N
  <2>1. /\ nd.leaf = FALSE /\ Len(nd.keys) = L + 1 /\ nd.keys[slot] = sep
        /\ \A i \in 1..(slot - 1) : nd.keys[i] = nodes[at].keys[i]
        /\ \A i \in 1..slot : nd.children[i] = nodes[at].children[i]
        /\ nd.children[slot + 1] = N
    BY <1>17 DEF HasLinked, L
  <2>2. slot - 1 = L /\ slot + 1 = L + 2
    BY <1>6
  <2> QED BY <1>6, <2>1, <2>2
<1>19. Widens(nodes, nodes', lev, at)
  <2>1. /\ Stored(nodes) /\ Stored(nodes') /\ Leveled(nodes, lev) /\ Len(nodes') = Len(nodes)
        /\ at \in 1..Len(nodes) /\ ~nodes[at].leaf /\ ~nodes'[at].leaf
        /\ \A m \in 1..Len(nodes) : m # at => nodes'[m] = nodes[m]
        /\ lev[Len(nodes)] + 1 = lev[at]
        /\ IsFull(nodes[c]) /\ nodes[Len(nodes)] = SplitRight(nodes[c])
    BY <1>2, <1>3, <1>5, <1>17, <1>18
  <2>2. \A n \in 1..Len(nodes) : NodeOrdered(nodes, nodes[n])
    BY <1>2, <1>8
  <2>3. /\ Len(nodes'[at].keys) = Len(nodes[at].keys) + 1
        /\ nodes'[at].keys[Len(nodes[at].keys) + 1] = SplitMedian(nodes[LastChild(nodes[at])])
        /\ \A i \in 1..Len(nodes[at].keys) : nodes'[at].keys[i] = nodes[at].keys[i]
        /\ \A i \in 1..(Len(nodes[at].keys) + 1) : nodes'[at].children[i] = nodes[at].children[i]
        /\ nodes'[at].children[Len(nodes[at].keys) + 2] = Len(nodes)
    BY <1>2, <1>15, <1>17, <1>18 DEF L
  <2> QED BY <1>14, <2>1, <2>2, <2>3 DEF Widens
<1>20. Newest' = N
  BY <1>17 DEF Newest
<1>21. Silent
  <2>1. \A k \in Key : Answers(nodes', rootOffset, k) = Answers(nodes, rootOffset, k)
    BY <1>2, <1>19, WidenedAnswers
  <2> QED BY <1>1, <2>1 DEF Silent, Says, Torn
<1>22. Truth'
  BY <1>1, <1>21, SilentTruth
<1>23. Ordering'
  <2>1. ASSUME NEW n \in 1..N PROVE Timely(allowed', nodes'[n])
    <3>1. CASE n # at
      BY <1>1, <1>8, <1>17, <3>1
    <3>2. CASE n = at
      <4>1. \A i \in 1..(L + 1) : i \in 1..L \/ i = L + 1
        BY <1>6
      <4>2. \A i \in 1..L : Before(allowed, nodes[at].keys[i])
        BY <1>2, <1>5, <1>8 DEF Timely, L
      <4> QED BY <1>1, <1>10, <1>17, <1>18, <3>2, <4>1, <4>2 DEF Timely
    <3> QED BY <3>1, <3>2
  <2>2. \A n \in 1..N : NodeOrdered(nodes', nodes'[n])
    BY <1>2, <1>19, WidenedOrdered
  <2> QED BY <1>20, <2>1, <2>2 DEF Ordering
<1>24. Latest'
  BY <1>1 DEF Log, Latest, entry, Said
<1>25. Flags'
  BY <1>1, <1>17, <1>20 DEF Log, Flags
<1>26. WayToAt'
  <2>1. OnPath(nodes, rootOffset, at, e)
    BY <1>1 DEF Log, WayToAt
  <2>2. \A p \in Positions(nd.keys, e) : nd.children[p] = N
    <3>1. Sorted(nd.keys) /\ nd.keys \in Seq(Key)
      <4>1. Sorted(nd.keys)
        BY <1>17, <1>23, <1>20, <1>2 DEF Ordering, NodeOrdered
      <4>2. nd.keys \in Seq(Key)
        BY <1>2, <1>17, StoredFacts
      <4> QED BY <4>1, <4>2
    <3>2. \A i \in 1..Len(nodes[at].keys) : nodes[at].keys[i] < e
      BY <1>1, <1>2, <1>5, LastWay
    <3>3. \A i \in 1..Len(nd.keys) : nd.keys[i] < e
      <4>1. \A i \in 1..(L + 1) : i \in 1..L \/ i = L + 1
        BY <1>6
      <4> QED BY <1>12, <1>18, <3>2, <4>1 DEF L
    <3>4. e \in Key
      BY <1>1, EntryIsKey
    <3> HIDE DEF e
    <3>5. Positions(nd.keys, e) = {Len(nd.keys) + 1}
      BY <3>1, <3>3, <3>4, LastPosition
    <3>6. Len(nd.keys) + 1 = L + 2
      BY <1>6, <1>18
    <3> QED BY <1>18, <3>5, <3>6
  <2>3. OnPath(nodes', rootOffset, N, e)
    <3>1. Len(nodes) \in Nat /\ Len(nodes') \in Nat /\ Len(nodes) <= Len(nodes')
      BY <1>2, <1>17
    <3>2. \A m \in 1..Len(nodes) : m # at => /\ nodes'[m].leaf = nodes[m].leaf
                                             /\ nodes'[m].keys = nodes[m].keys
                                             /\ nodes'[m].children = nodes[m].children
      BY <1>2, <1>17
    <3>3. ~nodes'[at].leaf /\ \A p \in Positions(nodes'[at].keys, e) : nodes'[at].children[p] = N
      BY <1>17, <1>18, <2>2
    <3> HIDE DEF e, N
    <3> QED BY <1>2, <2>1, <3>1, <3>2, <3>3, PathGoesOn
  <2>4. e = entry'[1]
    BY <1>1 DEF entry
  <2> QED BY <1>1, <1>13, <2>3, <2>4 DEF WayToAt
<1> QED BY <1>1, <1>21, <1>22, <1>23, <1>24, <1>25, <1>26 DEF Log, TornHalf, LinkHalf
-----------------------------------------------------------------------------
(* The store of the leaf. *)

(***************************************************************************)
(* n is leaf nd with v for k, and otherwise answers as nd does.            *)
(***************************************************************************)
LeafHas(nd, n, k, v) ==
    /\ n.leaf = TRUE /\ n.keys \in Seq(Key) /\ Sorted(n.keys) /\ n.isRoot = nd.isRoot
    /\ LeafAnswers(n, k) = {v}
    /\ \A j \in Key : j # k => LeafAnswers(n, j) = LeafAnswers(nd, j)
    /\ \A i \in 1..Len(n.keys) : n.keys[i] = k \/ \E h \in 1..Len(nd.keys) : n.keys[i] = nd.keys[h]

(***************************************************************************)
(* A leaf overwritten at its key is.                                       *)
(***************************************************************************)
LEMMA OverwrittenHas ==
    ASSUME NEW N \in Nat, NEW nd \in Node(N), WellFormed(nd), Sorted(nd.keys), NEW p \in 1..Len(nd.keys),
           NEW k \in Key, nd.keys[p] = k, NEW v, NEW n, HasOverwritten(N, nd, p, v, n)
    PROVE  LeafHas(nd, n, k, v)
<1>1. nd.keys \in Seq(Key)
  BY NodeFields
<1>2. /\ n.leaf = TRUE /\ n.isRoot = nd.isRoot /\ n.keys = nd.keys
      /\ \A i \in 1..Len(nd.keys) : n.values[i] = IF i = p THEN v ELSE nd.values[i]
  BY DEF HasOverwritten
<1>3. LeafAnswers(n, k) = {v}
  <2>1. n.keys \in Seq(Key) /\ Sorted(n.keys) /\ n.keys[p] = k /\ p \in 1..Len(n.keys)
    BY <1>1, <1>2
  <2>2. LeafAnswers(n, k) = {n.values[p]}
    BY <2>1, LeafAnswer
  <2> QED BY <1>2, <2>2
<1>4. ASSUME NEW j \in Key, j # k PROVE LeafAnswers(n, j) = LeafAnswers(nd, j)
  <2>1. /\ \A i \in 1..Len(n.keys) : n.keys[i] = j => LeafAnswers(n, j) = {n.values[i]}
        /\ (\A i \in 1..Len(n.keys) : n.keys[i] # j) => LeafAnswers(n, j) = {None}
    <3>1. n.keys \in Seq(Key) /\ Sorted(n.keys)
      BY <1>1, <1>2
    <3> QED BY <3>1, LeafAnswer
  <2>2. /\ \A i \in 1..Len(nd.keys) : nd.keys[i] = j => LeafAnswers(nd, j) = {nd.values[i]}
        /\ (\A i \in 1..Len(nd.keys) : nd.keys[i] # j) => LeafAnswers(nd, j) = {None}
    BY <1>1, LeafAnswer
  <2>3. CASE \E i \in 1..Len(nd.keys) : nd.keys[i] = j
    <3>1. PICK i \in 1..Len(nd.keys) : nd.keys[i] = j
      BY <2>3
    <3>2. i # p /\ n.values[i] = nd.values[i]
      BY <1>2, <1>4, <3>1
    <3>3. i \in 1..Len(n.keys) /\ n.keys[i] = j
      BY <1>2, <3>1
    <3>4. LeafAnswers(n, j) = {n.values[i]}
      BY <2>1, <3>3
    <3>5. LeafAnswers(nd, j) = {nd.values[i]}
      BY <2>2, <3>1
    <3> QED BY <3>2, <3>4, <3>5
  <2>4. CASE \A i \in 1..Len(nd.keys) : nd.keys[i] # j
    BY <1>2, <2>1, <2>2, <2>4
  <2> QED BY <2>3, <2>4
<1>5. \A i \in 1..Len(n.keys) : \E h \in 1..Len(nd.keys) : n.keys[i] = nd.keys[h]
  BY <1>2
<1>6. n.keys \in Seq(Key) /\ Sorted(n.keys)
  BY <1>1, <1>2
<1> QED BY <1>2, <1>3, <1>4, <1>5, <1>6 DEF LeafHas

(***************************************************************************)
(* So is one with the pair put into the gap.                               *)
(***************************************************************************)
LEMMA PutHas ==
    ASSUME NEW N \in Nat, NEW nd \in Node(N), WellFormed(nd), Sorted(nd.keys),
           NEW k \in Key, NEW p \in Gaps(nd.keys, k), NEW v, NEW n, HasPut(N, nd, p, k, v, n)
    PROVE  LeafHas(nd, n, k, v)
<1> DEFINE L == Len(nd.keys)
<1>1. /\ nd.keys \in Seq(Key) /\ L \in Nat
      /\ \A i \in 1..L : nd.keys[i] \in Nat
  BY NodeFields, KeyIsNumber
<1>2. /\ p \in 1..(L + 1) /\ (p = 1 \/ nd.keys[p - 1] < k) /\ (p = L + 1 \/ k < nd.keys[p])
      /\ k \in Nat
  BY KeyIsNumber DEF Gaps
<1>3. /\ n.leaf = TRUE /\ n.isRoot = nd.isRoot /\ Len(n.keys) = L + 1
      /\ \A i \in 1..(p - 1) : n.keys[i] = nd.keys[i] /\ n.values[i] = nd.values[i]
      /\ n.keys[p] = k /\ n.values[p] = v
      /\ \A i \in (p + 1)..(L + 1) : n.keys[i] = nd.keys[i - 1] /\ n.values[i] = nd.values[i - 1]
      /\ n \in Node(N) /\ WellFormed(n)
  BY DEF HasPut
<1>4. n.keys \in Seq(Key)
  BY <1>3, NodeFields
<1> HIDE DEF L
<1>5. \A i \in 1..L : i < p => nd.keys[i] < k
  <2> SUFFICES ASSUME NEW i \in 1..L, i < p PROVE nd.keys[i] < k
    OBVIOUS
  <2>1. p - 1 \in 1..L /\ nd.keys[p - 1] < k /\ (i = p - 1 \/ i < p - 1)
    BY <1>1, <1>2
  <2>2. nd.keys[i] \in Nat /\ nd.keys[p - 1] \in Nat
    BY <1>1, <2>1
  <2>3. i = p - 1 \/ nd.keys[i] < nd.keys[p - 1]
    BY <2>1 DEF Sorted, L
  <2> QED BY <1>2, <2>1, <2>2, <2>3
<1>6. \A i \in 1..L : p <= i => k < nd.keys[i]
  <2> SUFFICES ASSUME NEW i \in 1..L, p <= i PROVE k < nd.keys[i]
    OBVIOUS
  <2>1. p \in 1..L /\ k < nd.keys[p] /\ (i = p \/ p < i)
    BY <1>1, <1>2
  <2>2. nd.keys[i] \in Nat /\ nd.keys[p] \in Nat
    BY <1>1, <2>1
  <2>3. i = p \/ nd.keys[p] < nd.keys[i]
    BY <2>1 DEF Sorted, L
  <2> QED BY <1>2, <2>1, <2>2, <2>3
<1>7. \A i \in 1..(L + 1) : \/ i \in 1..(p - 1) /\ i \in 1..L /\ i < p
                            \/ i = p
                            \/ i \in (p + 1)..(L + 1) /\ i - 1 \in 1..L /\ p <= i - 1
  BY <1>1, <1>2
<1>8. Sorted(n.keys)
  <2> SUFFICES ASSUME NEW i \in 1..(L + 1), NEW j \in 1..(L + 1), i < j
               PROVE  n.keys[i] < n.keys[j]
    BY <1>3 DEF Sorted
  <2>1. CASE i \in 1..(p - 1) /\ i \in 1..L /\ i < p
    <3>1. CASE j \in 1..(p - 1) /\ j \in 1..L
      BY <1>3, <2>1, <3>1 DEF Sorted, L
    <3>2. CASE j = p
      BY <1>3, <1>5, <2>1, <3>2
    <3>3. CASE j \in (p + 1)..(L + 1) /\ j - 1 \in 1..L /\ p <= j - 1
      <4>1. i < j - 1
        BY <1>2, <2>1, <3>3
      <4>2. nd.keys[i] < nd.keys[j - 1]
        BY <2>1, <3>3, <4>1 DEF Sorted, L
      <4> QED BY <1>3, <2>1, <3>3, <4>2
    <3> QED BY <1>7, <3>1, <3>2, <3>3
  <2>2. CASE i = p
    <3>1. j \in (p + 1)..(L + 1) /\ j - 1 \in 1..L /\ p <= j - 1
      BY <1>1, <1>2, <2>2
    <3> QED BY <1>3, <1>6, <2>2, <3>1
  <2>3. CASE i \in (p + 1)..(L + 1) /\ i - 1 \in 1..L /\ p <= i - 1
    <3>1. j \in (p + 1)..(L + 1) /\ j - 1 \in 1..L /\ i - 1 < j - 1
      BY <1>1, <1>2, <2>3
    <3>2. nd.keys[i - 1] < nd.keys[j - 1]
      BY <2>3, <3>1 DEF Sorted, L
    <3> QED BY <1>3, <2>3, <3>1, <3>2
  <2> QED BY <1>7, <2>1, <2>2, <2>3
<1>9. \A i \in 1..Len(n.keys) : n.keys[i] = k \/ \E h \in 1..Len(nd.keys) : n.keys[i] = nd.keys[h]
  BY <1>3, <1>7 DEF L
<1>10. LeafAnswers(n, k) = {v}
  <2>1. p \in 1..Len(n.keys) /\ n.keys[p] = k
    BY <1>2, <1>3
  <2>2. LeafAnswers(n, k) = {n.values[p]}
    BY <1>4, <1>8, <2>1, LeafAnswer
  <2> QED BY <1>3, <2>2
<1>11. ASSUME NEW j \in Key, j # k PROVE LeafAnswers(n, j) = LeafAnswers(nd, j)
  <2>1. /\ \A i \in 1..Len(n.keys) : n.keys[i] = j => LeafAnswers(n, j) = {n.values[i]}
        /\ (\A i \in 1..Len(n.keys) : n.keys[i] # j) => LeafAnswers(n, j) = {None}
    BY <1>4, <1>8, LeafAnswer
  <2>2. /\ \A i \in 1..Len(nd.keys) : nd.keys[i] = j => LeafAnswers(nd, j) = {nd.values[i]}
        /\ (\A i \in 1..Len(nd.keys) : nd.keys[i] # j) => LeafAnswers(nd, j) = {None}
    BY <1>1, LeafAnswer
  <2>3. CASE \E i \in 1..L : nd.keys[i] = j
    <3>1. PICK i \in 1..L : nd.keys[i] = j
      BY <2>3
    <3>2. CASE i < p
      <4>1. i \in 1..(p - 1) /\ i \in 1..Len(n.keys)
        BY <1>1, <1>2, <1>3, <3>2
      <4>2. n.keys[i] = j /\ n.values[i] = nd.values[i]
        BY <1>3, <3>1, <4>1
      <4>3. LeafAnswers(n, j) = {n.values[i]}
        BY <2>1, <4>1, <4>2
      <4>4. LeafAnswers(nd, j) = {nd.values[i]}
        BY <2>2, <3>1 DEF L
      <4> QED BY <4>2, <4>3, <4>4
    <3>3. CASE p <= i
      <4>1. i + 1 \in (p + 1)..(L + 1) /\ i + 1 \in 1..Len(n.keys) /\ (i + 1) - 1 = i
        BY <1>1, <1>2, <1>3, <3>3
      <4>2. n.keys[i + 1] = j /\ n.values[i + 1] = nd.values[i]
        BY <1>3, <3>1, <4>1
      <4>3. LeafAnswers(n, j) = {n.values[i + 1]}
        BY <2>1, <4>1, <4>2
      <4>4. LeafAnswers(nd, j) = {nd.values[i]}
        BY <2>2, <3>1 DEF L
      <4> QED BY <4>2, <4>3, <4>4
    <3>4. i < p \/ p <= i
      BY <1>2
    <3> QED BY <3>2, <3>3, <3>4
  <2>4. CASE \A i \in 1..L : nd.keys[i] # j
    <3>1. \A i \in 1..Len(n.keys) : n.keys[i] # j
      BY <1>9, <1>11, <2>4 DEF L
    <3> QED BY <2>1, <2>2, <2>4, <3>1 DEF L
  <2> QED BY <2>3, <2>4
<1> QED BY <1>3, <1>4, <1>8, <1>9, <1>10, <1>11 DEF LeafHas

(***************************************************************************)
(* That is the leaf StoreLeaf stores.                                      *)
(***************************************************************************)
LEMMA LeafIsStored ==
    ASSUME Log, StoreLeaf
    PROVE  \E nd : nodes' = [nodes EXCEPT ![at] = nd] /\ LeafHas(nodes[at], nd, entry[1], entry[2])
<1> DEFINE h == nodes[at]
           k == entry[1]
           v == entry[2]
<1>1. pc = "descend" /\ h.leaf /\ todo # <<>> /\ Writer
  BY DEF StoreLeaf, Log, Restored, Writer
<1>2. PICK p \in Positions(h.keys, k) :
           nodes' = [nodes EXCEPT ![at] =
               IF p \in Hits(@.keys, k) THEN OverwriteAt(@, p, v) ELSE PutAt(@, p, k, v)]
  BY DEF StoreLeaf
<1>3. /\ Newest \in Nat /\ h \in Node(Newest) /\ WellFormed(h) /\ Sorted(h.keys) /\ k \in Key
  BY <1>1, RestoredFacts, EntryIsKey DEF Log, Ordering, NodeOrdered
<1>4. PICK lev : Shape(lev)
  BY DEF Log, Restored
<1>5. CASE p \in Hits(h.keys, k)
  <2> DEFINE nd == OverwriteAt(h, p, v)
  <2>1. HasOverwritten(Newest, h, p, v, nd)
    BY <1>1, <1>4, <1>5, LeafOverwrite
  <2>2. nodes' = [nodes EXCEPT ![at] = nd]
    BY <1>2, <1>5
  <2> HIDE DEF nd, h, k, v
  <2>3. p \in 1..Len(h.keys) /\ h.keys[p] = k
    BY <1>5 DEF Hits
  <2>4. LeafHas(h, nd, k, v)
    BY <1>3, <2>1, <2>3, OverwrittenHas
  <2> QED BY <2>2, <2>4 DEF h, k, v
<1>6. CASE p \notin Hits(h.keys, k)
  <2> DEFINE nd == PutAt(h, p, k, v)
  <2>1. HasPut(Newest, h, p, k, v, nd)
    BY <1>1, <1>4, LeafPut
  <2>2. nodes' = [nodes EXCEPT ![at] = nd]
    BY <1>2, <1>6
  <2> HIDE DEF nd, h, k, v
  <2>3. p \in Gaps(h.keys, k)
    BY <1>2, <1>6 DEF Positions
  <2>4. LeafHas(h, nd, k, v)
    BY <1>3, <2>1, <2>3, PutHas
  <2> QED BY <2>2, <2>4 DEF h, k, v
<1> QED BY <1>5, <1>6

(***************************************************************************)
(* The step changes what the tree says of the key being inserted, to its   *)
(* value, and of no other.                                                 *)
(***************************************************************************)
Tells == \A k \in Key : Says(k)' = IF k = entry[1] THEN {entry[2]} ELSE Says(k)

(***************************************************************************)
(* The step of StoreLeaf.                                                  *)
(***************************************************************************)
Leafed(f, g, lev, n, nd, k, v) ==
    /\ Stored(f) /\ Stored(g) /\ Leveled(f, lev) /\ Len(g) = Len(f) /\ n \in 1..Len(f)
    /\ f[n].leaf /\ g[n] = nd /\ LeafHas(f[n], nd, k, v)
    /\ \A m \in 1..Len(f) : m # n => g[m] = f[m]

(***************************************************************************)
(* Each node sends key some way, and a search for it from start passes n.  *)
(***************************************************************************)
Reaches(f, start, n, k) ==
    /\ OnPath(f, start, n, k)
    /\ \A m \in 1..Len(f) : Positions(f[m].keys, k) # {}

(***************************************************************************)
(* Other keys are answered as before, from every node.                     *)
(***************************************************************************)
LEMMA LeafedElsewhere ==
    ASSUME NEW f, NEW g, NEW lev, NEW n, NEW nd, NEW k, NEW v, Leafed(f, g, lev, n, nd, k, v),
           NEW j \in Key, j # k
    PROVE  \A m \in 1..Len(f) : Answers(g, m, j) = Answers(f, m, j)
<1>1. /\ Stored(f) /\ Stored(g) /\ Leveled(f, lev) /\ Len(g) = Len(f) /\ n \in 1..Len(f)
      /\ f[n].leaf /\ g[n] = nd /\ LeafHas(f[n], nd, k, v)
      /\ \A m \in 1..Len(f) : m # n => g[m] = f[m]
  BY DEF Leafed
<1>2. Len(f) \in Nat
  BY <1>1, StoredFacts
<1>3. Answers(g, n, j) = Answers(f, n, j)
  <2>1. nd.leaf = TRUE /\ LeafAnswers(nd, j) = LeafAnswers(f[n], j)
    BY <1>1 DEF LeafHas
  <2>2. Answers(f, n, j) = LeafAnswers(f[n], j)
    BY <1>1, AnswersStep
  <2>3. n \in 1..Len(g) /\ g[n].leaf
    BY <1>1, <2>1
  <2>4. Answers(g, n, j) = LeafAnswers(g[n], j)
    BY <1>1, <2>3, AnswersStep
  <2> QED BY <1>1, <2>1, <2>2, <2>4
<1>4. ASSUME NEW m \in 1..Len(f)
      PROVE  \/ SameContent(f[m], g[m])
             \/ AgreeBelow(f, g, lev, j, m) => Answers(g, m, j) = Answers(f, m, j)
  <2>1. CASE m # n
    BY <1>1, <2>1 DEF SameContent
  <2>2. CASE m = n
    BY <1>3, <2>2
  <2> QED BY <2>1, <2>2
<1>5. MayAgree(f, g, lev, j, 1..Len(f))
  BY <1>1, <1>2, <1>4 DEF MayAgree
<1> QED BY <1>5, AnswersAgree

(***************************************************************************)
(* The key is answered with the value, from every node whose search passes *)
(* the leaf.                                                               *)
(***************************************************************************)
LEMMA LeafedThere ==
    ASSUME NEW f, NEW g, NEW lev, NEW n, NEW nd, NEW k \in Key, NEW v, Leafed(f, g, lev, n, nd, k, v),
           NEW start, Reaches(f, start, n, k)
    PROVE  Answers(g, start, k) = {v}
<1>0. OnPath(f, start, n, k) /\ \A m \in 1..Len(f) : Positions(f[m].keys, k) # {}
  BY DEF Reaches
<1>1. /\ Stored(f) /\ Stored(g) /\ Len(g) = Len(f) /\ n \in 1..Len(f)
      /\ f[n].leaf /\ g[n] = nd /\ LeafHas(f[n], nd, k, v)
      /\ \A m \in 1..Len(f) : m # n => g[m] = f[m]
  BY DEF Leafed
<1> DEFINE S == {m \in 1..Len(f) : Answers(g, m, k) = {v}}
<1>2. n \in S
  <2>1. nd.leaf = TRUE /\ LeafAnswers(nd, k) = {v}
    BY <1>1 DEF LeafHas
  <2>2. n \in 1..Len(g) /\ g[n].leaf
    BY <1>1, <2>1
  <2>3. Answers(g, n, k) = LeafAnswers(g[n], k)
    BY <1>1, <2>2, AnswersStep
  <2> QED BY <1>1, <2>1, <2>3
<1>3. ASSUME NEW m \in 1..Len(f), ~f[m].leaf,
             \A p \in Positions(f[m].keys, k) : f[m].children[p] \in S
      PROVE  m \in S
  <2>1. g[m] = f[m] /\ m \in 1..Len(g) /\ ~g[m].leaf
    BY <1>1, <1>3
  <2>2. Answers(g, m, k) = UNION {Answers(g, g[m].children[p], k) : p \in Positions(g[m].keys, k)}
    BY <1>1, <2>1, AnswersStep
  <2>3. \A p \in Positions(g[m].keys, k) : Answers(g, g[m].children[p], k) = {v}
    BY <1>3, <2>1
  <2>4. Positions(g[m].keys, k) # {}
    BY <1>0, <2>1
  <2>5. Answers(g, m, k) = {v}
    <3> DEFINE X == {Answers(g, g[m].children[p], k) : p \in Positions(g[m].keys, k)}
    <3>1. X = {{v}}
      BY <2>3, <2>4
    <3>2. UNION {{v}} = {v}
      OBVIOUS
    <3> QED BY <2>2, <3>1, <3>2
  <2> QED BY <2>5
<1>4. start \in S
  <2>1. S \in SUBSET (1..Len(f))
    OBVIOUS
  <2> HIDE DEF S
  <2> QED BY <1>0, <1>2, <1>3, <2>1 DEF OnPath
<1> QED BY <1>4

(***************************************************************************)
(* StoreLeaf keeps the invariant, and tells.                               *)
(***************************************************************************)
LEMMA LogStoreLeaf ==
    ASSUME Log, Restored', StoreLeaf
    PROVE  Log' /\ Tells
<1> DEFINE N == Newest
<1>30. PICK k, v : k = entry[1] /\ v = entry[2]
  OBVIOUS
<1>0. PICK lev : Shape(lev)
  BY DEF Log, Restored
<1>1. /\ pc = "descend" /\ nodes[at].leaf /\ pc' = "idle"
      /\ rootOffset' = IF nodes[at].isRoot THEN at ELSE rootOffset
      /\ allowed' = [allowed EXCEPT ![k] = {v}]
  BY <1>30 DEF StoreLeaf, Return, Done
<1>2. /\ Stored(nodes) /\ Leveled(nodes, lev) /\ rootOffset \in 1..N /\ at \in 1..N
      /\ N = Len(nodes) /\ N \in Nat
      /\ \A n \in 1..N : nodes[n] \in Node(N) /\ WellFormed(nodes[n]) /\ nodes[n].keys \in Seq(Key)
  BY <1>0, RestoredFacts DEF Shape, Log
<1>3. PICK nd : nodes' = [nodes EXCEPT ![at] = nd] /\ LeafHas(nodes[at], nd, k, v)
  BY <1>30, LeafIsStored
<1>4. k \in Key /\ v \in Value
  BY <1>1, <1>30, EntryIsKey
<1>5. rootOffset' = rootOffset
  BY <1>1, <1>2 DEF Log, Flags
<1>6. Len(nodes') = N /\ nodes'[at] = nd /\ \A m \in 1..N : m # at => nodes'[m] = nodes[m]
  BY <1>2, <1>3, Wrote
<1>7. Stored(nodes')
  BY RestoredStored
<1>8. Leafed(nodes, nodes', lev, at, nd, k, v)
  BY <1>1, <1>2, <1>3, <1>6, <1>7 DEF Leafed
<1>9. /\ \A n \in 1..N : NodeOrdered(nodes, nodes[n]) /\ Timely(allowed, nodes[n])
      /\ \A n \in 1..N : Sorted(nodes[n].keys)
  BY DEF Log, Ordering, NodeOrdered
<1>10. OnPath(nodes, rootOffset, at, k)
  BY <1>1, <1>30 DEF Log, WayToAt
<1>11. \A n \in 1..N : ~nodes[n].leaf => \A i \in 1..Len(nodes[n].keys) : nodes[n].keys[i] < k
  BY <1>1, <1>30, LastWay
<1>12. Newest' = N
  BY <1>6 DEF Newest
<1>13. allowed \in [Key -> SUBSET (Value \cup {None})]
  BY DEF Log, Restored, Writer
<1> HIDE DEF N
<1>14. /\ \A j \in Key : Says(j) = Answers(nodes, rootOffset, j)
       /\ \A j \in Key : Says(j)' = Answers(nodes', rootOffset, j)
  BY <1>1, <1>5 DEF Says, Torn
<1>15. ASSUME NEW j \in Key, j # k PROVE Says(j)' = Says(j)
  <2>1. \A m \in 1..Len(nodes) : Answers(nodes', m, j) = Answers(nodes, m, j)
    BY <1>8, <1>15, LeafedElsewhere
  <2> QED BY <1>2, <1>14, <2>1
<1>16. Says(k)' = {v}
  <2>1. \A m \in 1..Len(nodes) : Positions(nodes[m].keys, k) # {}
    <3> TAKE m \in 1..Len(nodes)
    <3>1. nodes[m].keys \in Seq(Key) /\ Sorted(nodes[m].keys)
      BY <1>2, <1>9
    <3>2. \E p \in 1..(Len(nodes[m].keys) + 1) : Positions(nodes[m].keys, k) = {p}
      BY <1>4, <3>1, ThePosition
    <3> QED BY <3>2
  <2>2. Answers(nodes', rootOffset, k) = {v}
    <3>1. Reaches(nodes, rootOffset, at, k)
      BY <1>10, <2>1 DEF Reaches
    <3> QED BY <1>4, <1>8, <3>1, LeafedThere
  <2> QED BY <1>4, <1>14, <2>2
<1>17. Tells
  BY <1>15, <1>16, <1>30 DEF Tells
<1>18. allowed'[k] = {v} /\ \A j \in Key : j # k => allowed'[j] = allowed[j]
  BY <1>1, <1>4, <1>13
<1>19. Truth'
  <2>1. \A j \in Key : Says(j) \subseteq allowed[j]
    BY DEF Log, Truth
  <2>2. \A j \in Key : Says(j)' \subseteq allowed'[j]
    BY <1>15, <1>16, <1>18, <2>1
  <2> QED BY <2>2 DEF Truth
<1>20. Said(allowed', k) /\ \A j \in Key : Said(allowed, j) => Said(allowed', j)
  <2>1. None \notin Value
    BY TreeAssumption
  <2>2. {v} # {None}
    BY <1>4, <2>1
  <2> QED BY <1>18, <2>2 DEF Said
<1>21. ASSUME NEW n \in 1..N PROVE Timely(allowed', nodes'[n])
  <2>1. CASE n # at
    <3>1. nodes'[n] = nodes[n] /\ nodes[n].keys \in Seq(Key) /\ Timely(allowed, nodes[n])
      BY <1>2, <1>6, <1>9, <2>1
    <3> QED BY <1>20, <3>1, TimelyStill
  <2>2. CASE n = at
    <3>1. /\ nd.leaf = TRUE
          /\ \A i \in 1..Len(nd.keys) : nd.keys[i] = k \/ \E h \in 1..Len(nodes[at].keys) : nd.keys[i] = nodes[at].keys[h]
      BY <1>3 DEF LeafHas
    <3>2. \A h \in 1..Len(nodes[at].keys) : Said(allowed, nodes[at].keys[h]) /\ nodes[at].keys[h] \in Key
      <4>1. Timely(allowed, nodes[at])
        BY <1>2, <1>9
      <4>2. \A h \in 1..Len(nodes[at].keys) : nodes[at].keys[h] \in Key
        BY <1>2
      <4> QED BY <1>1, <4>1, <4>2 DEF Timely
    <3>3. \A i \in 1..Len(nd.keys) : Said(allowed', nd.keys[i])
      BY <1>20, <3>1, <3>2
    <3> QED BY <1>6, <2>2, <3>1, <3>3 DEF Timely
  <2> QED BY <2>1, <2>2
<1>22. ASSUME NEW n \in 1..N PROVE NodeOrdered(nodes', nodes'[n])
  <2>1. CASE n = at
    <3>1. nd.leaf = TRUE /\ Sorted(nd.keys)
      BY <1>3 DEF LeafHas
    <3> QED BY <1>6, <2>1, <3>1 DEF NodeOrdered
  <2>2. CASE n # at /\ nodes[n].leaf
    BY <1>6, <1>9, <2>2 DEF NodeOrdered
  <2>3. CASE n # at /\ ~nodes[n].leaf
    <3>1. nodes'[n] = nodes[n] /\ NodeOrdered(nodes, nodes[n])
      BY <1>6, <1>9, <2>3
    <3>2. ASSUME NEW p \in 1..Len(nodes[n].keys), NEW q \in 1..Len(nodes'[nodes[n].children[p + 1]].keys)
          PROVE  nodes[n].keys[p] < nodes'[nodes[n].children[p + 1]].keys[q]
      <4> DEFINE d == nodes[n].children[p + 1]
      <4>1. \A i \in 1..Len(nodes[d].keys) : nodes[n].keys[p] < nodes[d].keys[i]
        BY <2>3, <3>1 DEF NodeOrdered
      <4>2. d \in 1..N
        <5>1. /\ Len(nodes[n].keys) \in Nat /\ Len(nodes[n].children) = Len(nodes[n].keys) + 1
              /\ \A i \in 1..Len(nodes[n].children) : nodes[n].children[i] \in 1..N
          BY <1>2, <2>3, StoredFacts
        <5>2. p + 1 \in 1..Len(nodes[n].children)
          BY <5>1
        <5> QED BY <5>1, <5>2
      <4>3. CASE d # at
        BY <1>6, <3>2, <4>1, <4>2, <4>3
      <4>4. CASE d = at
        <5>1. nodes'[d] = nd
          BY <1>6, <4>4
        <5>2. nd.keys[q] = k \/ \E h \in 1..Len(nodes[at].keys) : nd.keys[q] = nodes[at].keys[h]
          BY <1>3, <3>2, <5>1 DEF LeafHas
        <5>3. nodes[n].keys[p] < k
          BY <1>11, <2>3
        <5> QED BY <4>1, <4>4, <5>1, <5>2, <5>3
      <4> QED BY <4>3, <4>4
    <3> QED BY <2>3, <3>1, <3>2 DEF NodeOrdered
  <2> QED BY <2>1, <2>2, <2>3
<1>23. Ordering'
  BY <1>12, <1>21, <1>22 DEF Ordering
<1>24. Flags'
  <2>1. nd.isRoot = nodes[at].isRoot
    BY <1>3 DEF LeafHas
  <2> QED BY <1>1, <1>5, <1>6, <1>12, <2>1 DEF Log, Flags, N
<1> QED BY <1>1, <1>17, <1>19, <1>23, <1>24 DEF Log, Latest, TornHalf, LinkHalf, WayToAt
-----------------------------------------------------------------------------
(* The begin of an insertion. *)

(***************************************************************************)
(* Nodes have no key they did not have.                                    *)
(***************************************************************************)
Shrunk(f, g) ==
    \A d \in 1..Len(f) : \A q \in 1..Len(g[d].keys) :
        \E i \in 1..Len(f[d].keys) : g[d].keys[q] = f[d].keys[i]

(***************************************************************************)
(* Then they are ordered still.                                            *)
(***************************************************************************)
LEMMA ShrunkOrdered ==
    ASSUME NEW f, NEW g, NEW N \in Nat, N = Len(f), Shrunk(f, g), NEW a \in Node(N), WellFormed(a),
           NodeOrdered(f, a), NEW b, SameContent(a, b)
    PROVE  NodeOrdered(g, b)
<1>1. b.leaf = a.leaf /\ b.keys = a.keys /\ b.children = a.children
  BY DEF SameContent
<1>2. Sorted(a.keys)
  BY DEF NodeOrdered
<1>3. ASSUME ~a.leaf, NEW p \in 1..Len(a.keys), NEW q \in 1..Len(g[a.children[p + 1]].keys)
      PROVE  a.keys[p] < g[a.children[p + 1]].keys[q]
  <2> DEFINE d == a.children[p + 1]
  <2>1. Len(a.keys) \in Nat /\ Len(a.children) = Len(a.keys) + 1
        /\ \A i \in 1..Len(a.children) : a.children[i] \in 1..N
    BY <1>3, NodeFields
  <2>2. d \in 1..Len(f)
    BY <2>1
  <2>3. PICK i \in 1..Len(f[d].keys) : g[d].keys[q] = f[d].keys[i]
    BY <1>3, <2>2 DEF Shrunk
  <2>4. a.keys[p] < f[d].keys[i]
    BY <1>3 DEF NodeOrdered
  <2> QED BY <2>3, <2>4
<1>4. ~a.leaf => 1 <= Len(a.keys)
  BY DEF NodeOrdered
<1> QED BY <1>1, <1>2, <1>3, <1>4 DEF NodeOrdered

(***************************************************************************)
(* The step of Insert at a full root: its left half over it.               *)
(***************************************************************************)
MayHalve(f, g, lev, r, l) ==
    /\ Stored(f) /\ Stored(g) /\ Leveled(f, lev) /\ Len(g) = Len(f) /\ r \in 1..Len(f)
    /\ MaySplit(Len(f), f[r])
    /\ g[r] = l /\ SameContent(SplitLeft(f[r]), l)
    /\ \A m \in 1..Len(f) : m # r => g[m] = f[m]

(***************************************************************************)
(* The root has fewer keys, ...                                            *)
(***************************************************************************)
LEMMA HalvedShrinks ==
    ASSUME NEW f, NEW g, NEW lev, NEW r, NEW l, MayHalve(f, g, lev, r, l)
    PROVE  Shrunk(f, g)
<1>1. /\ Len(f) \in Nat /\ r \in 1..Len(f) /\ MaySplit(Len(f), f[r])
      /\ g[r] = l /\ SameContent(SplitLeft(f[r]), l)
      /\ \A m \in 1..Len(f) : m # r => g[m] = f[m]
  BY StoredFacts DEF MayHalve
<1>2. ASSUME NEW q \in 1..Len(l.keys) PROVE \E i \in 1..Len(f[r].keys) : l.keys[q] = f[r].keys[i]
  <2>1. l.keys = SplitLeft(f[r]).keys
    BY <1>1 DEF SameContent
  <2>2. Part(f[r], SplitLeft(f[r]), 0) /\ Len(f[r].keys) \in Nat
    BY <1>1, SplitParts
  <2>3. /\ Len(l.keys) \in Nat /\ 0 + Len(l.keys) <= Len(f[r].keys)
        /\ l.keys[q] = f[r].keys[0 + q]
    BY <2>1, <2>2 DEF Part
  <2>4. 0 + q \in 1..Len(f[r].keys)
    BY <2>2, <2>3
  <2> QED BY <2>3, <2>4
<1> SUFFICES ASSUME NEW d \in 1..Len(f), NEW q \in 1..Len(g[d].keys)
             PROVE  \E i \in 1..Len(f[d].keys) : g[d].keys[q] = f[d].keys[i]
  BY DEF Shrunk
<1>3. CASE d = r
  BY <1>1, <1>2, <1>3
<1>4. CASE d # r
  BY <1>1, <1>4
<1> QED BY <1>3, <1>4

(***************************************************************************)
(* ... what is below it answers as it did, ...                             *)
(***************************************************************************)
LEMMA HalvedBelow ==
    ASSUME NEW f, NEW g, NEW lev, NEW r, NEW l, MayHalve(f, g, lev, r, l), NEW k
    PROVE  \A n \in 1..Len(f) : lev[n] < lev[r] => Answers(g, n, k) = Answers(f, n, k)
<1>1. /\ Stored(f) /\ Stored(g) /\ Leveled(f, lev) /\ Len(g) = Len(f) /\ r \in 1..Len(f)
      /\ \A m \in 1..Len(f) : m # r => g[m] = f[m]
  BY DEF MayHalve
<1>2. Len(f) \in Nat /\ \A n \in 1..Len(f) : lev[n] \in Nat
  BY <1>1, StoredFacts, LevelFacts
<1> DEFINE M == {n \in 1..Len(f) : lev[n] < lev[r]}
<1>3. \A n \in M : n # r
  BY <1>1, <1>2
<1>4. \A n \in M : SameContent(f[n], g[n])
  BY <1>1, <1>3 DEF SameContent
<1>5. \A n \in M : \A c \in 1..Len(f) : lev[c] < lev[n] => c \in M
  <2> SUFFICES ASSUME NEW n \in M, NEW c \in 1..Len(f), lev[c] < lev[n] PROVE lev[c] < lev[r]
    OBVIOUS
  <2>1. lev[n] < lev[r] /\ lev[n] \in Nat /\ lev[r] \in Nat /\ lev[c] \in Nat
    BY <1>1, <1>2
  <2> QED BY <2>1
<1>6. MayAgree(f, g, lev, k, M)
  <2>1. M \subseteq 1..Len(f)
    OBVIOUS
  <2>2. Len(f) <= Len(g)
    BY <1>1, <1>2
  <2> HIDE DEF M
  <2> QED BY <1>1, <1>4, <1>5, <2>1, <2>2 DEF MayAgree
<1>7. \A n \in M : Answers(g, n, k) = Answers(f, n, k)
  <2> HIDE DEF M
  <2> QED BY <1>6, AnswersAgree
<1> QED BY <1>7

(***************************************************************************)
(* ... and one half or the other answers for the root.                     *)
(***************************************************************************)
LEMMA HalvedAnswers ==
    ASSUME NEW f, NEW g, NEW lev, NEW r, NEW l, MayHalve(f, g, lev, r, l), NEW k \in Key
    PROVE  /\ SplitMedian(f[r]) < k => NodeAnswers(g, SplitRight(f[r]), k) = Answers(f, r, k)
           /\ ~(SplitMedian(f[r]) < k) => NodeAnswers(g, l, k) = Answers(f, r, k)
<1> DEFINE N == Len(f)
           h == f[r]
<1>1. /\ Stored(f) /\ Leveled(f, lev) /\ r \in 1..N /\ MaySplit(N, h)
      /\ SameContent(SplitLeft(h), l)
  BY DEF MayHalve
<1>2. N \in Nat /\ h \in Node(N) /\ WellFormed(h) /\ IsFull(h)
  BY <1>1 DEF MaySplit
<1>3. Answers(f, r, k) = NodeAnswers(f, h, k)
  BY <1>1, NodeAnswersIn
<1>4. /\ SplitMedian(h) < k => NodeAnswers(f, SplitRight(h), k) = NodeAnswers(f, h, k)
      /\ ~(SplitMedian(h) < k) => NodeAnswers(f, SplitLeft(h), k) = NodeAnswers(f, h, k)
  BY <1>1, SplitAnswers
<1>5. ~h.leaf => \A p \in 1..Len(h.children) :
                     Answers(g, h.children[p], k) = Answers(f, h.children[p], k)
  <2> SUFFICES ASSUME ~h.leaf, NEW p \in 1..Len(h.children)
               PROVE  Answers(g, h.children[p], k) = Answers(f, h.children[p], k)
    OBVIOUS
  <2>1. p \in 1..(Len(h.keys) + 1)
    BY <1>2, NodeFields
  <2>2. h.children[p] \in 1..N /\ lev[h.children[p]] < lev[r]
    BY <1>1, <2>1, WayDown
  <2> QED BY <2>2, HalvedBelow
<1> DEFINE sr == SplitRight(h)
           sl == SplitLeft(h)
<1>6. /\ sr \in Node(N) /\ WellFormed(sr) /\ sr.leaf = h.leaf
      /\ sl \in Node(N) /\ WellFormed(sl) /\ sl.leaf = h.leaf
  BY <1>2, SplitRightFacts, SplitLeftFacts
<1>7. ~h.leaf => /\ \A i \in 1..Len(sr.children) :
                       \E j \in 1..Len(h.children) : sr.children[i] = h.children[j]
                 /\ \A i \in 1..Len(sl.children) :
                       \E j \in 1..Len(h.children) : sl.children[i] = h.children[j]
  BY <1>2, SplitChildren
<1> HIDE DEF sr, sl, h, N
<1>8. /\ ~sr.leaf => \A p \in 1..Len(sr.children) :
                         Answers(g, sr.children[p], k) = Answers(f, sr.children[p], k)
      /\ ~sl.leaf => \A p \in 1..Len(sl.children) :
                         Answers(g, sl.children[p], k) = Answers(f, sl.children[p], k)
  <2>1. ASSUME ~sr.leaf, NEW p \in 1..Len(sr.children)
        PROVE  Answers(g, sr.children[p], k) = Answers(f, sr.children[p], k)
    <3>1. PICK j \in 1..Len(h.children) : sr.children[p] = h.children[j]
      BY <1>6, <1>7, <2>1
    <3> QED BY <1>5, <1>6, <2>1, <3>1
  <2>2. ASSUME ~sl.leaf, NEW p \in 1..Len(sl.children)
        PROVE  Answers(g, sl.children[p], k) = Answers(f, sl.children[p], k)
    <3>1. PICK j \in 1..Len(h.children) : sl.children[p] = h.children[j]
      BY <1>6, <1>7, <2>2
    <3> QED BY <1>5, <1>6, <2>2, <3>1
  <2> QED BY <2>1, <2>2
<1>9. NodeAnswers(g, sr, k) = NodeAnswers(f, sr, k)
  <2>1. SameContent(sr, sr)
    BY DEF SameContent
  <2> QED BY <1>2, <1>6, <1>8, <2>1, SameNode
<1>10. NodeAnswers(g, l, k) = NodeAnswers(f, sl, k)
  <2>1. SameContent(sl, l)
    BY <1>1 DEF sl
  <2> QED BY <1>2, <1>6, <1>8, <2>1, SameNode
<1> QED BY <1>3, <1>4, <1>9, <1>10 DEF sr, sl, h

(***************************************************************************)
(* The begin of an ascending insert makes its key the latest.              *)
(***************************************************************************)
LEMMA InsertSaid ==
    ASSUME Log, NEW k \in Key, NEW v \in Value, AscendingKey(k), Insert(k, v)
    PROVE  /\ Latest'
           /\ \A j \in Key : Said(allowed, j) => Said(allowed', j)
           /\ \A j \in Key : allowed[j] \subseteq allowed'[j]
<1>1. /\ allowed' = [allowed EXCEPT ![k] = allowed[k] \cup {v}]
      /\ todo' = <<<<k, v>>>>
  BY DEF Insert
<1>2. allowed \in [Key -> SUBSET (Value \cup {None})] /\ None \notin Value
  BY TreeAssumption DEF Log, Restored, Writer
<1>3. allowed'[k] = allowed[k] \cup {v} /\ \A j \in Key : j # k => allowed'[j] = allowed[j]
  BY <1>1, <1>2
<1>4. \A j \in Key : allowed[j] \subseteq allowed'[j]
  <2> TAKE j \in Key
  <2>1. CASE j = k
    BY <1>3, <2>1
  <2>2. CASE j # k
    BY <1>3, <2>2
  <2> QED BY <2>1, <2>2
<1>5. \A j \in Key : Said(allowed, j) => Said(allowed', j)
  <2>1. allowed'[k] # {None}
    BY <1>2, <1>3
  <2> QED BY <1>3, <2>1 DEF Said
<1>6. \A j \in Key : Said(allowed', j) => j <= k
  <2> SUFFICES ASSUME NEW j \in Key, Said(allowed', j) PROVE j <= k
    OBVIOUS
  <2>1. CASE j = k
    <3>1. k \in Nat
      BY KeyIsNumber
    <3> QED BY <2>1, <3>1
  <2>2. CASE j # k
    BY <1>3, <2>2 DEF Said, AscendingKey, Known
  <2> QED BY <2>1, <2>2
<1>7. entry'[1] = k
  <2>1. Head(<<<<k, v>>>>) = <<k, v>>
    OBVIOUS
  <2> QED BY <1>1, <2>1 DEF entry
<1>8. Latest'
  BY <1>6, <1>7 DEF Latest
<1> QED BY <1>4, <1>5, <1>8

(***************************************************************************)
(* Insert of an ascending key keeps the invariant, silently.               *)
(***************************************************************************)
LEMMA LogInsert ==
    ASSUME Log, Restored', NEW k \in Key, NEW v \in Value, AscendingKey(k), Insert(k, v)
    PROVE  Log' /\ Silent
<1> DEFINE N == Newest
           r == rootOffset
           h == nodes[r]
<1>0. PICK lev : Shape(lev)
  BY DEF Log, Restored
<1>1. /\ pc = "idle" /\ rootOffset' = rootOffset /\ at' = r
      /\ \/ ~IsFull(h) /\ pc' = "descend" /\ nodes' = nodes
         \/ /\ IsFull(h) /\ pc' = "sibling"
            /\ nodes' = [nodes EXCEPT ![r] = [SplitLeft(h) EXCEPT !.isRoot = FALSE]]
            /\ sib' = SplitRight(h) /\ med' = SplitMedian(h)
  BY DEF Insert
<1>2. /\ Latest'
      /\ \A j \in Key : Said(allowed, j) => Said(allowed', j)
      /\ \A j \in Key : allowed[j] \subseteq allowed'[j]
  BY InsertSaid
<1>3. /\ Stored(nodes) /\ Leveled(nodes, lev) /\ r \in 1..N
      /\ N = Len(nodes) /\ N \in Nat
      /\ \A n \in 1..N : nodes[n] \in Node(N) /\ WellFormed(nodes[n]) /\ nodes[n].keys \in Seq(Key)
  BY <1>0, RestoredFacts DEF Shape, Log
<1>4. \A n \in 1..N : NodeOrdered(nodes, nodes[n]) /\ Timely(allowed, nodes[n])
  BY DEF Log, Ordering
<1>5. ASSUME NEW n \in 1..N PROVE Timely(allowed', nodes[n])
  BY <1>2, <1>3, <1>4, TimelyStill
<1>6. CASE ~IsFull(h) /\ pc' = "descend" /\ nodes' = nodes
  <2>1. Newest' = N
    BY <1>6 DEF Newest
  <2>2. Silent
    BY <1>1, <1>6 DEF Silent, Says, Torn
  <2>3. Truth'
    BY <1>2, <2>2, SilentTruth
  <2>4. Ordering'
    BY <1>4, <1>5, <1>6, <2>1 DEF Ordering
  <2>5. Flags'
    BY <1>1, <1>6, <2>1 DEF Log, Flags
  <2>6. WayToAt'
    BY <1>1 DEF WayToAt, OnPath
  <2> QED BY <1>2, <1>6, <2>2, <2>3, <2>4, <2>5, <2>6 DEF Log, TornHalf, LinkHalf
<1>7. CASE /\ IsFull(h) /\ pc' = "sibling"
           /\ nodes' = [nodes EXCEPT ![r] = [SplitLeft(h) EXCEPT !.isRoot = FALSE]]
           /\ sib' = SplitRight(h) /\ med' = SplitMedian(h)
  <2> DEFINE sl == SplitLeft(h)
             sr == SplitRight(h)
             l == [sl EXCEPT !.isRoot = FALSE]
  <2>1. h \in Node(N) /\ WellFormed(h) /\ NodeOrdered(nodes, h) /\ Timely(allowed', h)
    BY <1>3, <1>4, <1>5
  <2>2. MaySplit(N, h)
    BY <1>3, <1>7, <2>1 DEF MaySplit, NodeOrdered
  <2> HIDE DEF h
  <2>3. /\ sl \in Node(N) /\ WellFormed(sl)
        /\ sr \in Node(N) /\ WellFormed(sr) /\ sr.isRoot = FALSE
    BY <1>3, <1>7, <2>1, SplitLeftFacts, SplitRightFacts
  <2>4. /\ NodeOrdered(nodes, sr) /\ Timely(allowed', sr)
        /\ NodeOrdered(nodes, sl) /\ Timely(allowed', sl)
        /\ Before(allowed', SplitMedian(h))
    BY <2>1, <2>2, SplitOrdered
  <2>5. \A i \in 1..Len(sr.keys) : SplitMedian(h) < sr.keys[i]
    BY <2>2, SplitParts
  <2>6. nodes' = [nodes EXCEPT ![r] = l] /\ sib' = sr
    BY <1>7
  <2> HIDE DEF sl, sr
  <2>7. SameContent(sl, l) /\ l.isRoot = FALSE
    BY <2>3 DEF Node, SameContent
  <2> HIDE DEF l
  <2>8. Len(nodes') = N /\ nodes'[r] = l /\ \A m \in 1..N : m # r => nodes'[m] = nodes[m]
    BY <1>3, <2>6, Wrote
  <2>9. Stored(nodes')
    BY RestoredStored
  <2>10. MayHalve(nodes, nodes', lev, r, l)
    BY <1>3, <2>2, <2>7, <2>8, <2>9 DEF MayHalve, h, sl
  <2>11. Shrunk(nodes, nodes')
    BY <2>10, HalvedShrinks
  <2>12. Newest' = N
    BY <2>8 DEF Newest
  <2>13. Silent
    <3> SUFFICES ASSUME NEW j \in Key PROVE Says(j)' = Says(j)
      BY DEF Silent
    <3>1. Says(j) = Answers(nodes, r, j)
      BY <1>1 DEF Says, Torn
    <3>2. Says(j)' = NodeAnswers(nodes', IF med' < j THEN sib' ELSE nodes'[at'], j)
      BY <1>7 DEF Says, Torn
    <3>3. /\ med' < j => NodeAnswers(nodes', sib', j) = Answers(nodes, r, j)
          /\ ~(med' < j) => NodeAnswers(nodes', l, j) = Answers(nodes, r, j)
      <4>1. /\ SplitMedian(nodes[r]) < j =>
                  NodeAnswers(nodes', SplitRight(nodes[r]), j) = Answers(nodes, r, j)
            /\ ~(SplitMedian(nodes[r]) < j) => NodeAnswers(nodes', l, j) = Answers(nodes, r, j)
        BY <2>10, HalvedAnswers
      <4> QED BY <1>7, <4>1 DEF h
    <3>4. nodes'[at'] = l
      BY <1>1, <2>8
    <3>5. CASE med' < j
      BY <3>1, <3>2, <3>3, <3>5
    <3>6. CASE ~(med' < j)
      BY <3>1, <3>2, <3>3, <3>4, <3>6
    <3> QED BY <3>5, <3>6
  <2>14. Truth'
    BY <1>2, <2>13, SilentTruth
  <2>15. NodeOrdered(nodes', l) /\ NodeOrdered(nodes', sr)
    <3>1. SameContent(sr, sr)
      BY DEF SameContent
    <3> QED BY <1>3, <2>3, <2>4, <2>7, <2>11, <3>1, ShrunkOrdered
  <2>16. Timely(allowed', l)
    BY <2>4, <2>7 DEF SameContent, Timely
  <2>17. Ordering'
    <3>1. ASSUME NEW n \in 1..N, n # r
          PROVE  NodeOrdered(nodes', nodes'[n]) /\ Timely(allowed', nodes'[n])
      <4>1. nodes'[n] = nodes[n] /\ SameContent(nodes[n], nodes[n])
        BY <2>8, <3>1 DEF SameContent
      <4>2. NodeOrdered(nodes', nodes[n])
        BY <1>3, <1>4, <2>11, <4>1, ShrunkOrdered
      <4> QED BY <1>5, <4>1, <4>2
    <3> QED BY <2>8, <2>12, <2>15, <2>16, <3>1 DEF Ordering
  <2>18. Flags'
    BY <1>1, <2>7, <2>8, <2>12 DEF Log, Flags
  <2>19. TornHalf'
    <3>1. /\ at' = rootOffset' /\ ~nodes'[at'].isRoot /\ ~sib'.isRoot
          /\ NodeOrdered(nodes', sib') /\ Timely(allowed', sib') /\ Before(allowed', med')
          /\ \A q \in 1..Len(sib'.keys) : med' < sib'.keys[q]
      BY <1>1, <1>7, <2>3, <2>4, <2>5, <2>6, <2>7, <2>8, <2>15
    <3> QED BY <1>7, <3>1 DEF TornHalf
  <2> QED BY <1>2, <1>7, <2>13, <2>14, <2>17, <2>18, <2>19 DEF Log, LinkHalf, WayToAt
<1> QED BY <1>1, <1>6, <1>7
-----------------------------------------------------------------------------
(* The theorems about ascending trees. *)

(***************************************************************************)
(* A fresh tree says nothing of any key.                                   *)
(***************************************************************************)
LEMMA LogInit ==
    ASSUME Init
    PROVE  Log /\ \A k \in Key : Says(k) = {None}
<1> DEFINE nd == [NewLeaf EXCEPT !.isRoot = TRUE]
<1>1. /\ nodes = <<nd>> /\ rootOffset = 1 /\ pc = "idle" /\ kind = "insert"
      /\ allowed = [k \in Key |-> {None}]
  BY DEF Init, Idle
<1>2. nd.leaf = TRUE /\ nd.keys = <<>>
  BY DEF NewLeaf
<1> HIDE DEF nd
<1>3. Restored
  BY <1>1, ShapeInit DEF Restored, Bulky
<1>4. Newest = 1 /\ nodes[1] = nd /\ Stored(nodes) /\ 1 \in 1..Len(nodes) /\ \A n \in 1..1 : n = 1
  <2>1. Newest = 1 /\ nodes[1] = nd
    BY <1>1 DEF Newest
  <2>2. Stored(nodes)
    BY <1>3, RestoredFacts
  <2> QED BY <2>1, <2>2 DEF Newest
<1>5. Sorted(nd.keys) /\ nd.keys \in Seq(Key) /\ Len(nd.keys) = 0 /\ 1..0 = {}
  BY <1>2 DEF Sorted
<1>6. Ordering
  BY <1>2, <1>4, <1>5 DEF Ordering, NodeOrdered, Timely
<1>7. \A k \in Key : Says(k) = {None}
  <2> TAKE k \in Key
  <2>1. Says(k) = Answers(nodes, 1, k)
    BY <1>1 DEF Says, Torn
  <2>2. Answers(nodes, 1, k) = LeafAnswers(nd, k)
    BY <1>2, <1>4, AnswersStep
  <2>3. LeafAnswers(nd, k) = {None}
    BY <1>5, LeafAnswer
  <2> QED BY <2>1, <2>2, <2>3
<1>8. Truth
  BY <1>1, <1>7 DEF Truth
<1>9. Flags
  BY <1>1, <1>4 DEF Flags
<1> QED BY <1>1, <1>3, <1>6, <1>7, <1>8, <1>9 DEF Log, Latest, TornHalf, LinkHalf, WayToAt

(***************************************************************************)
(* The steps of LogSpec.                                                   *)
(***************************************************************************)
Steps == InsertAscending \/ Store \/ (pc \notin Torn /\ Crash)

(***************************************************************************)
(* Every step keeps the invariant, and is silent or tells.                 *)
(***************************************************************************)
LEMMA LogNext ==
    ASSUME Log, [Steps]_vars
    PROVE  Log' /\ (Silent \/ (Tells /\ entry[1] \in Key /\ entry[2] \in Value))
<1>1. Restored /\ kind = "insert" /\ pc \notin Bulky
  BY RestoredFacts DEF Log
<1>2. Restored'
  <2>1. InsertAscending => AnyInsert
    BY DEF InsertAscending, AnyInsert
  <2>2. [AnyInsert \/ Store \/ Crash]_vars
    BY <2>1 DEF Steps
  <2> QED BY <1>1, <2>2, RestoredNext
<1>3. CASE InsertAscending
  <2>1. PICK k \in Key, v \in Value : AscendingKey(k) /\ Insert(k, v)
    BY <1>3 DEF InsertAscending
  <2> QED BY <1>2, <2>1, LogInsert
<1>4. CASE Store
  <2>1. ~(BatchStore \/ BatchPut \/ BatchSibling \/ BatchLeft \/ BatchParent)
    BY <1>1 DEF Bulky, BatchStore, BatchPut, BatchSibling, BatchLeft, BatchParent
  <2>2. CASE StoreLeaf
    <3>1. Log' /\ Tells
      BY <1>2, <2>2, LogStoreLeaf
    <3>2. entry[1] \in Key /\ entry[2] \in Value
      BY <2>2, EntryIsKey DEF StoreLeaf
    <3> QED BY <3>1, <3>2
  <2>3. CASE RootSibling
    BY <1>2, <2>3, LogRootSibling
  <2>4. CASE GrowRoot
    BY <1>2, <2>4, LogGrowRoot
  <2>5. CASE SetRootOffset
    BY <1>2, <2>5, LogSetRoot
  <2>6. CASE AdoptLeft
    BY <1>2, <2>6, LogAdoptLeft
  <2>7. CASE AdoptRight
    BY <1>2, <2>7, LogAdoptRight
  <2>8. CASE Descend
    BY <1>2, <2>8, LogDescend
  <2>9. CASE LinkSibling
    BY <1>2, <2>9, LogLinkSibling
  <2> QED BY <1>4, <2>1, <2>2, <2>3, <2>4, <2>5, <2>6, <2>7, <2>8, <2>9 DEF Store
<1>5. CASE pc \notin Torn /\ Crash
  BY <1>2, <1>5, LogCrash
<1>6. CASE UNCHANGED vars
  BY <1>2, <1>6, LogSame
<1> QED BY <1>3, <1>4, <1>5, <1>6 DEF Steps

(***************************************************************************)
(* What Dictionary chooses from.                                           *)
(***************************************************************************)
SaysWhat(k) == IF pc \in Torn THEN TornAnswers(k) ELSE Search(k)

(***************************************************************************)
(* ... is what the tree says.                                              *)
(***************************************************************************)
LEMMA SaysIs ==
    ASSUME Log, NEW k \in Key
    PROVE  SaysWhat(k) = Says(k)
<1>1. Search(k) = Answers(nodes, rootOffset, k)
  BY DEF Search, Leaves, LeavesUnder, Answers
<1>2. ASSUME NEW nd PROVE AnswersIn(nd, k) = NodeAnswers(nodes, nd, k)
  BY DEF AnswersIn, NodeAnswers, Answers, LeavesUnder
<1>3. pc # "batchParent"
  BY RestoredFacts DEF Log, Bulky
<1>4. TornAnswers(k) = NodeAnswers(nodes, IF med < k THEN sib ELSE nodes[at], k)
  BY <1>2, <1>3 DEF TornAnswers
<1> QED BY <1>1, <1>4 DEF SaysWhat, Says

(***************************************************************************)
(* The choice Dictionary makes.                                            *)
(***************************************************************************)
Told(S) == CHOOSE v \in Value \cup {None} : v \in S

(***************************************************************************)
(* The dictionary the tree stands for.                                     *)
(***************************************************************************)
LEMMA DictionaryIs ==
    ASSUME Log
    PROVE  Dictionary = [k \in Key |-> Told(Says(k))]
<1>1. Dictionary = [k \in Key |-> Told(SaysWhat(k))]
  BY DEF Dictionary, Told, SaysWhat
<1>2. \A k \in Key : SaysWhat(k) = Says(k)
  BY SaysIs
<1> QED BY <1>1, <1>2

(***************************************************************************)
(* There is no choice from one answer.                                     *)
(***************************************************************************)
LEMMA ToldOne ==
    ASSUME NEW v \in Value \cup {None}
    PROVE  Told({v}) = v
  BY DEF Told

(***************************************************************************)
(* The step of OrderedMap.                                                 *)
(***************************************************************************)
Puts == \E k \in Key, v \in Value : Dictionary' = [Dictionary EXCEPT ![k] = v]

(***************************************************************************)
(* The dictionary after a step.                                            *)
(***************************************************************************)
LEMMA DictionaryNext == Log' => Dictionary' = [k \in Key |-> Told(Says(k)')]
<1>1. Log => Dictionary = [k \in Key |-> Told(Says(k))]
  BY DictionaryIs
<1>2. (Log => Dictionary = [k \in Key |-> Told(Says(k))])'
  BY <1>1, PTL
<1> QED BY <1>2

(***************************************************************************)
(* A step that is silent stutters, one that tells puts.                    *)
(***************************************************************************)
LEMMA LogPuts ==
    ASSUME Log, Log', Silent \/ (Tells /\ entry[1] \in Key /\ entry[2] \in Value)
    PROVE  Puts \/ Dictionary' = Dictionary
<1>1. Dictionary = [k \in Key |-> Told(Says(k))]
  BY DictionaryIs
<1>2. Dictionary' = [k \in Key |-> Told(Says(k)')]
  BY DictionaryNext
<1>3. CASE Silent
  BY <1>1, <1>2, <1>3 DEF Silent
<1>4. CASE Tells /\ entry[1] \in Key /\ entry[2] \in Value
  <2>1. PICK e, v : e = entry[1] /\ v = entry[2]
    OBVIOUS
  <2>2. e \in Key /\ v \in Value /\ Told({v}) = v
    BY <1>4, <2>1, ToldOne
  <2>3. \A k \in Key : Says(k)' = IF k = e THEN {v} ELSE Says(k)
    BY <1>4, <2>1 DEF Tells
  <2> HIDE DEF Told
  <2>4. \A k \in Key : Told(Says(k)') = IF k = e THEN v ELSE Told(Says(k))
    BY <2>2, <2>3
  <2>5. Dictionary' = [Dictionary EXCEPT ![e] = v]
    BY <1>1, <1>2, <2>4
  <2> QED BY <2>2, <2>5 DEF Puts
<1> QED BY <1>3, <1>4

(***************************************************************************)
(* In a tree whose keys are inserted in ascending order (the log of the    *)
(* service: timestamps, the last of which may repeat), a reader that opens *)
(* the file at any moment of any insertion, except while a root is being   *)
(* split, finds for every key the value given to it last, or one whose     *)
(* insertion was never acknowledged; also after the writer has died        *)
(* between any two stores but those of a root's split.                     *)
(***************************************************************************)
THEOREM LogReaderSearch == LogSpec => []ReaderSearch
<1>1. Init => Log
  BY LogInit
<1>2. Log /\ [Steps]_vars => Log'
  BY LogNext
<1>3. Log => ReaderSearch
  <2> SUFFICES ASSUME Log, pc \notin Torn, NEW k \in Key PROVE Search(k) \subseteq allowed[k]
    BY DEF ReaderSearch
  <2>1. SaysWhat(k) = Says(k) /\ SaysWhat(k) = Search(k)
    BY SaysIs DEF SaysWhat
  <2> QED BY <2>1 DEF Log, Truth
<1> QED BY <1>1, <1>2, <1>3, PTL DEF LogSpec, Steps

(***************************************************************************)
(* Such a tree implements the abstract dictionary of OrderedMap: of all    *)
(* the stores of one insertion exactly one changes what the tree says, and *)
(* it changes the key being inserted only.                                 *)
(***************************************************************************)
THEOREM LogImplementsMap == LogSpec => ImplementsMap
<1>1. Init => Log /\ Map!Init
  <2> SUFFICES ASSUME Init PROVE Log /\ Map!Init
    OBVIOUS
  <2>1. Log /\ \A k \in Key : Says(k) = {None}
    BY LogInit
  <2>2. Dictionary = [k \in Key |-> Told(Says(k))]
    BY <2>1, DictionaryIs
  <2>3. Told({None}) = None
    BY ToldOne
  <2>4. Dictionary = [k \in Key |-> None]
    BY <2>1, <2>2, <2>3
  <2> QED BY <2>1, <2>4 DEF Map!Init
<1>2. Log /\ [Steps]_vars => Log'
  BY LogNext
<1>3. Log /\ Log' /\ [Steps]_vars => [Map!Next]_Dictionary
  <2> SUFFICES ASSUME Log, Log', [Steps]_vars PROVE [Map!Next]_Dictionary
    OBVIOUS
  <2>1. Puts \/ Dictionary' = Dictionary
    BY LogNext, LogPuts
  <2>2. Puts => Map!Next
    BY DEF Puts, Map!Next, Map!Put
  <2> QED BY <2>1, <2>2
<1> QED BY <1>1, <1>2, <1>3, PTL DEF LogSpec, Steps, ImplementsMap, Map!Spec

-----------------------------------------------------------------------------
(***************************************************************************)
(* The children each node of a file names.                                 *)
(***************************************************************************)
Kids(file) == [n \in 1..Len(file) |-> {file[n].children[p] : p \in 1..Len(file[n].children)}]

(***************************************************************************)
(* A set of nodes that holds the children of its members.                  *)
(***************************************************************************)
ClosedIn(file, S) == \A m \in S : Kids(file)[m] \subseteq S

(***************************************************************************)
(* n is reached from s through children: every closed set with s has it.   *)
(***************************************************************************)
Linked(file, s, n) ==
    /\ n \in 1..Len(file)
    /\ \A S \in SUBSET (1..Len(file)) : s \in S /\ ClosedIn(file, S) => n \in S

(***************************************************************************)
(* Every child of a stored node is a node of the file.                     *)
(***************************************************************************)
LEMMA KidsTyped ==
    ASSUME NEW file, Stored(file)
    PROVE  /\ Kids(file) \in [1..Len(file) -> SUBSET (1..Len(file))]
           /\ \A n \in 1..Len(file) : \A c : c \in Kids(file)[n] <=>
                 \E p \in 1..Len(file[n].children) : c = file[n].children[p]
<1>1. ASSUME NEW n \in 1..Len(file), NEW p \in 1..Len(file[n].children)
      PROVE  file[n].children[p] \in 1..Len(file)
  BY <1>1, StoredFacts
<1> QED BY <1>1 DEF Kids

(***************************************************************************)
(* BelowIn, the set LatestValueReachable speaks of, is computed from the   *)
(* children as its recursion says.                                         *)
(***************************************************************************)
LEMMA BelowStep ==
    ASSUME NEW file, Stored(file)
    PROVE  \A n \in 1..Len(file) :
              BelowIn(file, n) = {n} \cup UNION {BelowIn(file, c) : c \in Kids(file)[n]}
<1> DEFINE D == 1..Len(file)
           Body(g) == [n \in DOMAIN file |->
                          {n} \cup UNION {g[file[n].children[p]] : p \in DOMAIN file[n].children}]
           below == CHOOSE g : g = Body(g)
           self == [n \in D |-> {n}]
<1>1. /\ DOMAIN file = D
      /\ \A n \in D : DOMAIN file[n].children = 1..Len(file[n].children)
  BY StoredFacts
<1>2. ASSUME NEW n \in D, NEW g
      PROVE  {g[file[n].children[p]] : p \in DOMAIN file[n].children} = {g[c] : c \in Kids(file)[n]}
  <2>1. Kids(file)[n] = {file[n].children[p] : p \in DOMAIN file[n].children}
    BY <1>1 DEF Kids
  <2> QED BY <2>1
<1>3. PICK f \in [D -> SUBSET D] : \A n \in D : f[n] = self[n] \cup UNION {f[c] : c \in Kids(file)[n]}
  <2> DEFINE s == Kids(file)
  <2>1. self \in [D -> SUBSET D]
    OBVIOUS
  <2>2. s \in [D -> SUBSET D]
    BY KidsTyped
  <2> HIDE DEF D, self, s
  <2>3. \E f \in [D -> SUBSET D] : \A n \in D : f[n] = self[n] \cup UNION {f[c] : c \in s[n]}
    BY <2>1, <2>2, Closure
  <2> QED BY <2>3 DEF s
<1>4. f = Body(f)
  <2> DEFINE k == Body(f)
  <2>1. ASSUME NEW n \in D PROVE f[n] = k[n]
    <3>1. f[n] = {n} \cup UNION {f[c] : c \in Kids(file)[n]}
      BY <1>3
    <3>2. k[n] = {n} \cup UNION {f[file[n].children[p]] : p \in DOMAIN file[n].children}
      BY <1>1
    <3>3. {f[file[n].children[p]] : p \in DOMAIN file[n].children} = {f[c] : c \in Kids(file)[n]}
      BY <1>2
    <3> QED BY <3>1, <3>2, <3>3, Zenon
  <2>2. f = [n \in D |-> f[n]] /\ k = [n \in D |-> k[n]]
    BY <1>1, <1>3
  <2> HIDE DEF k, D
  <2>3. f = k
    BY <2>1, <2>2
  <2> QED BY <2>3 DEF k
<1>5. below = Body(below)
  <2> HIDE DEF Body
  <2> QED BY <1>4
<1> HIDE DEF below
<1>6. \A n : BelowIn(file, n) = below[n]
  BY DEF BelowIn, below
<1> SUFFICES ASSUME NEW n \in D
             PROVE  BelowIn(file, n) = {n} \cup UNION {BelowIn(file, c) : c \in Kids(file)[n]}
  OBVIOUS
<1>7. below[n] = {n} \cup UNION {below[file[n].children[p]] : p \in DOMAIN file[n].children}
  BY <1>1, <1>5
<1>8. below[n] = {n} \cup UNION {below[c] : c \in Kids(file)[n]}
  <2>1. {below[file[n].children[p]] : p \in DOMAIN file[n].children} = {below[c] : c \in Kids(file)[n]}
    BY <1>2
  <2> QED BY <1>7, <2>1, Zenon
<1>9. {BelowIn(file, c) : c \in Kids(file)[n]} = {below[c] : c \in Kids(file)[n]}
  BY <1>6
<1> QED BY <1>6, <1>8, <1>9

(***************************************************************************)
(* In a file whose nodes have levels, what is linked from s is below s.    *)
(***************************************************************************)
LEMMA LinkedBelow ==
    ASSUME NEW file, Stored(file), NEW lev, Leveled(file, lev), NEW s \in 1..Len(file),
           NEW n, Linked(file, s, n)
    PROVE  n \in BelowIn(file, s)
<1> DEFINE D == 1..Len(file)
           T == {m \in D : BelowIn(file, m) \subseteq D /\ ClosedIn(file, BelowIn(file, m))}
<1>1. \A m \in D : BelowIn(file, m) = {m} \cup UNION {BelowIn(file, c) : c \in Kids(file)[m]}
  BY BelowStep
<1>2. \A m \in D : \A c \in Kids(file)[m] : c \in D /\ lev[c] < lev[m]
  <2> TAKE m \in D
  <2> TAKE c \in Kids(file)[m]
  <2>1. PICK p \in 1..Len(file[m].children) : c = file[m].children[p]
    BY KidsTyped
  <2>2. ~file[m].leaf /\ Len(file[m].children) = Len(file[m].keys) + 1
    <3>1. /\ file[m].leaf \in BOOLEAN
          /\ file[m].leaf => Len(file[m].children) = 0
          /\ ~file[m].leaf => Len(file[m].children) = Len(file[m].keys) + 1
      BY StoredFacts
    <3> QED BY <2>1, <3>1
  <2> QED BY <2>1, <2>2, WayDown
<1>3. \A m \in D : lev[m] \in Nat
  BY DEF Leveled
<1>4. ASSUME NEW m \in D, \A c \in D : lev[c] < lev[m] => c \in T PROVE m \in T
  <2> DEFINE b == BelowIn(file, m)
  <2>1. \A c \in Kids(file)[m] : c \in T /\ BelowIn(file, c) \subseteq b
    BY <1>1, <1>2, <1>4
  <2>2. \A c \in Kids(file)[m] : c \in BelowIn(file, c)
    BY <1>1, <1>2
  <2>3. b \subseteq D
    BY <1>1, <2>1
  <2>4. ASSUME NEW d \in b PROVE Kids(file)[d] \subseteq b
    <3>1. CASE d = m
      BY <2>1, <2>2, <3>1
    <3>2. CASE \E c \in Kids(file)[m] : d \in BelowIn(file, c)
      <4>1. PICK c \in Kids(file)[m] : d \in BelowIn(file, c)
        BY <3>2
      <4>2. Kids(file)[d] \subseteq BelowIn(file, c)
        BY <2>1, <4>1 DEF ClosedIn
      <4> QED BY <2>1, <4>1, <4>2
    <3> QED BY <1>1, <3>1, <3>2
  <2> QED BY <2>3, <2>4 DEF ClosedIn
<1> HIDE DEF T
<1>5. \A m \in D : m \in T
  <2> HIDE DEF D
  <2> QED BY <1>3, <1>4, LevelInduction
<1>6. BelowIn(file, s) \subseteq D /\ ClosedIn(file, BelowIn(file, s))
  BY <1>5 DEF T
<1>7. s \in BelowIn(file, s)
  BY <1>1
<1> QED BY <1>6, <1>7 DEF Linked

(***************************************************************************)
(* A node is linked from itself.                                           *)
(***************************************************************************)
LEMMA LinkedSelf ==
    ASSUME NEW file, NEW s \in 1..Len(file)
    PROVE  Linked(file, s, s)
  BY DEF Linked

(***************************************************************************)
(* Linked is transitive.                                                   *)
(***************************************************************************)
LEMMA LinkedOn ==
    ASSUME NEW file, NEW a, NEW b, NEW c, Linked(file, a, b), Linked(file, b, c)
    PROVE  Linked(file, a, c)
  BY DEF Linked

(***************************************************************************)
(* The children of a linked node are linked.                               *)
(***************************************************************************)
LEMMA LinkedKid ==
    ASSUME NEW file, Stored(file), NEW s, NEW m, Linked(file, s, m), NEW c \in Kids(file)[m]
    PROVE  Linked(file, s, c)
<1>1. m \in 1..Len(file) /\ c \in 1..Len(file)
  BY KidsTyped DEF Linked
<1> QED BY <1>1 DEF Linked, ClosedIn

(***************************************************************************)
(* g has the nodes of f, and each names at least the children it had.      *)
(***************************************************************************)
Widening(f, g) ==
    /\ 1..Len(f) \subseteq 1..Len(g)
    /\ \A m \in 1..Len(f) : Kids(f)[m] \subseteq Kids(g)[m]

(***************************************************************************)
(* A link outlives every store that only adds nodes and children.          *)
(***************************************************************************)
LEMMA LinkedWider ==
    ASSUME NEW f, Stored(f), NEW g, Widening(f, g), NEW s \in 1..Len(f), NEW n, Linked(f, s, n)
    PROVE  Linked(g, s, n)
<1>1. n \in 1..Len(g)
  BY DEF Linked, Widening
<1> SUFFICES ASSUME NEW S \in SUBSET (1..Len(g)), s \in S, ClosedIn(g, S) PROVE n \in S
  BY <1>1 DEF Linked
<1> DEFINE T == S \cap 1..Len(f)
<1>2. \A m \in T : Kids(f)[m] \subseteq T
  <2> SUFFICES ASSUME NEW m \in T, NEW c \in Kids(f)[m] PROVE c \in T
    OBVIOUS
  <2>1. c \in Kids(g)[m]
    BY DEF Widening
  <2>2. c \in 1..Len(f)
    BY KidsTyped
  <2> QED BY <2>1, <2>2 DEF ClosedIn
<1>3. n \in T
  BY <1>2 DEF Linked, ClosedIn
<1> QED BY <1>3

(***************************************************************************)
(* When one node loses children, what was linked from it still is, or is   *)
(* linked from a child it lost.                                            *)
(***************************************************************************)
LEMMA LinkedCut ==
    ASSUME NEW f, Stored(f), NEW g, Stored(g), Len(g) = Len(f), NEW r \in 1..Len(f), NEW rest,
           rest \subseteq 1..Len(f),
           \A m \in 1..Len(f) : m # r => Kids(g)[m] = Kids(f)[m],
           Kids(f)[r] \subseteq Kids(g)[r] \cup rest,
           NEW n, Linked(f, r, n)
    PROVE  Linked(g, r, n) \/ \E c \in rest : Linked(g, c, n)
<1> DEFINE T == {m \in 1..Len(f) : Linked(g, r, m) \/ \E c \in rest : Linked(g, c, m)}
<1>1. r \in T
  BY LinkedSelf
<1>2. ASSUME NEW m \in T, NEW c \in Kids(f)[m] PROVE c \in T
  <2>0. c \in 1..Len(f)
    BY KidsTyped
  <2>1. CASE c \in Kids(g)[m]
    BY <2>0, <2>1, LinkedKid
  <2>2. CASE c \in rest
    BY <2>0, <2>2, LinkedSelf
  <2> QED BY <2>1, <2>2
<1>3. T \in SUBSET (1..Len(f)) /\ ClosedIn(f, T)
  BY <1>2 DEF ClosedIn
<1>4. n \in T
  <2> HIDE DEF T
  <2> QED BY <1>1, <1>3 DEF Linked
<1> QED BY <1>4

(***************************************************************************)
(* A search could be led to n: n is linked from the root.                  *)
(***************************************************************************)
Up(n) == Linked(nodes, rootOffset, n)

(***************************************************************************)
(* The children one node names.                                            *)
(***************************************************************************)
KidsOf(nd) == {nd.children[p] : p \in 1..Len(nd.children)}

(***************************************************************************)
(* The nodes of the tree, those a split under way has cut off included:    *)
(* they are linked from the sibling, in memory or stored last, or from the *)
(* new root that the header does not name yet.                             *)
(***************************************************************************)
Tree(file, root, stage, spare, n) ==
    \/ Linked(file, root, n)
    \/ stage = "sibling" /\ \E c \in spare : Linked(file, c, n)
    \/ stage \in {"growRoot", "setRoot", "batchParent"} /\ Linked(file, Len(file), n)

(***************************************************************************)
(* The same, now.                                                          *)
(***************************************************************************)
InTree(n) == Tree(nodes, rootOffset, pc, KidsOf(sib), n)

(***************************************************************************)
(* A leaf has one of vals for the key.                                     *)
(***************************************************************************)
Has(nd, k, vals) == nd.leaf /\ \E p \in 1..Len(nd.keys) : nd.keys[p] = k /\ nd.values[p] \in vals

(***************************************************************************)
(* What is split at these stages is the root, and the new root names it    *)
(* and its sibling.                                                        *)
(***************************************************************************)
SplitOfRoot ==
    /\ pc \in {"sibling", "growRoot", "setRoot"} => at = rootOffset
    /\ pc \in {"setRoot", "adoptLeft", "adoptRight"} => nodes[Newest].children = <<at, Newest - 1>>

(***************************************************************************)
(* Only the root is flagged is_root, but while a new one takes over:       *)
(* StoreLeaf sets the root offset to a flagged leaf, and BatchLeft splits  *)
(* one as the root.                                                        *)
(***************************************************************************)
OneFlag ==
    /\ \A n \in 1..Newest :
          nodes[n].isRoot => \/ n = rootOffset
                             \/ pc = "setRoot" /\ n = Newest
                             \/ pc = "adoptLeft" /\ kind = "batch" /\ n = at
    /\ pc = "sibling" => ~sib.isRoot
    /\ kind = "insert" /\ pc \in {"sibling", "growRoot", "setRoot"} => ~nodes[at].isRoot

(***************************************************************************)
(* The stages of batch_insert are those of a batch, and the sibling it     *)
(* stored is the half the leaf is about to lose.                           *)
(***************************************************************************)
OfBatch ==
    /\ pc \in Bulky => kind = "batch"
    /\ pc = "batchLeft" => nodes[Newest] = SplitRight(nodes[at])

(***************************************************************************)
(* The node the writer descends from, or fills, is linked from the root.   *)
(***************************************************************************)
Working == pc \in {"descend", "link"} \cup Bulky => Up(at)

(***************************************************************************)
(* parent_offset, stale or not, names a node of the tree: batch_insert     *)
(* hands a separator, and a sibling, to that node.                         *)
(***************************************************************************)
ParentsUp ==
    /\ \A n \in 1..Newest : nodes[n].parent # NoParent => InTree(nodes[n].parent)
    /\ pc = "sibling" => (sib.parent # NoParent => InTree(sib.parent))

(***************************************************************************)
(* Some leaf of the tree, or the sibling in memory, has a value a search   *)
(* may return.                                                             *)
(***************************************************************************)
Found(k) ==
    \/ \E n \in 1..Newest : InTree(n) /\ Has(nodes[n], k, allowed[k])
    \/ pc = "sibling" /\ Has(sib, k, allowed[k])

(***************************************************************************)
(* Every key whose insertion has returned is found.                        *)
(***************************************************************************)
AllKept == \A k \in Key : None \notin allowed[k] => Found(k)

(***************************************************************************)
(* The invariant: no store drops a value from the tree.                    *)
(* LatestValueReachable alone is not inductive: it says nothing between    *)
(* operations, of the half that a split holds, or of the parents a batch   *)
(* will use.                                                               *)
(***************************************************************************)
Held == SplitOfRoot /\ OneFlag /\ OfBatch /\ Working /\ ParentsUp /\ AllKept

(***************************************************************************)
(* Nodes that keep their children keep their links.                        *)
(***************************************************************************)
LEMMA WideKids ==
    ASSUME NEW f, NEW g, Len(f) \in Nat, Len(g) \in Nat, Len(f) <= Len(g),
           \A m \in 1..Len(f) : g[m].children = f[m].children
    PROVE  Widening(f, g) /\ \A m \in 1..Len(f) : Kids(g)[m] = Kids(f)[m]
<1>1. 1..Len(f) \subseteq 1..Len(g)
  OBVIOUS
<1>2. \A m \in 1..Len(f) : Kids(g)[m] = Kids(f)[m]
  BY <1>1 DEF Kids
<1> QED BY <1>1, <1>2 DEF Widening

(***************************************************************************)
(* g is f and a node nd.                                                   *)
(***************************************************************************)
Adds(f, nd, g) ==
    /\ Len(f) \in Nat /\ Len(g) = Len(f) + 1 /\ g[Len(f) + 1] = nd
    /\ \A m \in 1..Len(f) : g[m] = f[m]
    /\ Widening(f, g)
    /\ Kids(g)[Len(f) + 1] = KidsOf(nd)

(***************************************************************************)
(* Storing a new node adds it and widens the file.                         *)
(***************************************************************************)
LEMMA AppendedWide ==
    ASSUME NEW f, Stored(f), NEW nd, NEW g, g = Append(f, nd)
    PROVE  Adds(f, nd, g)
<1>1. /\ Len(f) \in Nat /\ Len(g) = Len(f) + 1 /\ g[Len(f) + 1] = nd
      /\ \A m \in 1..Len(f) : g[m] = f[m]
  <2>1. f \in Seq(Node(Len(f)))
    BY DEF Stored
  <2> DEFINE T == Node(Len(f)) \cup {nd}
  <2>2. f \in Seq(T) /\ nd \in T
    <3>1. \A S : \A s \in Seq(Node(Len(f))) : Node(Len(f)) \subseteq S => s \in Seq(S)
      OBVIOUS
    <3> QED BY <2>1, <3>1
  <2> HIDE DEF T
  <2> QED BY <2>2
<1>2. Len(g) \in Nat /\ Len(f) <= Len(g) /\ \A m \in 1..Len(f) : g[m].children = f[m].children
  BY <1>1
<1>3. Widening(f, g)
  BY <1>1, <1>2, WideKids
<1>4. Kids(g)[Len(f) + 1] = KidsOf(nd)
  BY <1>1 DEF Kids, KidsOf
<1> QED BY <1>1, <1>3, <1>4 DEF Adds

(***************************************************************************)
(* g is f with nd at n.                                                    *)
(***************************************************************************)
Alters(f, n, nd, g) ==
    /\ Len(f) \in Nat /\ Len(g) = Len(f) /\ g[n] = nd
    /\ \A m \in 1..Len(f) : m # n => g[m] = f[m]
    /\ Widening(f, g)

(***************************************************************************)
(* What is linked from a child is linked from its parent.                  *)
(***************************************************************************)
LEMMA ThroughKid ==
    ASSUME NEW f, NEW m \in 1..Len(f), NEW c \in 1..Len(f), c \in Kids(f)[m], NEW n, Linked(f, c, n)
    PROVE  Linked(f, m, n)
<1>1. \A S \in SUBSET (1..Len(f)) : m \in S /\ ClosedIn(f, S) => c \in S
  BY DEF ClosedIn
<1>2. Linked(f, m, c)
  BY <1>1 DEF Linked
<1> QED BY <1>2, LinkedOn

(***************************************************************************)
(* Storing the sibling of a root: what was linked from it in memory is     *)
(* linked from the last node.                                              *)
(***************************************************************************)
LEMMA HeldRootSibling ==
    ASSUME NEW lev, Shape(lev), Held, RootSibling
    PROVE  Held'
<1> DEFINE N == Len(nodes)
           After(n) == Tree(nodes', rootOffset', pc', KidsOf(sib'), n)
<1>1. /\ pc = "sibling" /\ pc' = "growRoot" /\ nodes' = Append(nodes, sib)
      /\ rootOffset' = rootOffset /\ at' = at /\ kind' = kind /\ allowed' = allowed
  BY DEF RootSibling, locals
<1>2. Stored(nodes) /\ rootOffset \in 1..N /\ at \in 1..N /\ sib \in Node(N) /\ WellFormed(sib)
  BY <1>1 DEF Shape, Newest, Fits
<1>3. /\ N \in Nat /\ Len(nodes') = N + 1 /\ nodes'[N + 1] = sib
      /\ \A m \in 1..N : nodes'[m] = nodes[m]
      /\ Widening(nodes, nodes') /\ Kids(nodes')[N + 1] = KidsOf(sib)
  <2>1. Adds(nodes, sib, nodes')
    BY <1>1, <1>2, AppendedWide
  <2> QED BY <2>1 DEF Adds
<1>4. KidsOf(sib) \subseteq 1..N
  <2>1. \A p \in 1..Len(sib.children) : sib.children[p] \in 1..N
    BY <1>2, <1>3, NodeFields
  <2> QED BY <2>1 DEF KidsOf
<1>5. N + 1 \in 1..Len(nodes') /\ 1..N \subseteq 1..Len(nodes')
      /\ \A n \in 1..Len(nodes') : n \in 1..N \/ n = N + 1
  BY <1>3
<1> HIDE DEF N
<1>6. \A n : Linked(nodes', N + 1, n) \/ Linked(nodes', rootOffset, n) => After(n)
  BY <1>1, <1>3 DEF Tree
<1> HIDE DEF After
<1>7. \A n : InTree(n) => After(n)
  <2> SUFFICES ASSUME NEW n, InTree(n) PROVE After(n)
    OBVIOUS
  <2>1. CASE Linked(nodes, rootOffset, n)
    <3>1. Linked(nodes', rootOffset, n)
      BY <1>2, <1>3, <2>1, LinkedWider DEF N
    <3> QED BY <1>6, <3>1
  <2>2. CASE \E c \in KidsOf(sib) : Linked(nodes, c, n)
    <3>1. PICK c \in KidsOf(sib) : Linked(nodes, c, n)
      BY <2>2
    <3>2. Linked(nodes', c, n)
      BY <1>2, <1>3, <1>4, <3>1, LinkedWider DEF N
    <3>3. Linked(nodes', N + 1, n)
      BY <1>3, <1>4, <1>5, <3>2, ThroughKid
    <3> QED BY <1>6, <3>3
  <2> QED BY <1>1, <2>1, <2>2 DEF InTree, Tree
<1>8. After(N + 1)
  BY <1>5, <1>6, LinkedSelf
<1>9. SplitOfRoot'
  BY <1>1 DEF Held, SplitOfRoot
<1>10. OneFlag'
  BY <1>1, <1>2, <1>3, <1>5 DEF Held, OneFlag, Newest, N
<1>11. OfBatch' /\ Working'
  BY <1>1 DEF OfBatch, Working, Bulky
<1>12. ParentsUp'
  <2>1. \A n \in 1..N : nodes[n].parent # NoParent => InTree(nodes[n].parent)
    BY DEF Held, ParentsUp, Newest, N
  <2>2. sib.parent # NoParent => InTree(sib.parent)
    BY <1>1 DEF Held, ParentsUp
  <2>3. \A n \in 1..Len(nodes') : nodes'[n].parent # NoParent => After(nodes'[n].parent)
    BY <1>3, <1>5, <1>7, <2>1, <2>2
  <2> QED BY <1>1, <2>3 DEF ParentsUp, InTree, After, Newest
<1>13. ASSUME NEW k \in Key, None \notin allowed[k]
       PROVE  \E n \in 1..Len(nodes') : After(n) /\ Has(nodes'[n], k, allowed'[k])
  <2>1. Found(k)
    BY <1>13 DEF Held, AllKept
  <2>2. CASE \E n \in 1..N : InTree(n) /\ Has(nodes[n], k, allowed[k])
    BY <1>1, <1>3, <1>5, <1>7, <2>2
  <2>3. CASE Has(sib, k, allowed[k])
    BY <1>1, <1>3, <1>5, <1>8, <2>3
  <2> QED BY <2>1, <2>2, <2>3 DEF Found, Newest, N
<1>14. AllKept'
  BY <1>1, <1>13 DEF AllKept, Found, InTree, After, Newest
<1> QED BY <1>9, <1>10, <1>11, <1>12, <1>14 DEF Held

(***************************************************************************)
(* A store over n that keeps its children.                                 *)
(***************************************************************************)
MayAlter(f, n, nd, g) ==
    /\ Stored(f) /\ n \in 1..Len(f)
    /\ KidsOf(f[n]) \subseteq KidsOf(nd)
    /\ g = [f EXCEPT ![n] = nd]

(***************************************************************************)
(* Such a store widens the file.                                           *)
(***************************************************************************)
LEMMA Altered ==
    ASSUME NEW f, NEW n, NEW nd, NEW g, MayAlter(f, n, nd, g)
    PROVE  Alters(f, n, nd, g) /\ Kids(g)[n] = KidsOf(nd)
<1>0. Stored(f) /\ n \in 1..Len(f) /\ KidsOf(f[n]) \subseteq KidsOf(nd) /\ g = [f EXCEPT ![n] = nd]
  BY DEF MayAlter
<1>1. /\ Len(f) \in Nat /\ Len(g) = Len(f) /\ g[n] = nd
      /\ \A m \in 1..Len(f) : m # n => g[m] = f[m]
  <2> DEFINE T == Node(Len(f)) \cup {nd}
  <2>1. f \in Seq(T) /\ nd \in T
    <3>1. f \in Seq(Node(Len(f)))
      BY <1>0 DEF Stored
    <3>2. \A S : \A s \in Seq(Node(Len(f))) : Node(Len(f)) \subseteq S => s \in Seq(S)
      OBVIOUS
    <3> QED BY <3>1, <3>2
  <2> HIDE DEF T
  <2> QED BY <1>0, <2>1
<1>2. \A m \in 1..Len(f) : Kids(f)[m] = KidsOf(f[m]) /\ Kids(g)[m] = KidsOf(g[m])
  BY <1>1 DEF Kids, KidsOf
<1>3. Widening(f, g)
  <2>1. ASSUME NEW m \in 1..Len(f) PROVE KidsOf(f[m]) \subseteq KidsOf(g[m])
    <3>1. CASE m = n
      BY <1>0, <1>1, <3>1, Zenon
    <3>2. CASE m # n
      <4>1. g[m] = f[m]
        BY <1>1, <3>2
      <4> QED BY <4>1
    <3> QED BY <3>1, <3>2
  <2>2. \A m \in 1..Len(f) : Kids(f)[m] \subseteq Kids(g)[m]
    BY <1>2, <2>1
  <2>3. 1..Len(f) \subseteq 1..Len(g)
    BY <1>1
  <2> QED BY <2>2, <2>3, Zenon DEF Widening
<1>4. Kids(g)[n] = KidsOf(nd)
  BY <1>0, <1>1, <1>2
<1>5. Alters(f, n, nd, g)
  BY <1>1, <1>3, Zenon DEF Alters
<1> QED BY <1>4, <1>5

(***************************************************************************)
(* The nodes of the tree after the step.                                   *)
(***************************************************************************)
After(n) == Tree(nodes', rootOffset', pc', KidsOf(sib'), n)

(***************************************************************************)
(* A step that widens the file, and does not move the root, keeps the      *)
(* tree.                                                                   *)
(***************************************************************************)
LEMMA StaysInTree ==
    ASSUME Stored(nodes), rootOffset \in 1..Newest, rootOffset' = rootOffset,
           Widening(nodes, nodes'), NEW n
    PROVE  /\ Up(n) => Linked(nodes', rootOffset', n) /\ After(n)
           /\ pc \notin Torn /\ InTree(n) => After(n)
<1>1. ASSUME Up(n) PROVE Linked(nodes', rootOffset', n) /\ After(n)
  <2>1. Linked(nodes', rootOffset, n)
    BY <1>1, LinkedWider DEF Up, Newest
  <2> QED BY <2>1 DEF After, Tree
<1>2. pc \notin Torn /\ InTree(n) => Up(n)
  BY DEF Torn, InTree, Tree, Up
<1> QED BY <1>1, <1>2

(***************************************************************************)
(* After a step that changes node m at most, the key k is found if it was. *)
(***************************************************************************)
KeepsKey(m, k) ==
    \/ \E q \in 1..Len(nodes') : After(q) /\ Has(nodes'[q], k, allowed'[k])
    \/ /\ None \notin allowed[k] /\ allowed[k] \subseteq allowed'[k]
       /\ \/ m \notin 1..Newest
          \/ Has(nodes[m], k, allowed[k]) => Has(nodes'[m], k, allowed'[k])

(***************************************************************************)
(* A step that changes node m at most keeps the tree, its parents and its  *)
(* values.                                                                 *)
(***************************************************************************)
Carries(m) ==
    /\ Newest \in Nat
    /\ pc # "sibling" /\ pc' # "sibling"
    /\ \A n : InTree(n) => After(n)
    /\ m \in 1..Len(nodes')
    /\ 1..Newest \subseteq 1..Len(nodes')
    /\ \A n \in 1..Len(nodes') : n = m \/ n \in 1..Newest
    /\ \A n \in 1..Newest : n # m => nodes'[n] = nodes[n]
    /\ nodes'[m].parent = NoParent \/ After(nodes'[m].parent)
           \/ \E q \in 1..Newest : nodes'[m].parent = nodes[q].parent
    /\ \A k \in Key : None \notin allowed'[k] => KeepsKey(m, k)

(***************************************************************************)
(* Such a step keeps ParentsUp and AllKept.                                *)
(***************************************************************************)
LEMMA Carried ==
    ASSUME Held, NEW m, Carries(m)
    PROVE  ParentsUp' /\ AllKept'
<1>1. ASSUME NEW n \in 1..Len(nodes'), nodes'[n].parent # NoParent PROVE After(nodes'[n].parent)
  <2>1. \A q \in 1..Newest : nodes[q].parent # NoParent => After(nodes[q].parent)
    BY DEF Held, ParentsUp, Carries
  <2> QED BY <1>1, <2>1 DEF Carries
<1>2. ASSUME NEW k \in Key, None \notin allowed'[k]
      PROVE  \E n \in 1..Len(nodes') : After(n) /\ Has(nodes'[n], k, allowed'[k])
  <2>1. KeepsKey(m, k)
    BY <1>2 DEF Carries
  <2> SUFFICES ASSUME None \notin allowed[k], allowed[k] \subseteq allowed'[k],
                      m \notin 1..Newest \/ (Has(nodes[m], k, allowed[k]) => Has(nodes'[m], k, allowed'[k]))
               PROVE  \E n \in 1..Len(nodes') : After(n) /\ Has(nodes'[n], k, allowed'[k])
    BY <2>1 DEF KeepsKey
  <2>2. PICK n \in 1..Newest : InTree(n) /\ Has(nodes[n], k, allowed[k])
    BY DEF Held, AllKept, Found, Carries
  <2>3. n \in 1..Len(nodes') /\ After(n)
    BY <2>2 DEF Carries
  <2>4. Has(nodes'[n], k, allowed'[k])
    <3>1. CASE n = m
      BY <2>2, <3>1
    <3>2. CASE n # m
      <4>1. nodes'[n] = nodes[n]
        BY <3>2 DEF Carries
      <4> QED BY <2>2, <4>1 DEF Has
    <3> QED BY <3>1, <3>2
  <2> QED BY <2>3, <2>4
<1>3. ParentsUp'
  BY <1>1 DEF ParentsUp, InTree, After, Newest, Carries
<1>4. AllKept'
  BY <1>2 DEF AllKept, Found, InTree, After, Newest, Carries
<1> QED BY <1>3, <1>4

(***************************************************************************)
(* The old root loses its flag and gets the new root for its parent.       *)
(***************************************************************************)
LEMMA HeldAdoptLeft ==
    ASSUME NEW lev, Shape(lev), Held, AdoptLeft
    PROVE  Held'
<1> DEFINE nd == [nodes[at] EXCEPT !.isRoot = FALSE, !.parent = rootOffset]
<1>1. /\ pc = "adoptLeft" /\ pc' = "adoptRight" /\ nodes' = [nodes EXCEPT ![at] = nd]
      /\ rootOffset' = rootOffset /\ at' = at /\ kind' = kind /\ sib' = sib /\ allowed' = allowed
  BY DEF AdoptLeft, locals
<1>2. Stored(nodes) /\ rootOffset \in 1..Newest /\ at \in 1..Newest /\ Newest \in Nat
      /\ nodes[at] \in Node(Newest) /\ rootOffset = Newest
  BY <1>1, StoredFacts DEF Shape, Newest, Fits
<1>3. /\ nd.leaf = nodes[at].leaf /\ nd.keys = nodes[at].keys /\ nd.values = nodes[at].values
      /\ nd.children = nodes[at].children /\ nd.isRoot = FALSE /\ nd.parent = rootOffset
  BY <1>2 DEF Node
<1> HIDE DEF nd
<1>4. Alters(nodes, at, nd, nodes')
  <2>1. KidsOf(nodes[at]) \subseteq KidsOf(nd)
    BY <1>3 DEF KidsOf
  <2>2. MayAlter(nodes, at, nd, nodes')
    BY <1>1, <1>2, <2>1, Zenon DEF MayAlter, Newest
  <2> QED BY <2>2, Altered
<1>5. /\ Len(nodes') = Newest /\ nodes'[at] = nd /\ \A m \in 1..Newest : m # at => nodes'[m] = nodes[m]
      /\ Widening(nodes, nodes')
  BY <1>4 DEF Alters, Newest
<1>6. Carries(at)
  <2>1. \A n : InTree(n) => After(n)
    BY <1>1, <1>2, <1>5, StaysInTree DEF Torn
  <2>2. Up(rootOffset)
    BY <1>2, LinkedSelf DEF Up, Newest
  <2>3. After(nodes'[at].parent)
    BY <1>1, <1>2, <1>3, <1>5, <2>2, StaysInTree
  <2>4. \A k \in Key : None \notin allowed'[k] => KeepsKey(at, k)
    BY <1>1, <1>3, <1>5 DEF KeepsKey, Has
  <2> QED BY <1>1, <1>2, <1>5, <2>1, <2>3, <2>4 DEF Carries
<1>7. SplitOfRoot'
  <2>1. nodes'[Newest].children = nodes[Newest].children
    BY <1>2, <1>3, <1>5
  <2> QED BY <1>1, <1>5, <2>1 DEF Held, SplitOfRoot, Newest
<1>8. OneFlag'
  BY <1>1, <1>3, <1>5 DEF Held, OneFlag, Newest
<1>9. OfBatch' /\ Working'
  BY <1>1 DEF OfBatch, Working, Bulky
<1> QED BY <1>6, <1>7, <1>8, <1>9, Carried DEF Held

(***************************************************************************)
(* The sibling of the old root gets the new root for its parent; the       *)
(* writer goes on at the root, or a batch at one of its two children.      *)
(***************************************************************************)
LEMMA HeldAdoptRight ==
    ASSUME NEW lev, Shape(lev), Held, AdoptRight
    PROVE  Held'
<1> DEFINE m == Newest - 1
           nd == [nodes[m] EXCEPT !.parent = rootOffset]
<1>1. /\ pc = "adoptRight" /\ pc' \in {"descend", "batchPut"} /\ nodes' = [nodes EXCEPT ![m] = nd]
      /\ rootOffset' = rootOffset /\ kind' = kind /\ sib' = NewLeaf /\ allowed' = allowed
      /\ at' \in {rootOffset, at, m} /\ (pc' = "batchPut" => kind = "batch")
  BY DEF AdoptRight, Half, Newest
<1>2. Stored(nodes) /\ rootOffset \in 1..Newest /\ at \in 1..Newest /\ Newest \in Nat
      /\ 1 < Newest /\ rootOffset = Newest
  BY <1>1, StoredFacts DEF Shape, Newest, Fits
<1>3. m \in 1..Newest /\ m # Newest /\ nodes[m] \in Node(Newest)
  <2>1. m \in 1..Newest /\ m # Newest
    BY <1>2
  <2> QED BY <1>2, <2>1, StoredFacts DEF Newest
<1>4. /\ nd.leaf = nodes[m].leaf /\ nd.keys = nodes[m].keys /\ nd.values = nodes[m].values
      /\ nd.children = nodes[m].children /\ nd.isRoot = nodes[m].isRoot /\ nd.parent = rootOffset
  BY <1>3 DEF Node
<1>5. at \in Kids(nodes)[Newest] /\ m \in Kids(nodes)[Newest]
  <2>1. nodes[Newest].children = <<at, m>>
    BY <1>1 DEF Held, SplitOfRoot
  <2>2. {<<at, m>>[p] : p \in 1..Len(<<at, m>>)} = {at, m}
    <3>1. Len(<<at, m>>) = 2 /\ 1..2 = {1, 2} /\ <<at, m>>[1] = at /\ <<at, m>>[2] = m
      OBVIOUS
    <3> QED BY <3>1
  <2>3. Newest \in 1..Len(nodes)
    BY <1>2 DEF Newest
  <2>4. Kids(nodes)[Newest] = {<<at, m>>[p] : p \in 1..Len(<<at, m>>)}
    BY <2>1, <2>3 DEF Kids
  <2> QED BY <2>2, <2>4
<1> HIDE DEF nd, m
<1>6. Alters(nodes, m, nd, nodes')
  <2>1. KidsOf(nodes[m]) \subseteq KidsOf(nd)
    BY <1>4 DEF KidsOf
  <2>2. MayAlter(nodes, m, nd, nodes')
    BY <1>1, <1>2, <1>3, <2>1, Zenon DEF MayAlter, Newest
  <2> QED BY <2>2, Altered
<1>7. /\ Len(nodes') = Newest /\ nodes'[m] = nd /\ \A n \in 1..Newest : n # m => nodes'[n] = nodes[n]
      /\ Widening(nodes, nodes')
  BY <1>6 DEF Alters, Newest
<1>8. Up(rootOffset) /\ Up(at) /\ Up(m)
  <2>1. Linked(nodes, rootOffset, Newest)
    BY <1>2, LinkedSelf DEF Newest
  <2> QED BY <1>2, <1>5, <2>1, LinkedKid DEF Up
<1>9. Carries(m)
  <2>1. \A n : InTree(n) => After(n)
    BY <1>1, <1>2, <1>7, StaysInTree DEF Torn
  <2>3. After(nodes'[m].parent)
    BY <1>1, <1>2, <1>4, <1>7, <1>8, StaysInTree
  <2>4. \A k \in Key : None \notin allowed'[k] => KeepsKey(m, k)
    BY <1>1, <1>4, <1>7 DEF KeepsKey, Has
  <2> QED BY <1>1, <1>2, <1>3, <1>7, <2>1, <2>3, <2>4 DEF Carries
<1>10. SplitOfRoot' /\ OfBatch'
  BY <1>1 DEF SplitOfRoot, OfBatch, Bulky
<1>11. OneFlag'
  <2>1. \A n \in 1..Newest : nodes'[n].isRoot = nodes[n].isRoot
    BY <1>4, <1>7
  <2> QED BY <1>1, <1>7, <2>1 DEF Held, OneFlag, Newest
<1>12. Working'
  <2>1. Linked(nodes', rootOffset', at')
    BY <1>1, <1>2, <1>7, <1>8, StaysInTree
  <2> QED BY <2>1 DEF Working, Up
<1> QED BY <1>9, <1>10, <1>11, <1>12, Carried DEF Held

(***************************************************************************)
(* A descent, or the sibling of a full child stored: no node names it yet, *)
(* and the child has all it had.                                           *)
(***************************************************************************)
LEMMA HeldDescend ==
    ASSUME NEW lev, Shape(lev), Held, Descend
    PROVE  Held'
<1>1. /\ pc = "descend" /\ ~nodes[at].leaf
      /\ rootOffset' = rootOffset /\ kind' = kind /\ sib' = sib /\ allowed' = allowed
  BY DEF Descend
<1>2. Stored(nodes) /\ rootOffset \in 1..Newest /\ at \in 1..Newest /\ Newest \in Nat /\ Up(at)
  BY <1>1, StoredFacts DEF Shape, Newest, Held, Working
<1>3. PICK p \in Positions(nodes[at].keys, entry[1]) :
         LET child == nodes[nodes[at].children[p]] IN
         \/ /\ ~IsFull(child)
            /\ at' = nodes[at].children[p]
            /\ UNCHANGED <<nodes, pc, slot>>
         \/ /\ IsFull(child)
            /\ nodes' = Append(nodes, SplitRight(child))
            /\ slot' = p
            /\ pc' = "link"
            /\ UNCHANGED at
  BY DEF Descend
<1> DEFINE c == nodes[at].children[p]
<1>4. p \in 1..Len(nodes[at].children) /\ c \in 1..Newest
  <2>1. Len(nodes[at].keys) \in Nat
    BY <1>2, StoredFacts DEF Newest
  <2>2. p \in 1..(Len(nodes[at].keys) + 1)
    BY <2>1, PositionsIn
  <2> QED BY <1>1, <1>2, <2>2, StoredFacts DEF Newest
<1>5. Up(c)
  <2>1. c \in Kids(nodes)[at]
    BY <1>2, <1>4 DEF Kids, Newest
  <2> QED BY <1>2, <2>1, LinkedKid DEF Up
<1> HIDE DEF c
<1>6. CASE at' = c /\ UNCHANGED <<nodes, pc, slot>>
  <2>1. Widening(nodes, nodes')
    BY <1>6 DEF Widening
  <2>2. Carries(at)
    <3>1. \A n : InTree(n) => After(n)
      BY <1>1, <1>2, <2>1, StaysInTree DEF Torn
    <3>2. \A k \in Key : None \notin allowed'[k] => KeepsKey(at, k)
      BY <1>1, <1>6 DEF KeepsKey, Has
    <3> QED BY <1>1, <1>2, <1>6, <3>1, <3>2 DEF Carries, Newest
  <2>3. SplitOfRoot' /\ OfBatch'
    BY <1>1, <1>6 DEF SplitOfRoot, OfBatch, Bulky
  <2>4. OneFlag'
    BY <1>1, <1>6 DEF Held, OneFlag, Newest
  <2>5. Working'
    BY <1>1, <1>5, <1>6 DEF Working, Up
  <2> QED BY <2>2, <2>3, <2>4, <2>5, Carried DEF Held
<1>7. CASE IsFull(nodes[c]) /\ nodes' = Append(nodes, SplitRight(nodes[c])) /\ pc' = "link" /\ UNCHANGED at
  <2> DEFINE nd == SplitRight(nodes[c])
  <2>1. /\ nd.isRoot = FALSE /\ nd.parent = nodes[c].parent
    BY <1>2, <1>4, <1>7, StoredFacts, SplitRightFacts DEF Newest
  <2> HIDE DEF nd
  <2>2. Adds(nodes, nd, nodes')
    BY <1>2, <1>7, AppendedWide DEF nd
  <2>3. /\ Len(nodes') = Newest + 1 /\ nodes'[Newest + 1] = nd
        /\ \A n \in 1..Newest : nodes'[n] = nodes[n]
        /\ Widening(nodes, nodes')
    BY <2>2 DEF Adds, Newest
  <2>4. /\ Newest + 1 \in 1..Len(nodes') /\ 1..Newest \subseteq 1..Len(nodes')
        /\ \A n \in 1..Len(nodes') : n = Newest + 1 \/ n \in 1..Newest
        /\ Newest + 1 \notin 1..Newest
    BY <1>2, <2>3
  <2>5. Carries(Newest + 1)
    <3>1. \A n : InTree(n) => After(n)
      BY <1>1, <1>2, <2>3, StaysInTree DEF Torn
    <3>2. \A k \in Key : None \notin allowed'[k] => KeepsKey(Newest + 1, k)
      BY <1>1, <2>4 DEF KeepsKey
    <3>3. \E q \in 1..Newest : nodes'[Newest + 1].parent = nodes[q].parent
      BY <1>4, <2>1, <2>3
    <3> QED BY <1>1, <1>2, <1>7, <2>3, <2>4, <3>1, <3>2, <3>3 DEF Carries
  <2>6. SplitOfRoot' /\ OfBatch'
    BY <1>7 DEF SplitOfRoot, OfBatch, Bulky
  <2>7. OneFlag'
    <3>1. \A n \in 1..Len(nodes') : nodes'[n].isRoot => n = rootOffset
      BY <1>1, <2>1, <2>3, <2>4 DEF Held, OneFlag
    <3> QED BY <1>1, <1>7, <3>1 DEF OneFlag, Newest
  <2>8. Working'
    <3>1. Linked(nodes', rootOffset', at)
      BY <1>1, <1>2, <2>3, StaysInTree
    <3> QED BY <1>7, <3>1 DEF Working, Up
  <2> QED BY <2>5, <2>6, <2>7, <2>8, Carried DEF Held
<1> QED BY <1>3, <1>6, <1>7 DEF c

(***************************************************************************)
(* nd is old with one more child.                                          *)
(***************************************************************************)
HasKid(N, old, c, nd) ==
    /\ nd \in Node(N) /\ WellFormed(nd)
    /\ nd.leaf = FALSE /\ nd.isRoot = old.isRoot /\ nd.parent = old.parent
    /\ KidsOf(old) \subseteq KidsOf(nd)
    /\ c \in KidsOf(nd)

(***************************************************************************)
(* LinkAt keeps the children of a node and adds one.                       *)
(***************************************************************************)
LEMMA LinkedKids ==
    ASSUME NEW N, NEW old, NEW p, NEW sep, NEW c, NEW nd, MayLink(N, old, p, sep, c, nd)
    PROVE  HasKid(N, old, c, nd)
<1>0. HasLinked(N, old, p, sep, c, nd)
  BY LinkFacts
<1> DEFINE len == Len(old.keys)
<1>1. /\ nd.leaf = FALSE /\ nd.isRoot = old.isRoot /\ nd.parent = old.parent
      /\ nd \in Node(N) /\ WellFormed(nd)
      /\ Len(nd.children) = len + 2 /\ Len(old.children) = len + 1 /\ len \in Nat
      /\ \A i \in 1..p : nd.children[i] = old.children[i]
      /\ nd.children[p + 1] = c
      /\ \A i \in (p + 2)..(len + 2) : nd.children[i] = old.children[i - 1]
  <2>1. old.keys \in Seq(Key) /\ Len(old.children) = Len(old.keys) + 1
    BY DEF Node, WellFormed, MayLink
  <2> QED BY <1>0, <2>1 DEF HasLinked
<1>2. p \in 1..(len + 1)
  BY DEF MayLink
<1> HIDE DEF len
<1>3. ASSUME NEW i \in 1..(len + 1) PROVE \E j \in 1..(len + 2) : nd.children[j] = old.children[i]
  <2>1. CASE i <= p
    <3>1. i \in 1..p /\ i \in 1..(len + 2)
      BY <1>1, <1>2, <2>1
    <3> QED BY <1>1, <3>1
  <2>2. CASE p < i
    <3>1. i + 1 \in (p + 2)..(len + 2) /\ i + 1 \in 1..(len + 2) /\ (i + 1) - 1 = i
      BY <1>1, <1>2, <2>2
    <3> QED BY <1>1, <3>1
  <2> QED BY <1>1, <1>2, <2>1, <2>2
<1>4. p + 1 \in 1..(len + 2)
  BY <1>1, <1>2
<1>5. KidsOf(old) \subseteq KidsOf(nd) /\ c \in KidsOf(nd)
  BY <1>1, <1>3, <1>4 DEF KidsOf
<1> QED BY <1>1, <1>5 DEF HasKid

(***************************************************************************)
(* The parent names the sibling: all that was linked is, and the sibling   *)
(* too.                                                                    *)
(***************************************************************************)
LEMMA HeldLinkSibling ==
    ASSUME NEW lev, Shape(lev), Held, LinkSibling
    PROVE  Held'
<1> DEFINE c == nodes[at].children[slot]
           sep == SplitMedian(nodes[c])
           nd == LinkAt(nodes[at], slot, sep, Newest)
<1>1. /\ pc = "link" /\ pc' = "descend" /\ nodes' = [nodes EXCEPT ![at] = nd]
      /\ at' \in {c, Newest}
      /\ rootOffset' = rootOffset /\ kind' = kind /\ sib' = sib /\ allowed' = allowed
  <2>1. /\ nodes' = [nodes EXCEPT ![at] = LinkAt(@, slot, sep, Len(nodes))]
        /\ at' = IF entry[1] < sep THEN c ELSE Len(nodes)
    BY Zenon DEF LinkSibling
  <2>2. nodes' = [nodes EXCEPT ![at] = nd]
    BY <2>1, Zenon DEF Newest
  <2>3. at' \in {c, Newest}
    BY <2>1 DEF Newest
  <2> QED BY <2>2, <2>3 DEF LinkSibling
<1>2. /\ Stored(nodes) /\ rootOffset \in 1..Newest /\ at \in 1..Newest /\ Newest \in Nat /\ Up(at)
      /\ slot \in 1..Len(nodes[at].children) /\ IsFull(nodes[c])
      /\ nodes[at] \in Node(Newest) /\ WellFormed(nodes[at])
  BY <1>1, StoredFacts DEF Shape, Newest, Held, Working, Fits
<1>3. c \in 1..Newest /\ Newest \in 1..Newest /\ ~nodes[at].leaf
      /\ slot \in 1..(Len(nodes[at].keys) + 1) /\ sep \in Key
  <2>1. c \in 1..Newest /\ Newest \in 1..Newest /\ ~nodes[at].leaf
        /\ slot \in 1..(Len(nodes[at].keys) + 1)
    <3>1. /\ nodes[at].leaf \in BOOLEAN
          /\ nodes[at].leaf => Len(nodes[at].children) = 0
          /\ ~nodes[at].leaf => Len(nodes[at].children) = Len(nodes[at].keys) + 1
          /\ \A p \in 1..Len(nodes[at].children) : nodes[at].children[p] \in 1..Newest
      BY <1>2, StoredFacts DEF Newest
    <3> HIDE DEF nd, sep
    <3> QED BY <1>2, <3>1
  <2> QED BY <1>2, <2>1, StoredFacts, MedianIsKey DEF Newest
<1>4. HasKid(Newest, nodes[at], Newest, nd)
  BY <1>2, <1>3, LinkedKids DEF MayLink
<1> HIDE DEF c, sep, nd
<1>5. /\ nd.leaf = FALSE /\ nd.isRoot = nodes[at].isRoot /\ nd.parent = nodes[at].parent
      /\ KidsOf(nodes[at]) \subseteq KidsOf(nd) /\ Newest \in KidsOf(nd) /\ c \in KidsOf(nodes[at])
  <2>1. c \in KidsOf(nodes[at])
    BY <1>2 DEF KidsOf, c
  <2> QED BY <1>4, <2>1 DEF HasKid
<1>6. Alters(nodes, at, nd, nodes') /\ Kids(nodes')[at] = KidsOf(nd)
  <2>1. MayAlter(nodes, at, nd, nodes')
    BY <1>1, <1>2, <1>5, Zenon DEF MayAlter, Newest
  <2> QED BY <2>1, Altered
<1>7. /\ Len(nodes') = Newest /\ nodes'[at] = nd /\ \A n \in 1..Newest : n # at => nodes'[n] = nodes[n]
      /\ Widening(nodes, nodes')
  BY <1>6 DEF Alters, Newest
<1>8. Carries(at)
  <2>1. \A n : InTree(n) => After(n)
    BY <1>1, <1>2, <1>7, StaysInTree DEF Torn
  <2>2. \A k \in Key : None \notin allowed'[k] => KeepsKey(at, k)
    BY <1>1, <1>3 DEF KeepsKey, Has
  <2>3. \E q \in 1..Newest : nodes'[at].parent = nodes[q].parent
    BY <1>2, <1>5, <1>7
  <2> QED BY <1>1, <1>2, <1>7, <2>1, <2>2, <2>3 DEF Carries
<1>9. SplitOfRoot' /\ OfBatch'
  BY <1>1 DEF SplitOfRoot, OfBatch, Bulky
<1>10. OneFlag'
  <2>1. \A n \in 1..Newest : nodes'[n].isRoot = nodes[n].isRoot
    BY <1>5, <1>7
  <2> QED BY <1>1, <1>7, <2>1 DEF Held, OneFlag, Newest
<1>11. Working'
  <2>1. Linked(nodes', rootOffset', at)
    BY <1>1, <1>2, <1>7, StaysInTree
  <2>2. at' \in Kids(nodes')[at]
    BY <1>1, <1>5, <1>6
  <2>3. Stored(nodes')
    <3>1. nd \in Node(Newest) /\ WellFormed(nd)
      BY <1>4 DEF HasKid
    <3> QED BY <1>1, <1>2, <3>1, Replaced DEF Newest
  <2>4. Linked(nodes', rootOffset', at')
    BY <2>1, <2>2, <2>3, LinkedKid
  <2> QED BY <2>4 DEF Working, Up
<1> QED BY <1>8, <1>9, <1>10, <1>11, Carried DEF Held

(***************************************************************************)
(* nd is old with v for k, and the other keys as they were.                *)
(***************************************************************************)
HasWritten(old, nd, k, v) ==
    /\ nd.isRoot = old.isRoot /\ nd.parent = old.parent /\ nd.children = old.children
    /\ Has(nd, k, {v})
    /\ \A j \in Key : j # k => \A vals : Has(old, j, vals) => Has(nd, j, vals)

(***************************************************************************)
(* PutAt writes the entry and moves the others.                            *)
(***************************************************************************)
LEMMA PutWritten ==
    ASSUME NEW N, NEW old \in Node(N), WellFormed(old), NEW p \in 1..(Len(old.keys) + 1),
           NEW k, NEW v, NEW nd, HasPut(N, old, p, k, v, nd)
    PROVE  HasWritten(old, nd, k, v)
<1> DEFINE len == Len(old.keys)
<1>1. /\ nd.leaf = TRUE /\ nd.isRoot = old.isRoot /\ nd.parent = old.parent /\ nd.children = old.children
      /\ Len(nd.keys) = len + 1 /\ len \in Nat
      /\ \A i \in 1..(p - 1) : nd.keys[i] = old.keys[i] /\ nd.values[i] = old.values[i]
      /\ nd.keys[p] = k /\ nd.values[p] = v
      /\ \A i \in (p + 1)..(len + 1) : nd.keys[i] = old.keys[i - 1] /\ nd.values[i] = old.values[i - 1]
  <2>1. old.keys \in Seq(Key)
    BY DEF Node
  <2> QED BY <2>1 DEF HasPut
<1> HIDE DEF len
<1>2. p \in 1..(len + 1)
  BY DEF len
<1>3. Has(nd, k, {v})
  BY <1>1, <1>2 DEF Has
<1>4. ASSUME NEW j, NEW vals, Has(old, j, vals) PROVE Has(nd, j, vals)
  <2>1. PICK i \in 1..len : old.keys[i] = j /\ old.values[i] \in vals
    BY <1>4 DEF Has, len
  <2>2. CASE i < p
    <3>1. i \in 1..(p - 1) /\ i \in 1..(len + 1)
      BY <1>1, <1>2, <2>2
    <3> QED BY <1>1, <2>1, <3>1 DEF Has
  <2>3. CASE p <= i
    <3>1. i + 1 \in (p + 1)..(len + 1) /\ i + 1 \in 1..(len + 1) /\ (i + 1) - 1 = i
      BY <1>1, <1>2, <2>3
    <3>2. nd.keys[i + 1] = j /\ nd.values[i + 1] \in vals
      BY <1>1, <2>1, <3>1
    <3> QED BY <1>1, <3>1, <3>2 DEF Has
  <2> QED BY <1>1, <1>2, <2>2, <2>3
<1> QED BY <1>1, <1>3, <1>4 DEF HasWritten

(***************************************************************************)
(* OverwriteAt writes the entry over the one with its key.                 *)
(***************************************************************************)
LEMMA OverwriteWritten ==
    ASSUME NEW N, NEW old, NEW p \in 1..Len(old.keys), NEW k, old.keys[p] = k,
           NEW v, NEW nd, HasOverwritten(N, old, p, v, nd)
    PROVE  HasWritten(old, nd, k, v)
<1>1. /\ nd.leaf = TRUE /\ nd.isRoot = old.isRoot /\ nd.parent = old.parent /\ nd.children = old.children
      /\ nd.keys = old.keys
      /\ \A i \in 1..Len(old.keys) : nd.values[i] = IF i = p THEN v ELSE old.values[i]
  BY DEF HasOverwritten
<1>2. Has(nd, k, {v})
  BY <1>1 DEF Has
<1>3. ASSUME NEW j, j # k, NEW vals, Has(old, j, vals) PROVE Has(nd, j, vals)
  BY <1>1, <1>3 DEF Has
<1> QED BY <1>1, <1>2, <1>3 DEF HasWritten

(***************************************************************************)
(* The entry is written into the leaf at.                                  *)
(***************************************************************************)
Writes(nd) ==
    /\ pc \in {"descend", "batchEntry", "batchPut"}
    /\ HasWritten(nodes[at], nd, entry[1], entry[2])
    /\ nodes' = [nodes EXCEPT ![at] = nd]
    /\ rootOffset' = rootOffset
    /\ Done(entry[1], entry[2])
    /\ pc' = "idle" \/ (pc' = "batchEntry" /\ pc # "descend" /\ at' = at /\ kind' = kind)

(***************************************************************************)
(* Writing an entry into a leaf of the tree keeps the others and makes its *)
(* value the one found.                                                    *)
(***************************************************************************)
LEMMA HeldWrite ==
    ASSUME NEW lev, Shape(lev), Writer, todo # <<>>, Held, NEW nd, Writes(nd)
    PROVE  Held'
<1>1. /\ Stored(nodes) /\ rootOffset \in 1..Newest /\ at \in 1..Newest /\ Newest \in Nat /\ Up(at)
      /\ pc \notin Torn \cup {"adoptLeft", "adoptRight", "batchLeft"}
  BY StoredFacts DEF Shape, Newest, Held, Working, Bulky, Writes, Torn
<1>2. entry[1] \in Key /\ entry[2] \in Value /\ allowed \in [Key -> SUBSET (Value \cup {None})]
  BY EntryTyped DEF Writer
<1>3. /\ nd.isRoot = nodes[at].isRoot /\ nd.parent = nodes[at].parent
      /\ nd.children = nodes[at].children
      /\ Has(nd, entry[1], {entry[2]})
      /\ \A j \in Key : j # entry[1] => \A vals : Has(nodes[at], j, vals) => Has(nd, j, vals)
  BY DEF Writes, HasWritten
<1>4. /\ Len(nodes') = Newest /\ nodes'[at] = nd /\ \A n \in 1..Newest : n # at => nodes'[n] = nodes[n]
      /\ Widening(nodes, nodes')
  <2>1. KidsOf(nodes[at]) \subseteq KidsOf(nd)
    BY <1>3 DEF KidsOf
  <2>2. MayAlter(nodes, at, nd, nodes')
    BY <1>1, <2>1, Zenon DEF MayAlter, Newest, Writes
  <2>3. Alters(nodes, at, nd, nodes')
    BY <2>2, Altered
  <2> QED BY <2>3 DEF Alters, Newest
<1>5. After(at) /\ Linked(nodes', rootOffset', at)
  BY <1>1, <1>4, StaysInTree DEF Writes
<1>6. Carries(at)
  <2>1. \A n : InTree(n) => After(n)
    BY <1>1, <1>4, StaysInTree DEF Torn, Writes
  <2>2. ASSUME NEW k \in Key, None \notin allowed'[k] PROVE KeepsKey(at, k)
    <3>1. CASE k = entry[1]
      <4>1. allowed'[k] = {entry[2]}
        BY <1>2, <3>1 DEF Writes, Done
      <4>2. Has(nodes'[at], k, allowed'[k])
        BY <1>3, <1>4, <3>1, <4>1
      <4> QED BY <1>1, <1>4, <1>5, <4>2 DEF KeepsKey
    <3>2. CASE k # entry[1]
      <4>1. allowed'[k] = allowed[k]
        BY <1>2, <3>2 DEF Writes, Done
      <4> QED BY <1>3, <1>4, <2>2, <3>2, <4>1 DEF KeepsKey
    <3> QED BY <3>1, <3>2
  <2>3. \E q \in 1..Newest : nodes'[at].parent = nodes[q].parent
    BY <1>1, <1>3, <1>4
  <2>4. pc # "sibling" /\ pc' # "sibling"
    BY DEF Writes
  <2> QED BY <1>1, <1>4, <2>1, <2>2, <2>3, <2>4 DEF Carries
<1>7. SplitOfRoot' /\ OfBatch'
  BY DEF Held, SplitOfRoot, OfBatch, Bulky, Writes
<1>8. OneFlag'
  <2>1. \A n \in 1..Newest : nodes'[n].isRoot = nodes[n].isRoot
    BY <1>3, <1>4
  <2>2. \A n \in 1..Newest : nodes[n].isRoot => n = rootOffset
    BY <1>1 DEF Held, OneFlag, Torn
  <2> QED BY <1>4, <2>1, <2>2 DEF OneFlag, Newest, Writes
<1>9. Working'
  BY <1>5 DEF Working, Up, Writes, Bulky
<1> QED BY <1>6, <1>7, <1>8, <1>9, Carried DEF Held

(***************************************************************************)
(* The end of an insert.  A flagged leaf sets the root offset: by OneFlag, *)
(* to what it is.                                                          *)
(***************************************************************************)
LEMMA HeldStoreLeaf ==
    ASSUME NEW lev, Shape(lev), Writer, Held, StoreLeaf
    PROVE  Held'
<1>1. /\ pc = "descend" /\ nodes[at].leaf /\ todo # <<>> /\ at \in 1..Newest
      /\ rootOffset' = IF nodes[at].isRoot THEN at ELSE rootOffset
      /\ Done(entry[1], entry[2]) /\ pc' = "idle"
  BY DEF StoreLeaf, Writer, Return, Shape
<1>2. rootOffset' = rootOffset
  BY <1>1 DEF Held, OneFlag
<1>3. PICK p \in Positions(nodes[at].keys, entry[1]) :
         nodes' = [nodes EXCEPT ![at] =
               IF p \in Hits(nodes[at].keys, entry[1])
               THEN OverwriteAt(nodes[at], p, entry[2])
               ELSE PutAt(nodes[at], p, entry[1], entry[2])]
  BY DEF StoreLeaf
<1>4. nodes[at] \in Node(Newest) /\ WellFormed(nodes[at])
  BY <1>1, StoredFacts DEF Shape, Newest
<1>5. CASE p \in Hits(nodes[at].keys, entry[1])
  <2> DEFINE nd == OverwriteAt(nodes[at], p, entry[2])
  <2>1. HasOverwritten(Newest, nodes[at], p, entry[2], nd)
    BY <1>1, <1>5, LeafOverwrite
  <2>2. p \in 1..Len(nodes[at].keys) /\ nodes[at].keys[p] = entry[1]
    BY <1>5 DEF Hits
  <2>3. nodes' = [nodes EXCEPT ![at] = nd]
    BY <1>3, <1>5, Zenon
  <2> HIDE DEF nd
  <2>4. HasWritten(nodes[at], nd, entry[1], entry[2])
    BY <2>1, <2>2, OverwriteWritten
  <2>5. Writes(nd)
    BY <1>1, <1>2, <2>3, <2>4 DEF Writes
  <2> QED BY <1>1, <2>5, HeldWrite
<1>6. CASE p \notin Hits(nodes[at].keys, entry[1])
  <2> DEFINE nd == PutAt(nodes[at], p, entry[1], entry[2])
  <2>1. HasPut(Newest, nodes[at], p, entry[1], entry[2], nd)
    BY <1>1, LeafPut
  <2>2. p \in 1..(Len(nodes[at].keys) + 1)
    <3>1. Len(nodes[at].keys) \in Nat
      BY <1>1, StoredFacts DEF Shape, Newest
    <3> QED BY <3>1, PositionsIn
  <2>3. nodes' = [nodes EXCEPT ![at] = nd]
    BY <1>3, <1>6, Zenon
  <2> HIDE DEF nd
  <2>4. HasWritten(nodes[at], nd, entry[1], entry[2])
    BY <1>4, <2>1, <2>2, PutWritten
  <2>5. Writes(nd)
    BY <1>1, <1>2, <2>3, <2>4 DEF Writes
  <2> QED BY <1>1, <2>5, HeldWrite
<1> QED BY <1>5, <1>6

(***************************************************************************)
(* An entry of a batch.                                                    *)
(***************************************************************************)
LEMMA HeldPutEntry ==
    ASSUME NEW lev, Shape(lev), Writer, Held, PutEntry, pc \in {"batchEntry", "batchPut"}
    PROVE  Held'
<1>1. /\ nodes[at].leaf /\ todo # <<>> /\ at \in 1..Newest /\ rootOffset' = rootOffset
      /\ Done(entry[1], entry[2])
      /\ pc' = "idle" \/ (pc' = "batchEntry" /\ pc # "descend" /\ at' = at /\ kind' = kind)
  BY DEF PutEntry, Writer, Return, Shape, Fits, Bulky
<1>2. PICK p \in Positions(nodes[at].keys, entry[1]) :
         nodes' = [nodes EXCEPT ![at] = PutAt(nodes[at], p, entry[1], entry[2])]
  BY DEF PutEntry
<1> DEFINE nd == PutAt(nodes[at], p, entry[1], entry[2])
<1>3. HasPut(Newest, nodes[at], p, entry[1], entry[2], nd)
  BY <1>1, LeafPut
<1>4. nodes[at] \in Node(Newest) /\ WellFormed(nodes[at]) /\ p \in 1..(Len(nodes[at].keys) + 1)
  <2>1. nodes[at] \in Node(Newest) /\ WellFormed(nodes[at]) /\ Len(nodes[at].keys) \in Nat
    BY <1>1, StoredFacts DEF Shape, Newest
  <2> QED BY <2>1, PositionsIn
<1>5. nodes' = [nodes EXCEPT ![at] = nd]
  BY <1>2, Zenon
<1> HIDE DEF nd
<1>6. HasWritten(nodes[at], nd, entry[1], entry[2])
  BY <1>3, <1>4, PutWritten
<1>7. Writes(nd)
  BY <1>1, <1>5, <1>6 DEF Writes
<1> QED BY <1>1, <1>7, HeldWrite

(***************************************************************************)
(* A batch stores the sibling of a full leaf, which still has all its      *)
(* entries.                                                                *)
(***************************************************************************)
LEMMA HeldBatchSibling ==
    ASSUME NEW lev, Shape(lev), Held, BatchSibling
    PROVE  Held'
<1> DEFINE nd == SplitRight(nodes[at])
<1>1. /\ pc = "batchEntry" /\ pc' = "batchLeft" /\ IsFull(nodes[at]) /\ nodes' = Append(nodes, nd)
      /\ rootOffset' = rootOffset /\ at' = at /\ kind' = kind /\ sib' = sib /\ allowed' = allowed
  BY DEF BatchSibling
<1>2. Stored(nodes) /\ rootOffset \in 1..Newest /\ at \in 1..Newest /\ Newest \in Nat /\ Up(at)
  BY <1>1, StoredFacts DEF Shape, Newest, Held, Working, Bulky
<1>3. /\ nd.isRoot = FALSE /\ nd.parent = nodes[at].parent
  BY <1>1, <1>2, StoredFacts, SplitRightFacts DEF Newest
<1>4. nd = SplitRight(nodes[at])
  OBVIOUS
<1> HIDE DEF nd
<1>5. Adds(nodes, nd, nodes')
  BY <1>1, <1>2, AppendedWide
<1>6. /\ Len(nodes') = Newest + 1 /\ nodes'[Newest + 1] = nd
      /\ \A n \in 1..Newest : nodes'[n] = nodes[n]
      /\ Widening(nodes, nodes')
  BY <1>5 DEF Adds, Newest
<1>7. /\ Newest + 1 \in 1..Len(nodes') /\ 1..Newest \subseteq 1..Len(nodes')
      /\ \A n \in 1..Len(nodes') : n = Newest + 1 \/ n \in 1..Newest
      /\ Newest + 1 \notin 1..Newest
  BY <1>2, <1>6
<1>8. Carries(Newest + 1)
  <2>1. \A n : InTree(n) => After(n)
    BY <1>1, <1>2, <1>6, StaysInTree DEF Torn
  <2>2. \A k \in Key : None \notin allowed'[k] => KeepsKey(Newest + 1, k)
    BY <1>1, <1>7 DEF KeepsKey
  <2>3. \E q \in 1..Newest : nodes'[Newest + 1].parent = nodes[q].parent
    BY <1>2, <1>3, <1>6
  <2> QED BY <1>1, <1>2, <1>6, <1>7, <2>1, <2>2, <2>3 DEF Carries
<1>9. SplitOfRoot'
  BY <1>1 DEF SplitOfRoot
<1>10. OneFlag'
  <2>1. \A n \in 1..Len(nodes') : nodes'[n].isRoot => n = rootOffset
    BY <1>1, <1>3, <1>6, <1>7 DEF Held, OneFlag
  <2> QED BY <1>1, <2>1 DEF OneFlag, Newest
<1>11. OfBatch'
  <2>1. nodes'[Len(nodes')] = SplitRight(nodes'[at'])
    BY <1>1, <1>2, <1>4, <1>6
  <2> QED BY <1>1, <2>1 DEF Held, OfBatch, Newest, Bulky
<1>12. Working'
  <2>1. Linked(nodes', rootOffset', at)
    BY <1>1, <1>2, <1>6, StaysInTree
  <2> QED BY <1>1, <2>1 DEF Working, Up
<1> QED BY <1>8, <1>9, <1>10, <1>11, <1>12, Carried DEF Held

(***************************************************************************)
(* What a full leaf has, one of its halves has.                            *)
(***************************************************************************)
LEMMA SplitHas ==
    ASSUME NEW N \in Nat, NEW nd \in Node(N), WellFormed(nd), IsFull(nd), NEW k, NEW vals, Has(nd, k, vals)
    PROVE  Has(SplitLeft(nd), k, vals) \/ Has(SplitRight(nd), k, vals)
<1> DEFINE l == SplitLeft(nd)
           r == SplitRight(nd)
           len == Len(nd.keys)
<1>1. /\ B \in Nat /\ B <= len /\ len \in Nat
  BY NodeFields, SplitPoint DEF IsFull
<1>2. nd.leaf
  BY DEF Has
<1>3. /\ l.leaf /\ Len(l.keys) = B
      /\ \A i \in 1..B : l.keys[i] = nd.keys[i] /\ l.values[i] = nd.values[i]
  BY <1>2, SplitLeftFacts
<1>4. /\ r.leaf /\ Len(r.keys) = len - B
      /\ \A i \in 1..(len - B) : r.keys[i] = nd.keys[B + i] /\ r.values[i] = nd.values[B + i]
  BY <1>2, SplitRightFacts
<1>5. PICK p \in 1..len : nd.keys[p] = k /\ nd.values[p] \in vals
  BY DEF Has
<1> HIDE DEF l, r, len
<1>6. CASE p <= B
  <2>1. p \in 1..B
    BY <1>1, <1>6
  <2> QED BY <1>3, <1>5, <2>1 DEF Has, l
<1>7. CASE B < p
  <2>1. p - B \in 1..(len - B) /\ B + (p - B) = p
    BY <1>1, <1>7
  <2>2. r.keys[p - B] = k /\ r.values[p - B] \in vals
    BY <1>4, <1>5, <2>1
  <2> QED BY <1>4, <2>1, <2>2 DEF Has, r
<1> QED BY <1>1, <1>6, <1>7

(***************************************************************************)
(* The leaf is truncated: what it lost is in the node stored last.         *)
(***************************************************************************)
LEMMA HeldBatchLeft ==
    ASSUME NEW lev, Shape(lev), Parents(lev), Held, BatchLeft
    PROVE  Held'
<1> DEFINE nd == SplitLeft(nodes[at])
<1>1. /\ pc = "batchLeft" /\ nodes' = [nodes EXCEPT ![at] = nd]
      /\ rootOffset' = rootOffset /\ at' = at /\ kind' = kind /\ allowed' = allowed
      /\ \/ pc' = "growRoot" /\ nodes[at].isRoot
         \/ pc' = "batchParent" /\ ~nodes[at].isRoot
  BY DEF BatchLeft
<1>2. /\ Stored(nodes) /\ rootOffset \in 1..Newest /\ at \in 1..Newest /\ Newest \in Nat /\ Up(at)
      /\ IsFull(nodes[at]) /\ nodes[at] \in Node(Newest) /\ WellFormed(nodes[at]) /\ nodes[at].leaf
      /\ nodes[Newest] = SplitRight(nodes[at]) /\ at # Newest
  BY <1>1, StoredFacts DEF Shape, Newest, Held, Working, Bulky, Fits, OfBatch, Parents
<1>3. /\ nd.isRoot = nodes[at].isRoot /\ nd.parent = nodes[at].parent /\ nd.leaf
      /\ nd.children = nodes[at].children
  <2>1. nd.children = nodes[at].children
    BY <1>2 DEF SplitLeft, Node
  <2> QED BY <1>2, <2>1, SplitLeftFacts
<1>4. nd = SplitLeft(nodes[at])
  OBVIOUS
<1> HIDE DEF nd
<1>5. /\ Len(nodes') = Newest /\ nodes'[at] = nd /\ \A n \in 1..Newest : n # at => nodes'[n] = nodes[n]
      /\ Widening(nodes, nodes')
  <2>1. KidsOf(nodes[at]) \subseteq KidsOf(nd)
    BY <1>3 DEF KidsOf
  <2>2. MayAlter(nodes, at, nd, nodes')
    BY <1>1, <1>2, <2>1, Zenon DEF MayAlter, Newest
  <2>3. Alters(nodes, at, nd, nodes')
    BY <2>2, Altered
  <2> QED BY <2>3 DEF Alters, Newest
<1>6. Newest \in 1..Newest /\ After(Newest)
  <2>1. Newest \in 1..Newest
    BY <1>2
  <2>2. Linked(nodes', Newest, Newest)
    BY <1>5, <2>1, LinkedSelf
  <2> QED BY <1>1, <1>5, <2>1, <2>2 DEF After, Tree
<1>7. Carries(at)
  <2>1. \A n : InTree(n) => After(n)
    BY <1>1, <1>2, <1>5, StaysInTree DEF Torn
  <2>2. ASSUME NEW k \in Key, None \notin allowed'[k] PROVE KeepsKey(at, k)
    <3>1. CASE Has(nodes[at], k, allowed[k])
      <4>1. Has(nodes'[at], k, allowed'[k]) \/ Has(nodes'[Newest], k, allowed'[k])
        <5>1. Has(nd, k, allowed[k]) \/ Has(nodes[Newest], k, allowed[k])
          BY <1>2, <1>4, <3>1, SplitHas
        <5> QED BY <1>1, <1>2, <1>5, <1>6, <5>1
      <4>2. After(at)
        BY <1>1, <1>2, <1>5, StaysInTree
      <4> QED BY <1>2, <1>5, <1>6, <4>1, <4>2 DEF KeepsKey
    <3>2. CASE ~Has(nodes[at], k, allowed[k])
      BY <1>1, <2>2, <3>2 DEF KeepsKey
    <3> QED BY <3>1, <3>2
  <2>3. \E q \in 1..Newest : nodes'[at].parent = nodes[q].parent
    BY <1>2, <1>3, <1>5
  <2> QED BY <1>1, <1>2, <1>5, <2>1, <2>2, <2>3 DEF Carries
<1>8. SplitOfRoot'
  BY <1>1, <1>2 DEF Held, OneFlag, SplitOfRoot
<1>9. OneFlag'
  <2>1. \A n \in 1..Newest : nodes'[n].isRoot => n = rootOffset
    BY <1>1, <1>3, <1>5 DEF Held, OneFlag
  <2>2. kind = "batch"
    BY <1>1 DEF Held, OfBatch, Bulky
  <2> QED BY <1>1, <1>5, <2>1, <2>2 DEF OneFlag, Newest
<1>10. OfBatch'
  BY <1>1 DEF Held, OfBatch, Bulky
<1>11. Working'
  <2>1. Linked(nodes', rootOffset', at)
    BY <1>1, <1>2, <1>5, StaysInTree
  <2> QED BY <1>1, <2>1 DEF Working, Up
<1> QED BY <1>7, <1>8, <1>9, <1>10, <1>11, Carried DEF Held

(***************************************************************************)
(* The children of a new root.                                             *)
(***************************************************************************)
LEMMA PairKids ==
    ASSUME NEW nd, NEW a, NEW b, nd.children = <<a, b>>
    PROVE  KidsOf(nd) = {a, b}
<1>1. Len(<<a, b>>) = 2 /\ 1..2 = {1, 2} /\ <<a, b>>[1] = a /\ <<a, b>>[2] = b
  OBVIOUS
<1>2. KidsOf(nd) = {<<a, b>>[p] : p \in 1..Len(<<a, b>>)}
  BY DEF KidsOf
<1> QED BY <1>1, <1>2

(***************************************************************************)
(* The new root, stored last, names the old one and its sibling; the       *)
(* header does not name it yet.                                            *)
(***************************************************************************)
LEMMA HeldGrowRoot ==
    ASSUME NEW lev, Shape(lev), Writer, Held, GrowRoot
    PROVE  Held'
<1> DEFINE nd == RootOver(at, Newest)
<1>1. /\ pc = "growRoot" /\ pc' = "setRoot" /\ nodes' = Append(nodes, nd)
      /\ rootOffset' = rootOffset /\ at' = at /\ kind' = kind /\ sib' = sib /\ allowed' = allowed
  BY DEF GrowRoot, locals, Newest
<1>2. Stored(nodes) /\ rootOffset \in 1..Newest /\ at \in 1..Newest /\ Newest \in Nat /\ at = rootOffset
  BY <1>1, StoredFacts DEF Shape, Newest, Held, SplitOfRoot
<1>3. nd.isRoot = TRUE /\ nd.parent = NoParent /\ nd.children = <<at, Newest>>
  BY DEF RootOver, NewInternal, NewLeaf
<1> HIDE DEF nd
<1>4. KidsOf(nd) = {at, Newest}
  BY <1>3, PairKids
<1>5. Adds(nodes, nd, nodes')
  BY <1>1, <1>2, AppendedWide
<1>6. /\ Len(nodes') = Newest + 1 /\ nodes'[Newest + 1] = nd
      /\ \A n \in 1..Newest : nodes'[n] = nodes[n]
      /\ Widening(nodes, nodes') /\ Kids(nodes')[Newest + 1] = {at, Newest}
  BY <1>4, <1>5 DEF Adds, Newest
<1>7. /\ Newest + 1 \in 1..Len(nodes') /\ 1..Newest \subseteq 1..Len(nodes')
      /\ \A n \in 1..Len(nodes') : n = Newest + 1 \/ n \in 1..Newest
      /\ Newest + 1 \notin 1..Newest /\ Newest \in 1..Newest
  BY <1>2, <1>6
<1>8. ASSUME NEW n, InTree(n) PROVE After(n)
  <2>1. CASE Up(n)
    BY <1>1, <1>2, <1>6, <2>1, StaysInTree
  <2>2. CASE Linked(nodes, Newest, n)
    <3>1. Linked(nodes', Newest, n)
      BY <1>2, <1>6, <1>7, <2>2, LinkedWider DEF Newest
    <3>2. Linked(nodes', Newest + 1, n)
      BY <1>6, <1>7, <3>1, ThroughKid
    <3> QED BY <1>1, <1>6, <3>2 DEF After, Tree
  <2> QED BY <1>1, <1>8, <2>1, <2>2 DEF InTree, Tree, Up, Newest
<1>9. Carries(Newest + 1)
  <2>1. \A k \in Key : None \notin allowed'[k] => KeepsKey(Newest + 1, k)
    BY <1>1, <1>7 DEF KeepsKey
  <2> QED BY <1>1, <1>2, <1>3, <1>6, <1>7, <1>8, <2>1 DEF Carries
<1>10. SplitOfRoot'
  <2>1. (Newest + 1) - 1 = Newest
    BY <1>2
  <2>2. nodes'[Len(nodes')].children = <<at', Len(nodes') - 1>>
    BY <1>1, <1>3, <1>6, <2>1
  <2> QED BY <1>1, <1>2, <2>2 DEF SplitOfRoot, Newest
<1>11. OneFlag'
  <2>1. \A n \in 1..Len(nodes') : nodes'[n].isRoot => n = rootOffset \/ n = Newest + 1
    BY <1>1, <1>6, <1>7 DEF Held, OneFlag
  <2>2. kind = "insert" => ~nodes'[at].isRoot
    BY <1>1, <1>2, <1>6 DEF Held, OneFlag
  <2> QED BY <1>1, <1>6, <2>1, <2>2 DEF OneFlag, Newest
<1>12. OfBatch' /\ Working'
  BY <1>1 DEF OfBatch, Working, Bulky
<1> QED BY <1>9, <1>10, <1>11, <1>12, Carried DEF Held

(***************************************************************************)
(* The header names the new root, from which the old one is linked.        *)
(***************************************************************************)
LEMMA HeldSetRoot ==
    ASSUME NEW lev, Shape(lev), Writer, Held, SetRootOffset
    PROVE  Held'
<1>1. /\ pc = "setRoot" /\ pc' = "adoptLeft" /\ nodes' = nodes
      /\ rootOffset' = Newest /\ at' = at /\ kind' = kind /\ sib' = sib /\ allowed' = allowed
  BY DEF SetRootOffset, locals, Newest
<1>2. /\ Stored(nodes) /\ rootOffset \in 1..Newest /\ at \in 1..Newest /\ Newest \in Nat /\ at = rootOffset
      /\ nodes[Newest].children = <<at, Newest - 1>>
  BY <1>1, StoredFacts DEF Shape, Newest, Held, SplitOfRoot
<1>3. Newest \in 1..Newest
  BY <1>2
<1>4. at \in Kids(nodes)[Newest]
  <2>1. KidsOf(nodes[Newest]) = {at, Newest - 1}
    BY <1>2, PairKids
  <2> QED BY <1>3, <2>1 DEF Kids, KidsOf, Newest
<1>5. ASSUME NEW n, InTree(n) PROVE After(n)
  <2>1. Up(n) \/ Linked(nodes, Newest, n)
    BY <1>1, <1>5 DEF InTree, Tree, Up, Newest
  <2>2. Linked(nodes, Newest, n)
    BY <1>2, <1>3, <1>4, <2>1, ThroughKid DEF Up, Newest
  <2> QED BY <1>1, <2>2 DEF After, Tree
<1>6. Carries(Newest)
  <2>1. \A k \in Key : None \notin allowed'[k] => KeepsKey(Newest, k)
    BY <1>1 DEF KeepsKey
  <2> QED BY <1>1, <1>2, <1>3, <1>5, <2>1 DEF Carries, Newest
<1>7. SplitOfRoot'
  BY <1>1, <1>2 DEF SplitOfRoot, Newest
<1>8. OneFlag'
  BY <1>1, <1>2 DEF Held, OneFlag, Newest, Writer
<1>9. OfBatch' /\ Working'
  BY <1>1 DEF OfBatch, Working, Bulky
<1> QED BY <1>6, <1>7, <1>8, <1>9, Carried DEF Held

(***************************************************************************)
(* The separator and the sibling go to the parent the leaf names.  It may  *)
(* be stale, but it is a node above leaves (Parents) and of the tree       *)
(* (ParentsUp), so that the sibling is linked from the root again.         *)
(***************************************************************************)
LEMMA HeldBatchParent ==
    ASSUME NEW lev, Shape(lev), Parents(lev), Writer, Held, BatchParent
    PROVE  Held'
<1> DEFINE q == nodes[at].parent
<1>1. /\ pc = "batchParent" /\ pc' = "batchPut"
      /\ \E p \in Positions(nodes[q].keys, med) :
            nodes' = [nodes EXCEPT ![q] = LinkAt(nodes[q], p, med, Newest)]
      /\ at' \in {at, Newest}
      /\ rootOffset' = rootOffset /\ kind' = kind /\ sib' = sib /\ allowed' = allowed
  BY DEF BatchParent, Half, Newest
<1>2. /\ Stored(nodes) /\ Leveled(nodes, lev) /\ rootOffset \in 1..Newest /\ at \in 1..Newest
      /\ Newest \in Nat /\ Up(at) /\ nodes[at].leaf /\ med \in Key /\ lev[Newest] = lev[at]
  BY <1>1, StoredFacts DEF Shape, Newest, Held, Working, Bulky, Fits, Writer, Splitting
<1>3. Newest \in 1..Newest /\ at # Newest
  BY <1>1, <1>2 DEF Parents
<1>4. lev[at] = 0 /\ nodes[Newest].leaf /\ lev[Newest] = 0
  BY <1>2, <1>3, LevelFacts DEF Newest
<1>5. q # NoParent
  <2>1. at \notin Orphans
    BY <1>1 DEF Orphans
  <2> QED BY <1>2, <1>3, <2>1 DEF Parents
<1>6. q \in 1..Newest /\ lev[q] = 1 /\ ~nodes[q].leaf
  <2>1. q \in 1..Newest
    BY <1>2, <1>5, ParentsTyped
  <2>2. lev[q] = 1
    BY <1>2, <1>4, <1>5 DEF Parents
  <2> QED BY <1>2, <2>1, <2>2, LevelFacts DEF Newest
<1> HIDE DEF q
<1>7. PICK p \in Positions(nodes[q].keys, med) :
         nodes' = [nodes EXCEPT ![q] = LinkAt(nodes[q], p, med, Newest)]
  BY <1>1
<1>8. p \in 1..(Len(nodes[q].keys) + 1) /\ p \in 1..Len(nodes[q].children)
      /\ nodes[q] \in Node(Newest) /\ WellFormed(nodes[q])
  <2>1. /\ Len(nodes[q].keys) \in Nat /\ nodes[q] \in Node(Newest) /\ WellFormed(nodes[q])
        /\ Len(nodes[q].children) = Len(nodes[q].keys) + 1
    BY <1>2, <1>6, StoredFacts DEF Newest
  <2> QED BY <2>1, PositionsIn
<1> DEFINE nd == LinkAt(nodes[q], p, med, Newest)
<1>9. HasKid(Newest, nodes[q], Newest, nd)
  BY <1>2, <1>3, <1>6, <1>8, LinkedKids DEF MayLink
<1>10. nodes' = [nodes EXCEPT ![q] = nd]
  BY <1>7
<1> HIDE DEF nd
<1>11. /\ nd.leaf = FALSE /\ nd.isRoot = nodes[q].isRoot /\ nd.parent = nodes[q].parent
       /\ KidsOf(nodes[q]) \subseteq KidsOf(nd) /\ Newest \in KidsOf(nd)
       /\ nd \in Node(Newest) /\ WellFormed(nd)
  BY <1>9 DEF HasKid
<1>12. Alters(nodes, q, nd, nodes') /\ Kids(nodes')[q] = KidsOf(nd)
  <2>1. MayAlter(nodes, q, nd, nodes')
    BY <1>2, <1>6, <1>10, <1>11, Zenon DEF MayAlter, Newest
  <2> QED BY <2>1, Altered
<1>13. /\ Len(nodes') = Newest /\ nodes'[q] = nd /\ \A n \in 1..Newest : n # q => nodes'[n] = nodes[n]
       /\ Widening(nodes, nodes')
  BY <1>12 DEF Alters, Newest
<1>14. Stored(nodes')
  BY <1>2, <1>6, <1>10, <1>11, Replaced DEF Newest
<1>15. \A n : Linked(nodes, Newest, n) => n = Newest
  <2>1. Kids(nodes)[Newest] = {}
    <3>1. Len(nodes[Newest].children) = 0
      BY <1>2, <1>3, <1>4, StoredFacts DEF Newest
    <3>2. Kids(nodes)[Newest] = {nodes[Newest].children[i] : i \in 1..0}
      BY <1>3, <3>1 DEF Kids, Newest
    <3> QED BY <3>2
  <2>2. {Newest} \in SUBSET (1..Len(nodes)) /\ ClosedIn(nodes, {Newest})
    BY <1>3, <2>1 DEF ClosedIn, Newest
  <2> QED BY <2>2 DEF Linked
<1>16. Up(q)
  <2>1. InTree(q)
    BY <1>2, <1>5 DEF Held, ParentsUp, q
  <2>2. q # Newest
    BY <1>4, <1>6
  <2> QED BY <1>1, <1>15, <2>1, <2>2 DEF InTree, Tree, Up, Newest
<1>17. Linked(nodes', rootOffset', Newest) /\ Linked(nodes', rootOffset', at)
  <2>1. Linked(nodes', rootOffset', q) /\ Linked(nodes', rootOffset', at)
    BY <1>1, <1>2, <1>13, <1>16, StaysInTree
  <2>2. Newest \in Kids(nodes')[q]
    BY <1>11, <1>12
  <2> QED BY <1>14, <2>1, <2>2, LinkedKid
<1>18. ASSUME NEW n, InTree(n) PROVE After(n)
  <2>1. CASE Up(n)
    BY <1>1, <1>2, <1>13, <2>1, StaysInTree
  <2>2. CASE Linked(nodes, Newest, n)
    BY <1>15, <1>17, <2>2 DEF After, Tree
  <2> QED BY <1>1, <1>18, <2>1, <2>2 DEF InTree, Tree, Up, Newest
<1>19. Carries(q)
  <2>1. \A k \in Key : None \notin allowed'[k] => KeepsKey(q, k)
    BY <1>1, <1>6 DEF KeepsKey, Has
  <2>2. \E m \in 1..Newest : nodes'[q].parent = nodes[m].parent
    BY <1>6, <1>11, <1>13
  <2> QED BY <1>1, <1>2, <1>6, <1>13, <1>18, <2>1, <2>2 DEF Carries
<1>20. SplitOfRoot' /\ OfBatch'
  BY <1>1 DEF Held, SplitOfRoot, OfBatch, Bulky
<1>21. OneFlag'
  <2>1. \A n \in 1..Newest : nodes'[n].isRoot = nodes[n].isRoot
    BY <1>11, <1>13
  <2> QED BY <1>1, <1>13, <2>1 DEF Held, OneFlag, Newest
<1>22. Working'
  BY <1>1, <1>17 DEF Working, Up
<1> QED BY <1>19, <1>20, <1>21, <1>22, Carried DEF Held

(***************************************************************************)
(* Has, with more values allowed.                                          *)
(***************************************************************************)
LEMMA HasMore ==
    ASSUME NEW nd, NEW k, NEW S, NEW T, S \subseteq T, Has(nd, k, S)
    PROVE  Has(nd, k, T)
  BY DEF Has

(***************************************************************************)
(* What a full node names, one of its halves names.                        *)
(***************************************************************************)
LEMMA SplitKids ==
    ASSUME NEW N \in Nat, NEW nd \in Node(N), WellFormed(nd), IsFull(nd)
    PROVE  KidsOf(nd) \subseteq KidsOf(SplitLeft(nd)) \cup KidsOf(SplitRight(nd))
<1> DEFINE l == SplitLeft(nd)
           r == SplitRight(nd)
           len == Len(nd.keys)
<1>1. /\ B \in Nat /\ 1 < B /\ B <= len /\ len \in Nat
  BY NodeFields, SplitPoint DEF IsFull
<1>2. CASE nd.leaf
  <2>1. Len(nd.children) = 0
    BY <1>2, NodeFields
  <2> QED BY <2>1 DEF KidsOf
<1>3. CASE ~nd.leaf
  <2>1. Len(nd.children) = len + 1
    BY <1>3, NodeFields
  <2>2. /\ Len(l.children) = B /\ \A i \in 1..B : l.children[i] = nd.children[i]
    BY <1>3, SplitLeftFacts
  <2>3. /\ Len(r.children) = len - B + 1
        /\ \A i \in 1..(len - B + 1) : r.children[i] = nd.children[B + i]
    BY <1>3, SplitRightFacts
  <2> HIDE DEF l, r, len
  <2>4. ASSUME NEW p \in 1..(len + 1) PROVE nd.children[p] \in KidsOf(l) \cup KidsOf(r)
    <3>1. CASE p <= B
      <4>1. p \in 1..B
        BY <1>1, <3>1
      <4> QED BY <2>2, <4>1 DEF KidsOf
    <3>2. CASE B < p
      <4>1. p - B \in 1..(len - B + 1) /\ B + (p - B) = p
        BY <1>1, <3>2
      <4>2. r.children[p - B] = nd.children[p]
        BY <2>3, <4>1
      <4> QED BY <2>3, <4>1, <4>2 DEF KidsOf
    <3> QED BY <1>1, <3>1, <3>2
  <2>5. KidsOf(nd) = {nd.children[p] : p \in 1..(len + 1)}
    BY <2>1 DEF KidsOf
  <2>6. KidsOf(nd) \subseteq KidsOf(l) \cup KidsOf(r)
    BY <2>4, <2>5
  <2> QED BY <2>6 DEF l, r
<1> QED BY <1>2, <1>3, NodeFields

(***************************************************************************)
(* A step that stores nothing and starts no split.                         *)
(***************************************************************************)
Quiet ==
    /\ pc \notin Torn /\ pc' \notin Splitting /\ nodes' = nodes /\ rootOffset' = rootOffset
    /\ pc' \notin {"adoptLeft", "adoptRight"}
    /\ pc = "adoptLeft" => kind = "insert"
    /\ pc' \in Bulky => kind' = "batch"
    /\ pc' \in {"descend", "link"} \cup Bulky => Up(at')
    /\ \A k \in Key : allowed[k] \subseteq allowed'[k] /\ (None \in allowed[k] => None \in allowed'[k])

(***************************************************************************)
(* Such a step keeps the invariant.                                        *)
(***************************************************************************)
LEMMA HeldQuiet ==
    ASSUME NEW lev, Shape(lev), Held, Quiet
    PROVE  Held'
<1>1. Stored(nodes) /\ rootOffset \in 1..Newest /\ Newest \in Nat
  BY StoredFacts DEF Shape, Newest
<1>2. Widening(nodes, nodes')
  BY DEF Widening, Quiet
<1>3. Carries(rootOffset)
  <2>1. \A n : InTree(n) => After(n)
    BY <1>1, <1>2, StaysInTree DEF Quiet
  <2>2. ASSUME NEW k \in Key, None \notin allowed'[k] PROVE KeepsKey(rootOffset, k)
    <3>1. allowed[k] \subseteq allowed'[k] /\ None \notin allowed[k]
      BY <2>2 DEF Quiet
    <3>2. Has(nodes[rootOffset], k, allowed[k]) => Has(nodes'[rootOffset], k, allowed'[k])
      BY <3>1, HasMore DEF Quiet
    <3> QED BY <3>1, <3>2 DEF KeepsKey
  <2>3. pc # "sibling" /\ pc' # "sibling"
    BY DEF Quiet, Torn, Splitting
  <2>4. /\ Len(nodes') = Newest
        /\ \A n \in 1..Newest : n # rootOffset => nodes'[n] = nodes[n]
        /\ \E q \in 1..Newest : nodes'[rootOffset].parent = nodes[q].parent
    BY <1>1 DEF Quiet, Newest
  <2> QED BY <1>1, <2>1, <2>2, <2>3, <2>4 DEF Carries
<1>4. SplitOfRoot' /\ OfBatch'
  BY DEF Quiet, SplitOfRoot, OfBatch, Splitting, Torn
<1>5. OneFlag'
  <2>1. \A n \in 1..Newest : nodes[n].isRoot => n = rootOffset
    BY DEF Held, OneFlag, Quiet, Torn
  <2> QED BY <2>1 DEF OneFlag, Quiet, Newest, Splitting
<1>6. Working'
  BY DEF Quiet, Working, Up
<1> QED BY <1>3, <1>4, <1>5, <1>6, Carried DEF Held

(***************************************************************************)
(* A store over one node.                                                  *)
(***************************************************************************)
MaySwap(f, n, nd, g) ==
    /\ Stored(f) /\ n \in 1..Len(f)
    /\ nd \in Node(Len(f)) /\ WellFormed(nd)
    /\ g = [f EXCEPT ![n] = nd]

(***************************************************************************)
(* Its effect on the file.                                                 *)
(***************************************************************************)
LEMMA Swapped ==
    ASSUME NEW f, NEW n, NEW nd, NEW g, MaySwap(f, n, nd, g)
    PROVE  /\ Stored(g) /\ Len(g) = Len(f) /\ g[n] = nd
           /\ \A m \in 1..Len(f) : m # n => g[m] = f[m]
<1>1. Stored(f) /\ n \in 1..Len(f)
  BY DEF MaySwap
<1>2. nd \in Node(Len(f)) /\ WellFormed(nd)
  BY DEF MaySwap
<1> DEFINE h == [f EXCEPT ![n] = nd]
<1>3. /\ Stored(h) /\ Len(h) = Len(f) /\ h[n] = nd
      /\ \A m \in 1..Len(f) : m # n => h[m] = f[m]
  BY <1>1, <1>2, Replaced
<1>4. g = h
  BY DEF MaySwap
<1> HIDE DEF h
<1> QED BY <1>3, <1>4

(***************************************************************************)
(* An insert starts at the root; a full root is truncated at once, and     *)
(* what was linked from it is linked from it or from the sibling in        *)
(* memory.                                                                 *)
(***************************************************************************)
LEMMA HeldInsert ==
    ASSUME NEW lev, Shape(lev), Writer, Held, NEW k \in Key, NEW v \in Value, Insert(k, v)
    PROVE  Held'
<1>1. /\ pc = "idle" /\ allowed' = [allowed EXCEPT ![k] = @ \cup {v}]
      /\ kind' = "insert" /\ at' = rootOffset /\ rootOffset' = rootOffset
  BY DEF Insert
<1>2. /\ Stored(nodes) /\ rootOffset \in 1..Newest /\ Newest \in Nat
      /\ nodes[rootOffset] \in Node(Newest) /\ WellFormed(nodes[rootOffset])
  BY StoredFacts DEF Shape, Newest
<1>3. \A j \in Key : allowed[j] \subseteq allowed'[j] /\ (None \in allowed[j] => None \in allowed'[j])
  BY <1>1 DEF Writer
<1>4. Up(rootOffset)
  BY <1>2, LinkedSelf DEF Up, Newest
<1>5. CASE pc' = "descend" /\ nodes' = nodes
  <2>1. Quiet
    BY <1>1, <1>3, <1>4, <1>5 DEF Quiet, Torn, Splitting, Bulky
  <2> QED BY <2>1, HeldQuiet
<1>6. CASE /\ IsFull(nodes[rootOffset])
           /\ nodes' = [nodes EXCEPT ![rootOffset] = [SplitLeft(nodes[rootOffset]) EXCEPT !.isRoot = FALSE]]
           /\ sib' = SplitRight(nodes[rootOffset])
           /\ pc' = "sibling"
  <2> DEFINE old == nodes[rootOffset]
             left == SplitLeft(old)
             nd == [left EXCEPT !.isRoot = FALSE]
             right == SplitRight(old)
  <2>1. /\ left \in Node(Newest) /\ WellFormed(left) /\ left.parent = old.parent
        /\ right.isRoot = FALSE /\ right.parent = old.parent
    BY <1>2, <1>6, SplitLeftFacts, SplitRightFacts
  <2>2. /\ KidsOf(old) \subseteq KidsOf(left) \cup KidsOf(right)
        /\ \A j, vals : Has(old, j, vals) => Has(left, j, vals) \/ Has(right, j, vals)
    BY <1>2, <1>6, SplitKids, SplitHas
  <2>3. /\ nodes' = [nodes EXCEPT ![rootOffset] = nd] /\ sib' = right
    BY <1>6
  <2> HIDE DEF left, right
  <2>4. /\ nd \in Node(Newest) /\ WellFormed(nd) /\ nd.leaf = left.leaf /\ nd.isRoot = FALSE
        /\ nd.parent = old.parent /\ nd.keys = left.keys /\ nd.values = left.values
        /\ nd.children = left.children
    BY <1>2, <2>1, RootFlag
  <2> HIDE DEF nd
  <2>5. KidsOf(nd) = KidsOf(left) /\ \A j, vals : Has(left, j, vals) => Has(nd, j, vals)
    BY <2>4 DEF KidsOf, Has
  <2>6. /\ Stored(nodes') /\ Len(nodes') = Newest /\ nodes'[rootOffset] = nd
        /\ \A m \in 1..Newest : m # rootOffset => nodes'[m] = nodes[m]
    <3>1. Stored(nodes) /\ rootOffset \in 1..Len(nodes) /\ Len(nodes) = Newest
      BY <1>2 DEF Newest
    <3>2. nd \in Node(Len(nodes)) /\ WellFormed(nd)
      BY <2>4, <3>1
    <3>3. nodes' = [nodes EXCEPT ![rootOffset] = nd]
      BY <2>3
    <3> HIDE DEF old
    <3>4. /\ Stored(nodes') /\ Len(nodes') = Len(nodes) /\ nodes'[rootOffset] = nd
          /\ \A m \in 1..Len(nodes) : m # rootOffset => nodes'[m] = nodes[m]
      <4>1. MaySwap(nodes, rootOffset, nd, nodes')
        BY <3>1, <3>2, <3>3, Zenon DEF MaySwap
      <4> QED BY <4>1, Swapped
    <3> QED BY <3>1, <3>4, Zenon
  <2>7. ASSUME NEW n, InTree(n) PROVE After(n)
    <3> DEFINE rest == KidsOf(right)
    <3>1. rest \subseteq 1..Newest
      <4>1. right \in Node(Newest) /\ WellFormed(right)
        BY <1>2, <1>6, SplitRightFacts DEF right
      <4>2. \A p \in 1..Len(right.children) : right.children[p] \in 1..Newest
        BY <1>2, <4>1, NodeFields
      <4> QED BY <4>2 DEF KidsOf
    <3>2. \A m \in 1..Newest : /\ Kids(nodes')[m] = KidsOf(nodes'[m])
                               /\ Kids(nodes)[m] = KidsOf(nodes[m])
      BY <2>6 DEF Kids, KidsOf, Newest
    <3>3. /\ \A m \in 1..Newest : m # rootOffset => Kids(nodes')[m] = Kids(nodes)[m]
          /\ Kids(nodes)[rootOffset] \subseteq Kids(nodes')[rootOffset] \cup rest
      BY <1>2, <2>2, <2>5, <2>6, <3>2
    <3>4. Linked(nodes, rootOffset, n)
      BY <1>1, <2>7 DEF InTree, Tree
    <3> HIDE DEF rest
    <3>5. Linked(nodes', rootOffset, n) \/ \E c \in rest : Linked(nodes', c, n)
      BY <1>2, <2>6, <3>1, <3>3, <3>4, LinkedCut DEF Newest
    <3> QED BY <1>1, <1>6, <2>3, <3>5 DEF After, Tree, rest
  <2>8. SplitOfRoot'
    BY <1>1, <1>6 DEF SplitOfRoot
  <2>9. OneFlag'
    <3>1. \A n \in 1..Newest : nodes'[n].isRoot => n = rootOffset
      BY <1>1, <2>6 DEF Held, OneFlag
    <3>2. ~nodes'[rootOffset].isRoot /\ ~sib'.isRoot
      BY <2>1, <2>3, <2>4, <2>6
    <3> QED BY <1>1, <1>6, <2>6, <3>1, <3>2 DEF OneFlag, Newest
  <2>10. OfBatch' /\ Working'
    BY <1>6 DEF OfBatch, Working, Bulky
  <2>11. ParentsUp'
    <3>1. \A n \in 1..Newest : nodes[n].parent # NoParent => After(nodes[n].parent)
      BY <2>7 DEF Held, ParentsUp
    <3>2. \A n \in 1..Newest : nodes'[n].parent = nodes[n].parent
      BY <2>4, <2>6
    <3>3. \A n \in 1..Len(nodes') : nodes'[n].parent # NoParent => After(nodes'[n].parent)
      BY <2>6, <3>1, <3>2
    <3>4. sib'.parent # NoParent => After(sib'.parent)
      BY <1>2, <2>1, <2>3, <3>1
    <3> QED BY <3>3, <3>4 DEF ParentsUp, InTree, After, Newest
  <2>12. ASSUME NEW j \in Key, None \notin allowed'[j]
         PROVE  \/ \E n \in 1..Len(nodes') : After(n) /\ Has(nodes'[n], j, allowed'[j])
                \/ Has(sib', j, allowed'[j])
    <3>1. allowed[j] \subseteq allowed'[j] /\ None \notin allowed[j]
      BY <1>3, <2>12
    <3>2. PICK n \in 1..Newest : InTree(n) /\ Has(nodes[n], j, allowed[j])
      BY <1>1, <3>1 DEF Held, AllKept, Found
    <3>3. Has(nodes[n], j, allowed'[j]) /\ After(n)
      BY <2>7, <3>1, <3>2, HasMore
    <3>4. CASE n # rootOffset
      BY <2>6, <3>2, <3>3, <3>4
    <3>5. CASE n = rootOffset
      BY <2>2, <2>3, <2>5, <2>6, <3>2, <3>3, <3>5
    <3> QED BY <3>4, <3>5
  <2>13. AllKept'
    BY <1>6, <2>12 DEF AllKept, Found, InTree, After, Newest
  <2> QED BY <2>8, <2>9, <2>10, <2>11, <2>13 DEF Held
<1> QED BY <1>5, <1>6 DEF Insert

(***************************************************************************)
(* A search goes through children: the leaves it finds are linked from     *)
(* where it starts.                                                        *)
(***************************************************************************)
LEMMA LeavesLinked ==
    ASSUME NEW file, Stored(file), NEW lev, Leveled(file, lev), NEW key, NEW s \in 1..Len(file)
    PROVE  \A m \in LeavesIn(file, s, key) : Linked(file, s, m)
<1> DEFINE D == 1..Len(file)
           T == {n \in D : \A m \in LeavesIn(file, n, key) : Linked(file, n, m)}
<1>1. \A n \in D : lev[n] \in Nat
  BY DEF Leveled
<1>2. ASSUME NEW n \in D, \A c \in D : lev[c] < lev[n] => c \in T PROVE n \in T
  <2>1. CASE file[n].leaf
    <3>1. LeavesIn(file, n, key) = {n}
      BY <2>1, LeavesStep
    <3> QED BY <3>1, LinkedSelf
  <2>2. CASE ~file[n].leaf
    <3> SUFFICES ASSUME NEW m \in LeavesIn(file, n, key) PROVE Linked(file, n, m)
      OBVIOUS
    <3>1. PICK p \in Positions(file[n].keys, key) : m \in LeavesIn(file, file[n].children[p], key)
      <4>1. LeavesIn(file, n, key) =
               UNION {LeavesIn(file, file[n].children[p], key) : p \in Positions(file[n].keys, key)}
        BY <2>2, LeavesStep
      <4> QED BY <4>1
    <3>2. p \in 1..(Len(file[n].keys) + 1)
      <4>1. Len(file[n].keys) \in Nat
        BY StoredFacts
      <4> QED BY <4>1, PositionsIn
    <3> DEFINE c == file[n].children[p]
    <3>3. c \in D /\ lev[c] < lev[n] /\ p \in 1..Len(file[n].children)
      BY <2>2, <3>2, WayDown
    <3>4. c \in Kids(file)[n]
      BY <3>3 DEF Kids
    <3> HIDE DEF c
    <3>5. Linked(file, c, m)
      BY <1>2, <3>1, <3>3 DEF c
    <3> QED BY <3>3, <3>4, <3>5, ThroughKid
  <2> QED BY <2>1, <2>2
<1>3. \A n \in D : n \in T
  <2> HIDE DEF D, T
  <2> QED BY <1>1, <1>2, LevelInduction
<1> QED BY <1>3

(***************************************************************************)
(* A batch starts at a leaf that a search of its first key finds.          *)
(***************************************************************************)
LEMMA HeldBatchInsert ==
    ASSUME NEW lev, Shape(lev), Writer, Held, NEW entries \in Batches, BatchInsert(entries)
    PROVE  Held'
<1>1. /\ pc = "idle" /\ pc' = "batchEntry" /\ kind' = "batch" /\ nodes' = nodes /\ rootOffset' = rootOffset
      /\ at' \in LeavesIn(nodes, rootOffset, entries[1][1])
      /\ allowed' = [k \in Key |-> allowed[k] \cup {entries[i][2] : i \in {j \in DOMAIN entries :
                                                               entries[j][1] = k}}]
  BY DEF BatchInsert, disk, Leaves, LeavesUnder
<1>2. Up(at')
  BY <1>1, LeavesLinked DEF Up, Shape, Newest
<1>3. \A k \in Key : allowed[k] \subseteq allowed'[k] /\ (None \in allowed[k] => None \in allowed'[k])
  BY <1>1
<1>4. Quiet
  BY <1>1, <1>2, <1>3 DEF Quiet, Torn, Splitting
<1> QED BY <1>4, HeldQuiet

(***************************************************************************)
(* A crash outside a root split: the tree stays as it is.                  *)
(***************************************************************************)
LEMMA HeldCrash ==
    ASSUME NEW lev, Shape(lev), Held, kind = "insert", pc \notin Torn, Crash
    PROVE  Held'
<1>1. Quiet
  BY DEF Crash, Return, disk, Quiet, Torn, Splitting, Bulky
<1> QED BY <1>1, HeldQuiet

(***************************************************************************)
(* Every store keeps the invariant.                                        *)
(***************************************************************************)
LEMMA HeldStore ==
    ASSUME NEW lev, Shape(lev), Writer, Held, Store, pc \in Bulky => Parents(lev)
    PROVE  Held'
<1>1. CASE RootSibling
  BY <1>1, HeldRootSibling
<1>2. CASE GrowRoot
  BY <1>2, HeldGrowRoot
<1>3. CASE SetRootOffset
  BY <1>3, HeldSetRoot
<1>4. CASE AdoptLeft
  BY <1>4, HeldAdoptLeft
<1>5. CASE AdoptRight
  BY <1>5, HeldAdoptRight
<1>6. CASE Descend
  BY <1>6, HeldDescend
<1>7. CASE LinkSibling
  BY <1>7, HeldLinkSibling
<1>8. CASE StoreLeaf
  BY <1>8, HeldStoreLeaf
<1>9. CASE BatchStore
  BY <1>9, HeldPutEntry DEF BatchStore
<1>10. CASE BatchSibling
  BY <1>10, HeldBatchSibling
<1>11. CASE BatchLeft
  BY <1>11, HeldBatchLeft DEF BatchLeft, Bulky
<1>12. CASE BatchParent
  BY <1>12, HeldBatchParent DEF BatchParent, Bulky
<1>13. CASE BatchPut
  BY <1>13, HeldPutEntry DEF BatchPut
<1> QED BY <1>1, <1>2, <1>3, <1>4, <1>5, <1>6, <1>7, <1>8, <1>9, <1>10, <1>11, <1>12, <1>13 DEF Store

(***************************************************************************)
(* The fresh file.                                                         *)
(***************************************************************************)
LEMMA HeldInit ==
    ASSUME Init
    PROVE  Held
<1>1. /\ Len(nodes) = 1 /\ nodes[1].isRoot = TRUE /\ nodes[1].parent = NoParent /\ rootOffset = 1
      /\ pc = "idle" /\ \A k \in Key : None \in allowed[k]
  BY DEF Init, Idle, NewLeaf
<1>2. \A n \in 1..Newest : n = 1
  BY <1>1 DEF Newest
<1>3. SplitOfRoot /\ OneFlag /\ OfBatch /\ Working /\ ParentsUp /\ AllKept
  BY <1>1, <1>2 DEF SplitOfRoot, OneFlag, OfBatch, Working, ParentsUp, AllKept, Bulky
<1> QED BY <1>3 DEF Held

(***************************************************************************)
(* A step that changes nothing.                                            *)
(***************************************************************************)
LEMMA HeldStutter ==
    ASSUME Held, UNCHANGED vars
    PROVE  Held'
  BY DEF vars, disk, locals, Held, SplitOfRoot, OneFlag, OfBatch, Working, ParentsUp, AllKept, Found,
         InTree, Tree, Up, Newest

(***************************************************************************)
(* Between operations the invariant says what LatestValueReachable says.   *)
(***************************************************************************)
LEMMA HeldReachable ==
    ASSUME NEW lev, Shape(lev), Held
    PROVE  LatestValueReachable
<1> SUFFICES ASSUME pc = "idle", NEW k \in Key, None \notin allowed[k]
             PROVE  \E n \in Below : /\ nodes[n].leaf
                                     /\ \E p \in Hits(nodes[n].keys, k) : nodes[n].values[p] \in allowed[k]
  BY DEF LatestValueReachable
<1>1. PICK n \in 1..Newest : InTree(n) /\ Has(nodes[n], k, allowed[k])
  BY DEF Held, AllKept, Found
<1>2. Linked(nodes, rootOffset, n)
  BY <1>1 DEF InTree, Tree
<1>3. n \in Below
  BY <1>2, LinkedBelow DEF Below, Shape, Newest
<1> QED BY <1>1, <1>3 DEF Has, Hits

(***************************************************************************)
(* The steps of AnySpec.                                                   *)
(***************************************************************************)
LEMMA HeldNext ==
    ASSUME Whole, Held, [AnyInsert \/ AnyBatch \/ Store]_vars
    PROVE  Held'
<1>1. PICK lev : Shape(lev) /\ Parents(lev)
  BY DEF Whole
<1>2. Writer
  BY DEF Whole
<1>3. CASE AnyInsert
  BY <1>1, <1>2, <1>3, HeldInsert DEF AnyInsert
<1>4. CASE AnyBatch
  BY <1>1, <1>2, <1>4, HeldBatchInsert DEF AnyBatch
<1>5. CASE Store
  BY <1>1, <1>2, <1>5, HeldStore
<1> QED BY <1>3, <1>4, <1>5, HeldStutter

(***************************************************************************)
(* The steps of AnyUntornSpec.                                             *)
(***************************************************************************)
LEMMA HeldAcrossCrashes ==
    ASSUME Restored, Held, [AnyInsert \/ Store \/ (pc \notin Torn /\ Crash)]_vars
    PROVE  Held'
<1>1. PICK lev : Shape(lev)
  BY DEF Restored
<1>2. Writer /\ kind = "insert" /\ pc \notin Bulky
  BY DEF Restored
<1>3. CASE AnyInsert
  BY <1>1, <1>2, <1>3, HeldInsert DEF AnyInsert
<1>4. CASE Store
  BY <1>1, <1>2, <1>4, HeldStore
<1>5. CASE pc \notin Torn /\ Crash
  BY <1>1, <1>2, <1>5, HeldCrash
<1> QED BY <1>3, <1>4, <1>5, HeldStutter

(***************************************************************************)
(* Whatever keys insert and batch_insert are given, in whatever order, the *)
(* value given to a key last is in a leaf below the root once its          *)
(* insertion has returned: a search may be led past it, but no split,      *)
(* stale parent or stale copy drops it from the file.                      *)
(***************************************************************************)
THEOREM AnyTreeKeeps == AnySpec => []LatestValueReachable
<1>1. Init => Whole /\ Held
  BY ShapeInit, HeldInit DEF Whole
<1>2. Whole /\ Held /\ [AnyInsert \/ AnyBatch \/ Store]_vars => (Whole /\ Held)'
  BY WholeNext, HeldNext
<1>3. Whole /\ Held => LatestValueReachable
  BY HeldReachable DEF Whole
<1> QED BY <1>1, <1>2, <1>3, PTL DEF AnySpec

(***************************************************************************)
(* The same for a tree filled by insert, whose writer may die between any  *)
(* two stores but in the middle of a root split, and go on.                *)
(***************************************************************************)
THEOREM UntornTreeKeeps == AnyUntornSpec => []LatestValueReachable
<1>1. Init => Restored /\ Held
  BY ShapeInit, HeldInit DEF Restored, Init, Idle, Bulky
<1>2. Restored /\ Held /\ [AnyInsert \/ Store \/ (pc \notin Torn /\ Crash)]_vars => (Restored /\ Held)'
  BY RestoredNext, HeldAcrossCrashes
<1>3. Restored /\ Held => LatestValueReachable
  BY HeldReachable DEF Restored
<1> QED BY <1>1, <1>2, <1>3, PTL DEF AnyUntornSpec
=============================================================================
