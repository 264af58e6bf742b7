----------------------------- MODULE RangeProofs -----------------------------
(***************************************************************************)
(* RangeLastWins of MmapTree, for trees filled in ascending order: any     *)
(* keys, values, ranges, split points and numbers of nodes.                *)
(***************************************************************************)
EXTENDS MmapTreeProofs

-----------------------------------------------------------------------------
(* What get_range returns of one leaf, and of lists put in a row. *)

(***************************************************************************)
(* The last pair for k has value v.                                        *)
(***************************************************************************)
LastIs(pairs, k, v) ==
    \E i \in 1..Len(pairs) : /\ pairs[i] = <<k, v>>
                             /\ \A j \in 1..Len(pairs) : pairs[j][1] = k => j <= i

(***************************************************************************)
(* No pair is for k.                                                       *)
(***************************************************************************)
Lacks(pairs, k) == \A i \in 1..Len(pairs) : pairs[i][1] # k

(***************************************************************************)
(* Of two lists in a row, the second has the last pair, unless it has none.*)
(***************************************************************************)
LEMMA LastOfTwo ==
    ASSUME NEW X, NEW s \in Seq(X), NEW t \in Seq(X), NEW k, NEW v
    PROVE  /\ LastIs(t, k, v) => LastIs(s \o t, k, v)
           /\ LastIs(s, k, v) /\ Lacks(t, k) => LastIs(s \o t, k, v)
<1> DEFINE m == Len(s)
           n == Len(t)
           u == s \o t
<1>1. /\ m \in Nat /\ n \in Nat /\ Len(u) = m + n
      /\ \A i \in 1..m : u[i] = s[i]
      /\ \A i \in 1..n : u[m + i] = t[i]
  OBVIOUS
<1>2. \A j \in 1..(m + n) : j \in 1..m \/ (j - m \in 1..n /\ m + (j - m) = j)
  BY <1>1
<1> HIDE DEF m, n, u
<1>3. ASSUME LastIs(t, k, v) PROVE LastIs(u, k, v)
  <2>1. PICK i \in 1..n : t[i] = <<k, v>> /\ \A j \in 1..n : t[j][1] = k => j <= i
    BY <1>3 DEF LastIs, n
  <2>2. m + i \in 1..Len(u) /\ u[m + i] = <<k, v>>
    BY <1>1, <2>1
  <2>3. ASSUME NEW j \in 1..Len(u), u[j][1] = k PROVE j <= m + i
    <3>1. CASE j \in 1..m
      BY <1>1, <3>1
    <3>2. CASE j - m \in 1..n /\ m + (j - m) = j
      <4>1. u[j] = t[j - m]
        BY <1>1, <3>2
      <4>2. j - m <= i
        BY <2>1, <2>3, <3>2, <4>1
      <4> QED BY <1>1, <4>2
    <3> QED BY <1>1, <1>2, <3>1, <3>2
  <2> QED BY <2>2, <2>3 DEF LastIs
<1>4. ASSUME LastIs(s, k, v), Lacks(t, k) PROVE LastIs(u, k, v)
  <2>1. PICK i \in 1..m : s[i] = <<k, v>> /\ \A j \in 1..m : s[j][1] = k => j <= i
    BY <1>4 DEF LastIs, m
  <2>2. i \in 1..Len(u) /\ u[i] = <<k, v>>
    BY <1>1, <2>1
  <2>3. ASSUME NEW j \in 1..Len(u), u[j][1] = k PROVE j <= i
    <3>1. CASE j \in 1..m
      BY <1>1, <2>1, <2>3, <3>1
    <3>2. CASE j - m \in 1..n /\ m + (j - m) = j
      <4>1. u[j] = t[j - m]
        BY <1>1, <3>2
      <4> QED BY <1>4, <2>3, <3>2, <4>1 DEF Lacks, n
    <3> QED BY <1>1, <1>2, <3>1, <3>2
  <2> QED BY <2>2, <2>3 DEF LastIs
<1> QED BY <1>3, <1>4 DEF u

(***************************************************************************)
(* Of lists in a row, the last pair is that of the last list that has one. *)
(***************************************************************************)
LEMMA LastOfMany ==
    ASSUME NEW X, NEW seqs \in Seq(Seq(X)), NEW k, NEW v, NEW x \in 1..Len(seqs),
           LastIs(seqs[x], k, v), \A i \in 1..Len(seqs) : x < i => Lacks(seqs[i], k)
    PROVE  LastIs(FlattenSeq(seqs), k, v)
<1> DEFINE n == Len(seqs)
<1>1. n \in Nat /\ \A i \in 1..n : seqs[i] \in Seq(X)
  OBVIOUS
<1>2. PICK h \in FlattensOf(X, seqs) : FlattenSeq(seqs) = h[n]
  BY FlattenSteps
<1>3. h \in [0..n -> Seq(X)] /\ \A i \in 1..n : h[i] = h[i - 1] \o seqs[i]
  BY <1>2 DEF FlattensOf
<1> DEFINE P == {i \in 0..n : x <= i => LastIs(h[i], k, v)}
<1>4. 0 \in P
  BY <1>1
<1>5. ASSUME NEW i \in 1..n, i - 1 \in P PROVE i \in P
  <2>1. i \in 0..n /\ i - 1 \in 0..n /\ (x <= i - 1 => LastIs(h[i - 1], k, v))
    BY <1>1, <1>5
  <2>2. h[i - 1] \in Seq(X) /\ seqs[i] \in Seq(X) /\ h[i] = h[i - 1] \o seqs[i]
    BY <1>1, <1>3, <2>1
  <2>3. CASE i < x
    BY <1>1, <2>1, <2>3
  <2>4. CASE i = x
    <3>1. LastIs(h[i - 1] \o seqs[i], k, v)
      BY <2>2, <2>4, LastOfTwo
    <3> QED BY <2>1, <2>2, <3>1
  <2>5. CASE x < i
    <3>1. LastIs(h[i - 1], k, v) /\ Lacks(seqs[i], k)
      BY <1>1, <2>1, <2>5
    <3>2. LastIs(h[i - 1] \o seqs[i], k, v)
      BY <2>2, <3>1, LastOfTwo
    <3> QED BY <2>1, <2>2, <3>2
  <2> QED BY <1>1, <2>3, <2>4, <2>5
<1>6. \A i \in 0..n : i \in P
  <2> HIDE DEF P, n
  <2> QED BY <1>1, <1>4, <1>5, Climb
<1> QED BY <1>1, <1>2, <1>6

(***************************************************************************)
(* The slots get_range visits: no key before the first is in the range,    *)
(* none at the last or after it.                                           *)
(***************************************************************************)
HasSlots(keys, p, q, start, end) ==
    /\ p \in 1..Len(keys) /\ q \in p..(Len(keys) + 1)
    /\ \A i \in 1..Len(keys) : /\ i < p => keys[i] < start
                               /\ q <= i => end <= keys[i]
                               /\ p <= i /\ i < q => keys[i] < end

(***************************************************************************)
(* FirstSlot and LastSlot find them.                                       *)
(***************************************************************************)
LEMMA SlotFacts ==
    ASSUME NEW keys \in Seq(Key), Sorted(keys), 1 <= Len(keys), NEW start \in Nat, NEW end \in Nat
    PROVE  HasSlots(keys, FirstSlot(keys, start), LastSlot(keys, FirstSlot(keys, start), end), start, end)
<1> DEFINE L == Len(keys)
           p == FirstSlot(keys, start)
           q == LastSlot(keys, p, end)
           past == {i \in p..L : end <= keys[i]}
<1>1. L \in Nat /\ 1 <= L /\ \A i \in 1..L : keys[i] \in Nat
  <2>1. L \in Nat /\ \A i \in 1..L : keys[i] \in Key
    OBVIOUS
  <2> QED BY <2>1, KeyIsNumber
<1>2. \A i, j \in 1..L : i < j => keys[i] < keys[j]
  BY DEF Sorted
<1>3. PICK o \in 1..(L + 1) :
          /\ Positions(keys, start) = {o}
          /\ \/ o \in 1..L /\ keys[o] = start /\ Hits(keys, start) = {o} /\ Gaps(keys, start) = {}
             \/ Hits(keys, start) = {} /\ Gaps(keys, start) = {o}
  BY NumberPosition
<1>4. \A i \in 1..L : i < o => keys[i] < start
  <2> SUFFICES ASSUME NEW i \in 1..L, i < o PROVE keys[i] < start
    OBVIOUS
  <2>1. CASE o \in 1..L /\ keys[o] = start
    BY <1>2, <2>1
  <2>2. CASE Gaps(keys, start) = {o}
    <3>1. o = 1 \/ keys[o - 1] < start
      BY <2>2 DEF Gaps
    <3>2. o - 1 \in 1..L /\ i <= o - 1 /\ o # 1
      BY <1>1
    <3>3. i = o - 1 \/ keys[i] < keys[o - 1]
      BY <1>2, <3>2
    <3> QED BY <1>1, <3>1, <3>2, <3>3
  <2> QED BY <1>3, <2>1, <2>2
<1>5. p = IF o = L + 1 THEN o - 1 ELSE o
  <2>1. Least({o}) = o
    BY DEF Least
  <2> QED BY <1>3, <2>1 DEF FirstSlot
<1> HIDE DEF L, p, past
<1>6. p \in 1..L /\ \A i \in 1..L : i < p => keys[i] < start
  BY <1>1, <1>3, <1>4, <1>5
<1>7. q = IF past = {} THEN L + 1 ELSE Least(past)
  BY DEF LastSlot, past, L
<1> HIDE DEF q
<1>8. CASE past = {}
  <2>1. q = L + 1
    BY <1>7, <1>8
  <2>2. \A i \in 1..L : p <= i => keys[i] < end
    <3> SUFFICES ASSUME NEW i \in 1..L, p <= i PROVE keys[i] < end
      OBVIOUS
    <3>1. i \in p..L
      BY <1>1, <1>6
    <3>2. ~(end <= keys[i])
      BY <1>8, <3>1 DEF past
    <3> QED BY <1>1, <3>2
  <2> QED BY <1>1, <1>6, <2>1, <2>2 DEF HasSlots, L, p, q
<1>9. CASE past # {}
  <2>0. past \in SUBSET Nat
    BY <1>1, <1>6 DEF past
  <2>1. PICK m \in past : \A i \in past : m <= i
    BY <1>9, <2>0, LeastNumber
  <2>2. Least(past) \in past /\ \A i \in past : Least(past) <= i
    BY <2>1 DEF Least
  <2>3. q \in p..L /\ end <= keys[q] /\ \A i \in p..L : end <= keys[i] => q <= i
    BY <1>7, <1>9, <2>2 DEF past
  <2>4. q \in 1..L /\ q \in p..(L + 1)
    BY <1>1, <1>6, <2>3
  <2>5. ASSUME NEW i \in 1..L, q <= i PROVE end <= keys[i]
    <3>1. i = q \/ keys[q] < keys[i]
      BY <1>1, <1>2, <2>4, <2>5
    <3> QED BY <1>1, <2>3, <2>4, <3>1
  <2>6. ASSUME NEW i \in 1..L, p <= i, i < q PROVE keys[i] < end
    <3>1. i \in p..L
      BY <1>1, <1>6, <2>6
    <3>2. ~(end <= keys[i])
      BY <1>1, <2>3, <2>4, <2>6, <3>1
    <3> QED BY <1>1, <3>2
  <2> QED BY <1>6, <2>4, <2>5, <2>6 DEF HasSlots, L, p, q
<1> QED BY <1>8, <1>9

(***************************************************************************)
(* The keys of a leaf with their values.                                   *)
(***************************************************************************)
PairsOf(nd) == [i \in DOMAIN nd.keys |-> <<nd.keys[i], nd.values[i]>>]

(***************************************************************************)
(* A leaf gives pairs it has, and of each of its keys that is in the range *)
(* the value.                                                              *)
(***************************************************************************)
LEMMA LeafRangeIs ==
    ASSUME NEW N \in Nat, NEW nd \in Node(N), WellFormed(nd), nd.leaf, Sorted(nd.keys),
           NEW start \in Nat, NEW end \in Nat
    PROVE  LET pairs == LeafRange(nd, start, end)
           IN  /\ pairs \in Seq(Key \X Value)
               /\ \A i \in 1..Len(pairs) : \E j \in 1..Len(nd.keys) : pairs[i][1] = nd.keys[j]
               /\ \A j \in 1..Len(nd.keys) :
                     start <= nd.keys[j] /\ nd.keys[j] < end => LastIs(pairs, nd.keys[j], nd.values[j])
<1> DEFINE keys == nd.keys
           values == nd.values
           L == Len(keys)
           p == FirstSlot(keys, start)
           q == LastSlot(keys, p, end)
           at0 == {i \in p..(q - 1) : start <= keys[i]}
           s == PairsOf(nd)
           pairs == LeafRange(nd, start, end)
<1>1. /\ keys \in Seq(Key) /\ values \in Seq(Value) /\ L \in Nat /\ Len(values) = L
      /\ DOMAIN keys = 1..L
      /\ \A i \in 1..L : keys[i] \in Key /\ keys[i] \in Nat /\ values[i] \in Value
  <2>1. keys \in Seq(Key) /\ values \in Seq(Value) /\ Len(values) = L
    BY NodeFields
  <2> HIDE DEF keys, values
  <2>2. L \in Nat /\ DOMAIN keys = 1..L
    BY <2>1
  <2>3. \A i \in 1..L : keys[i] \in Key
    BY <2>1
  <2>4. \A i \in 1..L : values[i] \in Value
    BY <2>1
  <2> QED BY <2>1, <2>2, <2>3, <2>4, KeyIsNumber
<1>2. s \in Seq(Key \X Value) /\ Len(s) = L /\ \A i \in 1..L : s[i] = <<keys[i], values[i]>>
  BY <1>1 DEF PairsOf
<1>3. \A i, j \in 1..L : s[i] = s[j] => i = j
  <2> SUFFICES ASSUME NEW i \in 1..L, NEW j \in 1..L, s[i] = s[j] PROVE i = j
    OBVIOUS
  <2>1. keys[i] = keys[j]
    BY <1>2
  <2> QED BY <1>1, <2>1 DEF Sorted
<1>4. CASE keys = <<>>
  <2>1. pairs = <<>> /\ L = 0
    BY <1>4 DEF LeafRange
  <2> QED BY <2>1
<1>5. CASE keys # <<>>
  <2>1. 1 <= L
    BY <1>1, <1>5
  <2>2. HasSlots(keys, p, q, start, end)
    <3>1. keys \in Seq(Key) /\ Sorted(keys) /\ 1 <= Len(keys)
      BY <1>1, <2>1
    <3> HIDE DEF keys
    <3> QED BY <3>1, SlotFacts
  <2>3. pairs = AtPositions(s, at0)
    BY <1>5 DEF LeafRange, PairsOf
  <2>4. /\ p \in 1..L /\ q \in p..(L + 1)
        /\ \A i \in 1..L : /\ i < p => keys[i] < start
                           /\ q <= i => end <= keys[i]
    BY <2>2 DEF HasSlots
  <2> HIDE DEF p, q, s, pairs, keys, values, L
  <2>5. at0 \in SUBSET (1..L)
    BY <1>1, <2>4
  <2>6. \A i \in 1..L : start <= keys[i] /\ keys[i] < end => i \in at0
    <3> SUFFICES ASSUME NEW i \in 1..L, start <= keys[i], keys[i] < end PROVE i \in at0
      OBVIOUS
    <3>1. keys[i] \in Nat /\ ~(i < p) /\ ~(q <= i)
      BY <1>1, <2>4
    <3>2. i \in p..(q - 1)
      BY <1>1, <2>4, <3>1
    <3> QED BY <3>2
  <2> HIDE DEF at0
  <2>7. /\ pairs \in Seq(Key \X Value) /\ ToSet(pairs) = {s[i] : i \in at0}
        /\ \A i, j \in 1..Len(pairs) : pairs[i] = pairs[j] => i = j
    <3>1. s \in Seq(Key \X Value) /\ at0 \in SUBSET (1..Len(s))
      BY <1>2, <2>5
    <3>2. \A i, j \in 1..Len(s) : s[i] = s[j] => i = j
      BY <1>2, <1>3
    <3> QED BY <2>3, <3>1, <3>2, AtPositionsKeeps
  <2>8. DOMAIN pairs = 1..Len(pairs)
    BY <2>7
  <2>9. \A i \in 1..Len(pairs) : \E j \in at0 : pairs[i] = s[j]
    <3> TAKE i \in 1..Len(pairs)
    <3>1. pairs[i] \in ToSet(pairs)
      BY <2>8 DEF ToSet
    <3> QED BY <2>7, <3>1
  <2>10. \A i \in 1..Len(pairs) : \E j \in 1..L : pairs[i] = <<keys[j], values[j]>>
    BY <1>2, <2>5, <2>9
  <2>11. ASSUME NEW j \in 1..L, start <= keys[j], keys[j] < end
         PROVE  LastIs(pairs, keys[j], values[j])
    <3>1. s[j] \in ToSet(pairs)
      BY <2>6, <2>7, <2>11
    <3>2. PICK i \in 1..Len(pairs) : pairs[i] = s[j]
      BY <2>8, <3>1 DEF ToSet
    <3>3. ASSUME NEW o \in 1..Len(pairs), pairs[o][1] = keys[j] PROVE o <= i
      <4>1. PICK m \in 1..L : pairs[o] = <<keys[m], values[m]>>
        BY <2>10
      <4>2. keys[m] = keys[j]
        BY <3>3, <4>1
      <4>3. m = j
        BY <1>1, <4>2 DEF Sorted, keys, L
      <4>4. pairs[o] = pairs[i]
        BY <1>2, <3>2, <4>1, <4>3
      <4>5. o = i /\ i \in Nat
        BY <2>7, <4>4
      <4> QED BY <4>5
    <3>4. pairs[i] = <<keys[j], values[j]>>
      BY <1>2, <3>2
    <3> QED BY <3>3, <3>4 DEF LastIs
  <2>12. \A i \in 1..Len(pairs) : \E j \in 1..L : pairs[i][1] = keys[j]
    BY <2>10
  <2> QED BY <2>7, <2>11, <2>12 DEF pairs, keys, values, L
<1> QED BY <1>4, <1>5

-----------------------------------------------------------------------------
(* What get_range returns from a node. *)

(***************************************************************************)
(* A file whose nodes are ordered, with their levels.                      *)
(***************************************************************************)
Neat(file, lev) ==
    /\ Stored(file) /\ Leveled(file, lev)
    /\ \A n \in 1..Len(file) : NodeOrdered(file, file[n])

(***************************************************************************)
(* The pairs from node n, given those from its children.                   *)
(***************************************************************************)
RangeAt(file, f, n, start, end) ==
    IF file[n].leaf THEN LeafRange(file[n], start, end)
    ELSE LET keys == file[n].keys
             p == FirstSlot(keys, start)
             last == LastSlot(keys, p, end)
         IN  FlattenSeq([i \in 1..(last - p + 1) |-> f[file[n].children[p + i - 1]]])

(***************************************************************************)
(* The functions that give every node its pairs.                           *)
(***************************************************************************)
RangesOf(file, start, end) ==
    {f \in [1..Len(file) -> Seq(Key \X Value)] :
        \A n \in 1..Len(file) : f[n] = RangeAt(file, f, n, start, end)}

(***************************************************************************)
(* The slots visited in an internal node are those of children, one level  *)
(* below.                                                                  *)
(***************************************************************************)
LEMMA SlotChildren ==
    ASSUME NEW file, NEW lev, Neat(file, lev), NEW n \in 1..Len(file), ~file[n].leaf,
           NEW start \in Nat, NEW end \in Nat
    PROVE  LET keys == file[n].keys
               p == FirstSlot(keys, start)
               q == LastSlot(keys, p, end)
           IN  /\ HasSlots(keys, p, q, start, end) /\ Len(keys) \in Nat
               /\ q - p + 1 \in Nat
               /\ \A i \in 1..(q - p + 1) :
                     /\ p + i - 1 \in 1..(Len(keys) + 1)
                     /\ file[n].children[p + i - 1] \in 1..Len(file)
                     /\ lev[file[n].children[p + i - 1]] < lev[n]
<1> DEFINE keys == file[n].keys
           L == Len(keys)
           p == FirstSlot(keys, start)
           q == LastSlot(keys, p, end)
<1>1. Stored(file) /\ Leveled(file, lev) /\ NodeOrdered(file, file[n])
  BY DEF Neat
<1>2. keys \in Seq(Key) /\ L \in Nat /\ Sorted(keys) /\ 1 <= L
  BY <1>1, StoredFacts DEF NodeOrdered
<1>3. HasSlots(keys, p, q, start, end)
  <2> HIDE DEF keys
  <2> QED BY <1>2, SlotFacts
<1>4. p \in 1..L /\ q \in p..(L + 1)
  BY <1>3 DEF HasSlots
<1> HIDE DEF p, q
<1>5. q - p + 1 \in Nat
  BY <1>2, <1>4
<1>6. ASSUME NEW i \in 1..(q - p + 1)
      PROVE  /\ p + i - 1 \in 1..(L + 1)
             /\ file[n].children[p + i - 1] \in 1..Len(file)
             /\ lev[file[n].children[p + i - 1]] < lev[n]
  <2>1. p + i - 1 \in 1..(L + 1)
    BY <1>2, <1>4
  <2> QED BY <1>1, <2>1, WayDown
<1> QED BY <1>2, <1>3, <1>5, <1>6 DEF p, q

(***************************************************************************)
(* get_range is well-defined: there is such a function, and it returns the *)
(* pairs of the root.                                                      *)
(***************************************************************************)
LEMMA GetRangeIs ==
    ASSUME NEW lev, Neat(nodes, lev), rootOffset \in 1..Len(nodes), NEW start \in Nat, NEW end \in Nat
    PROVE  \E f \in RangesOf(nodes, start, end) : GetRange(start, end) = f[rootOffset]
<1> DEFINE Q == 1..Len(nodes)
           T == Seq(Key \X Value)
           F == [Q -> T]
           rule(e, n) == RangeAt(nodes, e, n, start, end)
           g == [e \in F |-> [n \in Q |-> rule(e, n)]]
           IsRule(e) == e = [n \in Q |-> rule(e, n)]
           range == CHOOSE e : IsRule(e)
<1>1. /\ Stored(nodes) /\ Leveled(nodes, lev) /\ lev \in [Q -> Nat] /\ DOMAIN nodes = Q
      /\ \A n \in Q : NodeOrdered(nodes, nodes[n])
  BY StoredFacts DEF Neat, Leveled
<1>2. ASSUME NEW e \in F, NEW n \in Q PROVE rule(e, n) \in T
  <2>1. CASE nodes[n].leaf
    <3>1. /\ Len(nodes) \in Nat /\ nodes[n] \in Node(Len(nodes)) /\ WellFormed(nodes[n])
          /\ Sorted(nodes[n].keys)
      BY <1>1, StoredFacts DEF NodeOrdered
    <3>2. LeafRange(nodes[n], start, end) \in T
      <4> HIDE DEF T
      <4> QED BY <2>1, <3>1, LeafRangeIs DEF T
    <3> QED BY <2>1, <3>2 DEF RangeAt
  <2>2. CASE ~nodes[n].leaf
    <3> DEFINE p == FirstSlot(nodes[n].keys, start)
               q == LastSlot(nodes[n].keys, p, end)
               seqs == [i \in 1..(q - p + 1) |-> e[nodes[n].children[p + i - 1]]]
    <3>1. /\ q - p + 1 \in Nat
          /\ \A i \in 1..(q - p + 1) : nodes[n].children[p + i - 1] \in Q
      BY <2>2, SlotChildren
    <3>2. rule(e, n) = FlattenSeq(seqs)
      BY <2>2 DEF RangeAt
    <3> HIDE DEF p, q
    <3>3. \A i \in 1..(q - p + 1) : e[nodes[n].children[p + i - 1]] \in T
      BY <3>1
    <3>4. seqs \in Seq(Seq(Key \X Value))
      <4> DEFINE w == q - p + 1
                 Y == Seq(Key \X Value)
      <4>1. w \in Nat /\ \A i \in 1..w : seqs[i] \in Y
        BY <3>1, <3>3
      <4>2. seqs = [i \in 1..w |-> seqs[i]]
        OBVIOUS
      <4> HIDE DEF w, Y, seqs
      <4>3. seqs \in [1..w -> Y]
        BY <4>1, <4>2
      <4>4. seqs \in Seq(Y)
        BY <4>1, <4>3
      <4> QED BY <4>4 DEF Y
    <3> HIDE DEF seqs
    <3>5. FlattenSeq(seqs) \in Seq(Key \X Value)
      BY <3>4, FlattenSteps, FlattenIs
    <3> QED BY <3>2, <3>5
  <2> QED BY <2>1, <2>2
<1>3. ASSUME NEW d, NEW e, NEW n \in Q, \A m \in Q : lev[m] < lev[n] => d[m] = e[m]
      PROVE  rule(d, n) = rule(e, n)
  <2>1. CASE nodes[n].leaf
    BY <2>1 DEF RangeAt
  <2>2. CASE ~nodes[n].leaf
    <3> DEFINE p == FirstSlot(nodes[n].keys, start)
               q == LastSlot(nodes[n].keys, p, end)
    <3>1. \A i \in 1..(q - p + 1) : /\ nodes[n].children[p + i - 1] \in Q
                                    /\ lev[nodes[n].children[p + i - 1]] < lev[n]
      BY <2>2, SlotChildren
    <3>2. /\ rule(d, n) = FlattenSeq([i \in 1..(q - p + 1) |-> d[nodes[n].children[p + i - 1]]])
          /\ rule(e, n) = FlattenSeq([i \in 1..(q - p + 1) |-> e[nodes[n].children[p + i - 1]]])
      BY <2>2 DEF RangeAt
    <3> HIDE DEF p, q, rule, Q, F
    <3>3. \A i \in 1..(q - p + 1) :
              d[nodes[n].children[p + i - 1]] = e[nodes[n].children[p + i - 1]]
      BY <1>3, <3>1
    <3>4. [i \in 1..(q - p + 1) |-> d[nodes[n].children[p + i - 1]]]
          = [i \in 1..(q - p + 1) |-> e[nodes[n].children[p + i - 1]]]
      BY <3>3
    <3> QED BY <3>2, <3>4
  <2> QED BY <2>1, <2>2
<1>4. GetRange(start, end) = range[rootOffset]
  BY <1>1 DEF GetRange, RangeAt
<1> HIDE DEF rule
<1>5. PICK e \in F : IsRule(e)
  <2>1. g \in [F -> F]
    <3> HIDE DEF T
    <3> QED BY <1>2
  <2>2. \A d, e \in F : \A n \in Q :
          (\A m \in Q : lev[m] < lev[n] => d[m] = e[m]) => g[d][n] = g[e][n]
    <3> HIDE DEF T
    <3> QED BY <1>3
  <2> HIDE DEF T, Q
  <2>3. LooksDown(Q, lev, T, g)
    <3> HIDE DEF g
    <3> QED BY <2>2 DEF LooksDown
  <2>4. <<>> \in T
    BY DEF T
  <2>5. FixedPoints(Q, T, g) # {}
    <3> HIDE DEF g
    <3> QED BY <1>1, <2>1, <2>3, <2>4, Recursion
  <2>6. PICK e \in FixedPoints(Q, T, g) : TRUE
    BY <2>5
  <2>7. e \in F /\ g[e] = e
    <3> HIDE DEF g
    <3> QED BY <2>6 DEF FixedPoints
  <2> QED BY <2>7
<1>6. IsRule(range)
  <2> HIDE DEF IsRule
  <2> QED BY <1>5
<1>7. \A n \in Q : range[n] = rule(range, n) /\ e[n] = rule(e, n)
  <2> HIDE DEF range
  <2> QED BY <1>5, <1>6
<1> DEFINE S == {n \in Q : range[n] = e[n]}
<1> HIDE DEF range
<1>8. \A n \in Q : n \in S
  <2>1. \A n \in Q : (\A m \in Q : lev[m] < lev[n] => m \in S) => n \in S
    BY <1>3, <1>7
  <2>2. \A n \in Q : lev[n] \in Nat
    BY <1>1
  <2> HIDE DEF S, Q
  <2> QED BY <2>1, <2>2, LevelInduction
<1>9. range[rootOffset] = e[rootOffset]
  BY <1>8
<1>10. e \in RangesOf(nodes, start, end)
  BY <1>5, <1>7 DEF RangesOf, rule
<1> QED BY <1>4, <1>9, <1>10

(***************************************************************************)
(* nd is a leaf with key k.                                                *)
(***************************************************************************)
Holds(nd, k) == nd.leaf /\ \E q \in 1..Len(nd.keys) : nd.keys[q] = k

(***************************************************************************)
(* k is a key of a stored leaf.                                            *)
(***************************************************************************)
InLeaf(file, k) == \E n \in 1..Len(file) : Holds(file[n], k)

(***************************************************************************)
(* The keys of nd are no less than b, and the number low gives each child  *)
(* is no less than b and above the separator at its left.                  *)
(***************************************************************************)
Above(nd, b, low) ==
    /\ \A q \in 1..Len(nd.keys) : b <= nd.keys[q]
    /\ Len(nd.keys) = 0 => b = 0
    /\ ~nd.leaf => \A p \in 1..Len(nd.children) :
                      b <= low[nd.children[p]] /\ (p # 1 => nd.keys[p - 1] < low[nd.children[p]])

(***************************************************************************)
(* low gives every node a number that all keys below it reach.             *)
(***************************************************************************)
Floored(file, low) ==
    /\ low \in [1..Len(file) -> Nat]
    /\ \A n \in 1..Len(file) : Above(file[n], low[n], low)

(***************************************************************************)
(* The pairs whose keys reach b and are in some leaf.                      *)
(***************************************************************************)
PairsFrom(file, b) == {e \in Key \X Value : b <= e[1] /\ InLeaf(file, e[1])}

(***************************************************************************)
(* What f[n] is, for a key of the range: its keys reach the floor of n and *)
(* are in leaves, and the last pair for a key has the value a search finds.*)
(***************************************************************************)
RangeRight(file, low, f, n, k) ==
    /\ f[n] \in Seq(PairsFrom(file, low[n]))
    /\ Answers(file, n, k) # {}
    /\ \A v \in Answers(file, n, k) : v # None => LastIs(f[n], k, v)

(***************************************************************************)
(* ... for a leaf.                                                         *)
(***************************************************************************)
LEMMA LeafRangeRight ==
    ASSUME NEW file, NEW lev, Neat(file, lev), NEW low, Floored(file, low),
           NEW start \in Nat, NEW end \in Nat, NEW f \in RangesOf(file, start, end),
           NEW k \in Key, start <= k, k < end, NEW n \in 1..Len(file), file[n].leaf
    PROVE  RangeRight(file, low, f, n, k)
<1> DEFINE nd == file[n]
           b == low[n]
<1>1. /\ Len(file) \in Nat /\ nd \in Node(Len(file)) /\ WellFormed(nd) /\ nd.leaf
      /\ nd.keys \in Seq(Key) /\ Sorted(nd.keys)
      /\ Answers(file, n, k) = LeafAnswers(nd, k)
  BY StoredFacts, AnswersStep DEF Neat, NodeOrdered
<1>2. Above(nd, b, low)
  BY DEF Floored
<1>3. f[n] = LeafRange(nd, start, end)
  BY DEF RangesOf, RangeAt
<1> HIDE DEF nd, b
<1>4. /\ f[n] \in Seq(Key \X Value)
      /\ \A i \in 1..Len(f[n]) : \E j \in 1..Len(nd.keys) : f[n][i][1] = nd.keys[j]
      /\ \A j \in 1..Len(nd.keys) :
            start <= nd.keys[j] /\ nd.keys[j] < end => LastIs(f[n], nd.keys[j], nd.values[j])
  BY <1>1, <1>3, LeafRangeIs
<1>5. f[n] \in Seq(PairsFrom(file, b))
  <2>1. ASSUME NEW i \in 1..Len(f[n]) PROVE f[n][i] \in PairsFrom(file, b)
    <3>1. f[n][i] \in Key \X Value
      BY <1>4
    <3>2. PICK j \in 1..Len(nd.keys) : f[n][i][1] = nd.keys[j]
      BY <1>4
    <3>3. b <= nd.keys[j]
      BY <1>2 DEF Above
    <3>4. InLeaf(file, nd.keys[j])
      BY <1>1 DEF InLeaf, Holds, nd
    <3> QED BY <3>1, <3>2, <3>3, <3>4 DEF PairsFrom
  <2>2. Len(f[n]) \in Nat /\ f[n] \in [1..Len(f[n]) -> Key \X Value]
    BY <1>4
  <2>3. f[n] \in [1..Len(f[n]) -> PairsFrom(file, b)]
    BY <2>1, <2>2
  <2> QED BY <2>2, <2>3
<1>6. CASE \E j \in 1..Len(nd.keys) : nd.keys[j] = k
  <2>1. PICK j \in 1..Len(nd.keys) : nd.keys[j] = k
    BY <1>6
  <2>2. LeafAnswers(nd, k) = {nd.values[j]}
    BY <1>1, <2>1, LeafAnswer
  <2>3. LastIs(f[n], k, nd.values[j])
    BY <1>4, <2>1
  <2> QED BY <1>1, <1>5, <2>2, <2>3 DEF RangeRight, b
<1>7. CASE \A j \in 1..Len(nd.keys) : nd.keys[j] # k
  <2>1. LeafAnswers(nd, k) = {None}
    BY <1>1, <1>7, LeafAnswer
  <2> QED BY <1>1, <1>5, <2>1 DEF RangeRight, b
<1> QED BY <1>6, <1>7

(***************************************************************************)
(* ... for an internal node: the child on the way of a search for k is     *)
(* visited, and the children after it have keys above k only.              *)
(***************************************************************************)
LEMMA InnerRangeRight ==
    ASSUME NEW file, NEW lev, Neat(file, lev), NEW low, Floored(file, low),
           NEW start \in Nat, NEW end \in Nat, NEW f \in RangesOf(file, start, end),
           NEW k \in Key, start <= k, k < end, NEW n \in 1..Len(file), ~file[n].leaf,
           \A m \in 1..Len(file) : lev[m] < lev[n] => RangeRight(file, low, f, m, k)
    PROVE  RangeRight(file, low, f, n, k)
<1> DEFINE keys == file[n].keys
           child(i) == file[n].children[i]
           L == Len(keys)
           p == FirstSlot(keys, start)
           q == LastSlot(keys, p, end)
           m == q - p + 1
           seqs == [i \in 1..m |-> f[child(p + i - 1)]]
           b == low[n]
           X == PairsFrom(file, b)
<1>1. /\ Stored(file) /\ Sorted(keys) /\ keys \in Seq(Key) /\ L \in Nat
      /\ Len(file[n].children) = L + 1 /\ k \in Nat
      /\ \A i \in 1..L : keys[i] \in Nat
  <2>1. Stored(file) /\ Sorted(keys) /\ keys \in Seq(Key) /\ L \in Nat /\ Len(file[n].children) = L + 1
    BY StoredFacts DEF Neat, NodeOrdered
  <2>2. \A i \in 1..L : keys[i] \in Key
    BY <2>1
  <2> QED BY <2>1, <2>2, KeyIsNumber
<1>2. /\ HasSlots(keys, p, q, start, end) /\ m \in Nat
      /\ \A i \in 1..m : /\ p + i - 1 \in 1..(L + 1)
                         /\ child(p + i - 1) \in 1..Len(file)
                         /\ lev[child(p + i - 1)] < lev[n]
  BY SlotChildren
<1>3. /\ p \in 1..L /\ q \in p..(L + 1)
      /\ \A i \in 1..L : (i < p => keys[i] < start) /\ (q <= i => end <= keys[i])
  BY <1>2 DEF HasSlots
<1>4. f[n] = FlattenSeq(seqs)
  BY DEF RangesOf, RangeAt
<1>5. b \in Nat /\ \A i \in 1..(L + 1) :
          b <= low[child(i)] /\ (i # 1 => keys[i - 1] < low[child(i)])
  BY <1>1 DEF Floored, Above
<1>6. PICK o \in 1..(L + 1) : /\ Positions(keys, k) = {o}
                              /\ o = 1 \/ keys[o - 1] < k
                              /\ o = L + 1 \/ k <= keys[o]
  BY <1>1, ThePosition
<1>7. Answers(file, n, k) = Answers(file, child(o), k)
  <2>1. Answers(file, n, k) = UNION {Answers(file, child(i), k) : i \in {o}}
    BY <1>1, <1>6, AnswersStep
  <2> QED BY <2>1
<1>8. \A c \in 1..Len(file) : low[c] \in Nat
  BY DEF Floored
<1> HIDE DEF keys, child, L, p, q
<1>9. p <= o /\ o <= q
  <2>1. ASSUME o < p PROVE FALSE
    <3>1. o \in 1..L /\ o # L + 1
      BY <1>1, <1>3, <2>1
    <3>2. keys[o] < start /\ k <= keys[o] /\ keys[o] \in Nat
      BY <1>1, <1>3, <1>6, <2>1, <3>1
    <3> QED BY <1>1, <3>2
  <2>2. ASSUME q < o PROVE FALSE
    <3>1. o - 1 \in 1..L /\ o # 1 /\ q <= o - 1
      BY <1>1, <1>3, <2>2
    <3>2. end <= keys[o - 1] /\ keys[o - 1] < k /\ keys[o - 1] \in Nat
      BY <1>1, <1>3, <1>6, <3>1
    <3> QED BY <1>1, <3>2
  <2> QED BY <1>1, <1>3, <2>1, <2>2
<1> DEFINE x == o - p + 1
<1>10. x \in 1..m /\ p + x - 1 = o
  BY <1>1, <1>3, <1>9
<1>11. \A i \in 1..m : RangeRight(file, low, f, child(p + i - 1), k)
  BY <1>2
<1> HIDE DEF m
<1>12. \A i \in 1..m : seqs[i] = f[child(p + i - 1)]
  OBVIOUS
<1>13. \A i \in 1..m : seqs[i] \in Seq(PairsFrom(file, low[child(p + i - 1)]))
  BY <1>11, <1>12 DEF RangeRight
<1>14. \A i \in 1..m : seqs[i] \in Seq(X)
  <2> SUFFICES ASSUME NEW i \in 1..m PROVE seqs[i] \in Seq(X)
    OBVIOUS
  <2> DEFINE Y == PairsFrom(file, low[child(p + i - 1)])
             s == seqs[i]
  <2>1. Y \subseteq X
    <3>1. b <= low[child(p + i - 1)] /\ low[child(p + i - 1)] \in Nat /\ b \in Nat
      BY <1>2, <1>5, <1>8
    <3>2. \A e \in Key \X Value : e[1] \in Nat
      BY KeyIsNumber
    <3> QED BY <3>1, <3>2 DEF PairsFrom
  <2>2. s \in Seq(Y)
    BY <1>13
  <2> HIDE DEF X, Y, s
  <2>3. s \in Seq(X)
    BY <2>1, <2>2
  <2> QED BY <2>3 DEF s
<1>15. seqs \in Seq(Seq(X)) /\ Len(seqs) = m
  <2> HIDE DEF X
  <2> QED BY <1>2, <1>14
<1> HIDE DEF seqs, X
<1>16. f[n] \in Seq(X)
  BY <1>4, <1>15, FlattenSteps, FlattenIs
<1>17. /\ Answers(file, child(o), k) # {}
       /\ \A v \in Answers(file, child(o), k) : v # None => LastIs(seqs[x], k, v)
  <2>1. RangeRight(file, low, f, child(o), k) /\ seqs[x] = f[child(o)]
    BY <1>10, <1>11, <1>12
  <2> QED BY <2>1 DEF RangeRight
<1>18. ASSUME NEW i \in 1..m, x < i PROVE Lacks(seqs[i], k)
  <2> DEFINE j == p + i - 1
             c == low[child(j)]
             s == seqs[i]
  <2>1. j \in 1..(L + 1) /\ o < j /\ o \in 1..L /\ j - 1 \in 1..L /\ o <= j - 1 /\ j # 1 /\ o # L + 1
    <3>1. L \in Nat /\ p \in 1..L /\ m \in Nat /\ i \in 1..m
      BY <1>1, <1>2, <1>3
    <3>2. j \in 1..(L + 1)
      BY <1>2
    <3>3. x \in 1..m /\ p + x - 1 = o /\ o \in 1..(L + 1)
      BY <1>10
    <3> HIDE DEF x
    <3> QED BY <1>18, <3>1, <3>2, <3>3
  <2>2. k <= keys[o] /\ (o = j - 1 \/ keys[o] < keys[j - 1])
    <3>1. k <= keys[o]
      BY <1>6, <2>1
    <3>2. o = j - 1 \/ o < j - 1
      BY <2>1
    <3> QED BY <1>1, <2>1, <3>1, <3>2 DEF Sorted, L
  <2>3. keys[j - 1] < c /\ c \in Nat
    <3>1. keys[j - 1] < c
      BY <1>5, <2>1
    <3>2. child(j) \in 1..Len(file)
      BY <1>2
    <3> QED BY <1>8, <3>1, <3>2
  <2>4. k < c
    <3> DEFINE y == keys[o]
               z == keys[j - 1]
    <3>1. y \in Nat /\ z \in Nat /\ k \in Nat
      BY <1>1, <2>1
    <3>2. k <= y /\ (y = z \/ y < z) /\ z < c /\ c \in Nat
      BY <2>2, <2>3
    <3> HIDE DEF y, z, c
    <3> QED BY <3>1, <3>2
  <2>5. s \in Seq(PairsFrom(file, c))
    BY <1>13
  <2> HIDE DEF j, c, s
  <2>6. \A h \in 1..Len(s) : s[h] \in PairsFrom(file, c)
    BY <2>5
  <2>7. \A h \in 1..Len(s) : c <= s[h][1] /\ s[h][1] \in Nat
    BY <2>6, KeyIsNumber DEF PairsFrom
  <2>8. \A h \in 1..Len(s) : s[h][1] # k
    BY <1>1, <2>3, <2>4, <2>7
  <2> QED BY <2>8 DEF Lacks, s
<1>19. ASSUME NEW v \in Answers(file, n, k), v # None PROVE LastIs(f[n], k, v)
  <2>1. LastIs(seqs[x], k, v)
    BY <1>7, <1>17, <1>19
  <2> HIDE DEF x
  <2>2. LastIs(FlattenSeq(seqs), k, v)
    BY <1>10, <1>15, <1>18, <2>1, LastOfMany
  <2> QED BY <1>4, <2>2
<1> QED BY <1>7, <1>16, <1>17, <1>19 DEF RangeRight, X

(***************************************************************************)
(* ... for every node.                                                     *)
(***************************************************************************)
LEMMA AllRangesRight ==
    ASSUME NEW file, NEW lev, Neat(file, lev), NEW low, Floored(file, low),
           NEW start \in Nat, NEW end \in Nat, NEW f \in RangesOf(file, start, end),
           NEW k \in Key, start <= k, k < end
    PROVE  \A n \in 1..Len(file) : RangeRight(file, low, f, n, k)
<1> DEFINE D == 1..Len(file)
           S == {n \in D : RangeRight(file, low, f, n, k)}
<1>1. \A n \in D : lev[n] \in Nat
  BY DEF Neat, Leveled
<1>2. ASSUME NEW n \in D, \A c \in D : lev[c] < lev[n] => c \in S PROVE n \in S
  <2>1. \A c \in D : lev[c] < lev[n] => RangeRight(file, low, f, c, k)
    BY <1>2
  <2>2. RangeRight(file, low, f, n, k)
    BY <2>1, LeafRangeRight, InnerRangeRight
  <2> QED BY <2>2
<1>3. \A n \in D : n \in S
  <2> HIDE DEF S, D
  <2> QED BY <1>1, <1>2, LevelInduction
<1> QED BY <1>3

-----------------------------------------------------------------------------
(* Floors across the stores of an insertion. *)

(***************************************************************************)
(* A node remains above its floor when more nodes get one.                 *)
(***************************************************************************)
LEMMA AboveStill ==
    ASSUME NEW N \in Nat, NEW nd \in Node(N), WellFormed(nd), NEW b, NEW low, NEW new,
           \A m \in 1..N : new[m] = low[m], Above(nd, b, low)
    PROVE  Above(nd, b, new)
<1>1. \A p \in 1..Len(nd.children) : nd.children[p] \in 1..N
  BY NodeFields
<1>2. \A p \in 1..Len(nd.children) : new[nd.children[p]] = low[nd.children[p]]
  BY <1>1
<1> QED BY <1>2 DEF Above

(***************************************************************************)
(* So does a copy of a node.                                               *)
(***************************************************************************)
LEMMA AboveCopy ==
    ASSUME NEW a, NEW c, SameContent(a, c), NEW b, NEW low, Above(a, b, low)
    PROVE  Above(c, b, low) /\ \A k : Holds(c, k) <=> Holds(a, k)
  BY DEF SameContent, Above, Holds

(***************************************************************************)
(* The halves of a split node are above the floor of the node, and above   *)
(* the median; they have no key that it had not.                           *)
(***************************************************************************)
LEMMA SplitFloors ==
    ASSUME NEW N, NEW nd, MaySplit(N, nd), NEW b \in Nat, NEW low,
           \A m \in 1..N : low[m] \in Nat, Above(nd, b, low)
    PROVE  /\ Above(SplitLeft(nd), b, low)
           /\ Above(SplitRight(nd), SplitMedian(nd) + 1, low)
           /\ SplitMedian(nd) \in Nat /\ b <= SplitMedian(nd)
           /\ \A k : Holds(SplitLeft(nd), k) \/ Holds(SplitRight(nd), k) => Holds(nd, k)
<1> DEFINE l == SplitLeft(nd)
           r == SplitRight(nd)
           L == Len(nd.keys)
           m == SplitMedian(nd)
<1>1. N \in Nat /\ nd \in Node(N) /\ WellFormed(nd) /\ IsFull(nd) /\ Sorted(nd.keys)
  BY DEF MaySplit
<1>2. /\ nd.leaf \in BOOLEAN /\ L \in Nat /\ B \in 1..(L - 1) /\ 1 < B
      /\ \A i \in 1..L : nd.keys[i] \in Nat
      /\ ~nd.leaf => Len(nd.children) = L + 1
      /\ \A p \in 1..Len(nd.children) : nd.children[p] \in 1..N
  <2>1. nd.leaf \in BOOLEAN /\ L \in Nat /\ (~nd.leaf => Len(nd.children) = L + 1)
        /\ \A p \in 1..Len(nd.children) : nd.children[p] \in 1..N
    BY <1>1, NodeFields
  <2>2. \A i \in 1..L : nd.keys[i] \in Key
    BY <1>1, NodeFields
  <2>3. B \in 1..(L - 1)
    BY SplitParts
  <2> QED BY <2>1, <2>2, <2>3, KeyIsNumber, SplitPoint
<1>3. m = nd.keys[B] /\ m \in Nat /\ B \in 1..L
  BY <1>2 DEF SplitMedian
<1>4. /\ r.leaf = nd.leaf /\ Len(r.keys) = L - B /\ Len(r.keys) >= 1
      /\ \A i \in 1..(L - B) : r.keys[i] = nd.keys[B + i]
      /\ ~nd.leaf => /\ Len(r.children) = L - B + 1
                     /\ \A i \in 1..(L - B + 1) : r.children[i] = nd.children[B + i]
      /\ \A i \in 1..Len(r.keys) : m < r.keys[i]
  <2>1. \A i \in 1..Len(r.keys) : m < r.keys[i]
    BY SplitParts
  <2> QED BY <1>1, <2>1, SplitRightFacts
<1>5. /\ l.leaf = nd.leaf /\ Len(l.keys) \in {B, B - 1} /\ Len(l.keys) >= 1
      /\ (~nd.leaf => Len(l.keys) = B - 1)
      /\ \A i \in 1..Len(l.keys) : l.keys[i] = nd.keys[i]
      /\ ~nd.leaf => /\ Len(l.children) = B
                     /\ \A i \in 1..B : l.children[i] = nd.children[i]
  BY <1>1, SplitLeftFacts
<1>6. /\ \A i \in 1..L : b <= nd.keys[i]
      /\ ~nd.leaf => \A p \in 1..(L + 1) :
            /\ b <= low[nd.children[p]] /\ low[nd.children[p]] \in Nat
            /\ p # 1 => nd.keys[p - 1] < low[nd.children[p]]
  BY <1>2 DEF Above
<1>7. b <= m
  BY <1>3, <1>6
<1> HIDE DEF l, r, m, L
<1>8. Above(l, b, low)
  <2>1. \A i \in 1..Len(l.keys) : i \in 1..L
    BY <1>2, <1>5
  <2>2. \A i \in 1..Len(l.keys) : b <= l.keys[i]
    BY <1>5, <1>6, <2>1
  <2>3. ASSUME ~nd.leaf, NEW p \in 1..B
        PROVE  b <= low[l.children[p]] /\ (p # 1 => l.keys[p - 1] < low[l.children[p]])
    <3>1. p \in 1..(L + 1) /\ l.children[p] = nd.children[p]
      BY <1>2, <1>5, <2>3
    <3>2. p # 1 => p - 1 \in 1..Len(l.keys) /\ l.keys[p - 1] = nd.keys[p - 1]
      BY <1>2, <1>5, <2>3
    <3> QED BY <1>6, <2>3, <3>1, <3>2
  <2>4. Len(l.keys) # 0
    BY <1>2, <1>5
  <2> QED BY <1>5, <2>2, <2>3, <2>4 DEF Above
<1>9. Above(r, m + 1, low)
  <2>1. \A i \in 1..Len(r.keys) : m + 1 <= r.keys[i]
    <3>1. \A i \in 1..Len(r.keys) : B + i \in 1..L
      BY <1>2, <1>4
    <3>2. \A i \in 1..Len(r.keys) : r.keys[i] \in Nat
      BY <1>2, <1>4, <3>1
    <3> QED BY <1>3, <1>4, <3>2
  <2>2. ASSUME ~nd.leaf, NEW p \in 1..(L - B + 1)
        PROVE  m + 1 <= low[r.children[p]] /\ (p # 1 => r.keys[p - 1] < low[r.children[p]])
    <3> DEFINE c == low[r.children[p]]
    <3>1. B + p \in 1..(L + 1) /\ r.children[p] = nd.children[B + p] /\ B + p # 1 /\ B + p - 1 \in 1..L
      BY <1>2, <1>4, <2>2
    <3>2. nd.keys[B + p - 1] < c /\ c \in Nat
      <4> DEFINE j == B + p
      <4>1. j \in 1..(L + 1) /\ j # 1
        BY <3>1
      <4> HIDE DEF j
      <4>2. low[nd.children[j]] \in Nat /\ nd.keys[j - 1] < low[nd.children[j]]
        BY <1>6, <2>2, <4>1
      <4>3. c = low[nd.children[j]]
        BY <3>1 DEF j
      <4> HIDE DEF c
      <4>4. nd.keys[j - 1] < c /\ c \in Nat
        BY <4>2, <4>3
      <4>5. B + p - 1 = j - 1
        BY <1>2 DEF j
      <4> QED BY <4>4, <4>5
    <3>3. CASE p = 1
      <4>1. B + p - 1 = B
        BY <1>2, <3>3
      <4> QED BY <1>3, <3>2, <3>3, <4>1
    <3>4. CASE p # 1
      <4>1. p - 1 \in 1..(L - B) /\ B + (p - 1) = B + p - 1
        BY <1>2, <3>4
      <4>2. r.keys[p - 1] = nd.keys[B + p - 1]
        BY <1>4, <4>1
      <4>3. m < r.keys[p - 1] /\ r.keys[p - 1] \in Nat
        BY <1>2, <1>4, <3>1, <4>1, <4>2
      <4> HIDE DEF c
      <4>4. m + 1 <= c /\ r.keys[p - 1] < c
        BY <1>3, <3>2, <4>2, <4>3
      <4> QED BY <4>4 DEF c
    <3> QED BY <3>3, <3>4
  <2>3. Len(r.keys) # 0
    BY <1>2, <1>4
  <2> QED BY <1>4, <2>1, <2>2, <2>3 DEF Above
<1>10. ASSUME NEW k, Holds(l, k) \/ Holds(r, k) PROVE Holds(nd, k)
  <2>1. \A i \in 1..Len(l.keys) : i \in 1..L
    BY <1>2, <1>5
  <2>2. \A i \in 1..Len(r.keys) : B + i \in 1..L
    BY <1>2, <1>4
  <2>3. CASE Holds(l, k)
    <3>1. PICK i \in 1..Len(l.keys) : l.keys[i] = k
      BY <2>3 DEF Holds
    <3>2. nd.leaf /\ i \in 1..L /\ nd.keys[i] = k
      BY <1>5, <2>1, <2>3, <3>1 DEF Holds
    <3> QED BY <3>2 DEF Holds, L
  <2>4. CASE Holds(r, k)
    <3>1. PICK i \in 1..Len(r.keys) : r.keys[i] = k
      BY <2>4 DEF Holds
    <3>2. nd.leaf /\ B + i \in 1..L /\ nd.keys[B + i] = k
      BY <1>4, <2>2, <2>4, <3>1 DEF Holds
    <3> QED BY <3>2 DEF Holds, L
  <2> QED BY <1>10, <2>3, <2>4
<1> QED BY <1>3, <1>7, <1>8, <1>9, <1>10 DEF l, r, m

(***************************************************************************)
(* A node stored at the end, above b, gets the floor b.                    *)
(***************************************************************************)
HasFloors(file, low, nd, b, g, new) ==
    /\ Floored(g, new)
    /\ new[Len(file) + 1] = b /\ \A m \in 1..Len(file) : new[m] = low[m]
    /\ \A k : InLeaf(g, k) => InLeaf(file, k) \/ Holds(nd, k)

(***************************************************************************)
(* ... and the others keep theirs.                                         *)
(***************************************************************************)
LEMMA AppendFloors ==
    ASSUME NEW file, Stored(file), NEW low, Floored(file, low),
           NEW nd \in Node(Len(file)), WellFormed(nd), NEW b \in Nat, Above(nd, b, low),
           NEW g, g = Append(file, nd)
    PROVE  \E new : HasFloors(file, low, nd, b, g, new)
<1> DEFINE N == Len(file)
           new == Grown(low, N, b)
<1>1. Len(g) = N + 1 /\ g[N + 1] = nd /\ \A m \in 1..N : g[m] = file[m]
  BY Grew
<1>2. /\ N \in Nat /\ low \in [1..N -> Nat] /\ \A m \in 1..N : Above(file[m], low[m], low)
      /\ \A m \in 1..N : file[m] \in Node(N) /\ WellFormed(file[m])
  BY StoredFacts DEF Floored
<1> HIDE DEF N
<1>3. /\ new \in [1..(N + 1) -> Nat] /\ new[N + 1] = b /\ \A m \in 1..N : new[m] = low[m]
      /\ \A m \in 1..(N + 1) : m \in 1..N \/ m = N + 1
  <2>1. \A m \in 1..(N + 1) : m \in 1..N \/ m = N + 1
    BY <1>2
  <2>2. N + 1 \in 1..(N + 1) /\ \A m \in 1..N : m \in 1..(N + 1) /\ m # N + 1
    BY <1>2
  <2>3. \A m \in 1..(N + 1) : new[m] = IF m = N + 1 THEN b ELSE low[m]
    BY DEF Grown
  <2>4. \A m \in 1..(N + 1) : new[m] \in Nat
    BY <1>2, <2>1, <2>3
  <2>5. new = [m \in 1..(N + 1) |-> new[m]]
    BY DEF Grown
  <2> HIDE DEF new
  <2>6. new \in [1..(N + 1) -> Nat]
    BY <2>4, <2>5
  <2> QED BY <2>1, <2>2, <2>3, <2>6
<1> HIDE DEF new
<1>4. \A m \in 1..N : Above(g[m], new[m], new)
  <2> TAKE m \in 1..N
  <2>1. Above(file[m], low[m], new)
    BY <1>2, <1>3, AboveStill
  <2> QED BY <1>1, <1>3, <2>1
<1>5. Above(g[N + 1], new[N + 1], new)
  <2>1. Above(nd, b, new)
    BY <1>2, <1>3, AboveStill DEF N
  <2> QED BY <1>1, <1>3, <2>1
<1>6. Floored(g, new)
  BY <1>1, <1>3, <1>4, <1>5 DEF Floored
<1>7. \A k : InLeaf(g, k) => InLeaf(file, k) \/ Holds(nd, k)
  BY <1>1, <1>3 DEF InLeaf, N
<1> QED BY <1>3, <1>6, <1>7 DEF HasFloors, N

(***************************************************************************)
(* A node stored over another, above its floor, leaves all floors.         *)
(***************************************************************************)
LEMMA ReplaceFloors ==
    ASSUME NEW file, Stored(file), NEW low, Floored(file, low), NEW n \in 1..Len(file), NEW nd,
           Above(nd, low[n], low), NEW g, g = [file EXCEPT ![n] = nd]
    PROVE  Floored(g, low) /\ \A k : InLeaf(g, k) => InLeaf(file, k) \/ Holds(nd, k)
<1>1. Len(g) = Len(file) /\ g[n] = nd /\ \A m \in 1..Len(file) : m # n => g[m] = file[m]
  BY Wrote
<1>2. low \in [1..Len(file) -> Nat] /\ \A m \in 1..Len(file) : Above(file[m], low[m], low)
  BY DEF Floored
<1>3. \A m \in 1..Len(file) : Above(g[m], low[m], low)
  <2> TAKE m \in 1..Len(file)
  <2>1. CASE m = n
    BY <1>1, <2>1
  <2>2. CASE m # n
    BY <1>1, <1>2, <2>2
  <2> QED BY <2>1, <2>2
<1>4. \A k : InLeaf(g, k) => InLeaf(file, k) \/ Holds(nd, k)
  <2> TAKE k
  <2>1. \A m \in 1..Len(file) : Holds(g[m], k) => Holds(file[m], k) \/ Holds(nd, k)
    <3> TAKE m \in 1..Len(file)
    <3>1. CASE m = n
      BY <1>1, <3>1
    <3>2. CASE m # n
      BY <1>1, <3>2
    <3> QED BY <3>1, <3>2
  <2> QED BY <1>1, <2>1 DEF InLeaf
<1> QED BY <1>1, <1>2, <1>3, <1>4 DEF Floored

(***************************************************************************)
(* So does a store that changes no content.                                *)
(***************************************************************************)
LEMMA SameFloors ==
    ASSUME NEW file, NEW low, Floored(file, low), NEW g, Kept(file, g), Len(g) = Len(file)
    PROVE  Floored(g, low) /\ \A k : InLeaf(g, k) => InLeaf(file, k)
<1>1. \A m \in 1..Len(file) : SameContent(file[m], g[m])
  BY DEF Kept
<1>2. \A m \in 1..Len(file) : Above(file[m], low[m], low)
  BY DEF Floored
<1>3. \A m \in 1..Len(file) : Above(g[m], low[m], low) /\ \A k : Holds(g[m], k) <=> Holds(file[m], k)
  BY <1>1, <1>2, AboveCopy
<1> QED BY <1>3 DEF Floored, InLeaf

-----------------------------------------------------------------------------
(* Floors as an insertion goes on. *)

(***************************************************************************)
(* low gives every stored node a floor, and a sibling on its way to the    *)
(* file, or into a parent, is above the median it was split at.            *)
(***************************************************************************)
Floors(low) ==
    /\ Floored(nodes, low)
    /\ pc = "sibling" => Above(sib, med + 1, low)
    /\ pc = "growRoot" => med < low[Newest]
    /\ pc = "link" => SplitMedian(nodes[nodes[at].children[slot]]) < low[Newest]

(***************************************************************************)
(* k is a key of a leaf, stored or about to be.                            *)
(***************************************************************************)
Occurs(k) == InLeaf(nodes, k) \/ (pc = "sibling" /\ Holds(sib, k))

(***************************************************************************)
(* The step keeps the floors and puts no key into a leaf.                  *)
(***************************************************************************)
KeepsFloors == (\E low : Floors(low)') /\ \A k : Occurs(k)' => Occurs(k)

(***************************************************************************)
(* What the steps start from.                                              *)
(***************************************************************************)
LEMMA FloorFacts ==
    ASSUME Log, NEW low, Floors(low)
    PROVE  /\ Stored(nodes) /\ Newest = Len(nodes) /\ Newest \in Nat /\ Newest \in 1..Newest
           /\ at \in 1..Newest
           /\ Floored(nodes, low) /\ low \in [1..Newest -> Nat]
           /\ \A n \in 1..Newest : /\ nodes[n] \in Node(Newest) /\ WellFormed(nodes[n])
                                   /\ Above(nodes[n], low[n], low) /\ low[n] \in Nat
                                   /\ Sorted(nodes[n].keys)
<1>1. /\ Stored(nodes) /\ Newest = Len(nodes) /\ Newest \in Nat /\ at \in 1..Newest
      /\ \A n \in 1..Newest : nodes[n] \in Node(Newest) /\ WellFormed(nodes[n])
  BY RestoredFacts DEF Log
<1>2. Newest \in 1..Newest
  BY <1>1
<1>3. \A n \in 1..Newest : Sorted(nodes[n].keys)
  BY DEF Log, Ordering, NodeOrdered
<1>4. /\ Floored(nodes, low) /\ low \in [1..Newest -> Nat]
      /\ \A n \in 1..Newest : Above(nodes[n], low[n], low)
  BY <1>1 DEF Floors, Floored
<1> QED BY <1>1, <1>2, <1>3, <1>4

(***************************************************************************)
(* A step that changes no content keeps the floors, ...                    *)
(***************************************************************************)
LEMMA KeptFloors ==
    ASSUME Log, NEW low, Floors(low), Kept(nodes, nodes'), Newest' = Newest,
           pc' \notin {"sibling", "growRoot", "link"}
    PROVE  KeepsFloors
<1>1. Len(nodes') = Len(nodes) /\ Floored(nodes, low)
  BY DEF Newest, Floors
<1>2. Floored(nodes', low) /\ \A k : InLeaf(nodes', k) => InLeaf(nodes, k)
  BY <1>1, SameFloors
<1>3. Floors(low)'
  BY <1>2 DEF Floors
<1>4. \A k : Occurs(k)' => Occurs(k)
  BY <1>2 DEF Occurs
<1> QED BY <1>3, <1>4 DEF KeepsFloors

(***************************************************************************)
(* ... and one that leaves the file as it is does.                         *)
(***************************************************************************)
LEMMA SameFile ==
    ASSUME Log, NEW low, Floors(low), nodes' = nodes,
           \/ pc' \notin {"sibling", "growRoot", "link"}
           \/ pc' = pc /\ sib' = sib /\ med' = med /\ at' = at /\ slot' = slot
    PROVE  KeepsFloors
<1>1. Newest' = Newest
  BY DEF Newest
<1>2. Floors(low)'
  BY <1>1 DEF Floors
<1>3. \A k : Occurs(k)' => Occurs(k)
  BY DEF Occurs
<1> QED BY <1>2, <1>3 DEF KeepsFloors

(***************************************************************************)
(* Insert does, as it splits the root.                                     *)
(***************************************************************************)
LEMMA InsertFloors ==
    ASSUME Log, NEW low, Floors(low), NEW k0 \in Key, NEW v \in Value, Insert(k0, v)
    PROVE  KeepsFloors
<1> DEFINE h == nodes[rootOffset]
           sl == SplitLeft(h)
           sr == SplitRight(h)
           l == [sl EXCEPT !.isRoot = FALSE]
           b == low[rootOffset]
<1>1. /\ pc = "idle"
      /\ \/ pc' = "descend" /\ nodes' = nodes
         \/ /\ IsFull(h) /\ pc' = "sibling"
            /\ nodes' = [nodes EXCEPT ![rootOffset] = l]
            /\ sib' = sr /\ med' = SplitMedian(h)
  BY DEF Insert
<1>2. CASE pc' = "descend" /\ nodes' = nodes
  BY <1>2, SameFile
<1>3. CASE /\ IsFull(h) /\ pc' = "sibling"
           /\ nodes' = [nodes EXCEPT ![rootOffset] = l]
           /\ sib' = sr /\ med' = SplitMedian(h)
  <2>1. rootOffset \in 1..Newest
    BY RestoredFacts DEF Log
  <2>2. /\ Stored(nodes) /\ Newest = Len(nodes) /\ Newest \in Nat /\ Floored(nodes, low)
        /\ \A m \in 1..Newest : low[m] \in Nat
        /\ h \in Node(Newest) /\ WellFormed(h) /\ Sorted(h.keys) /\ Above(h, b, low) /\ b \in Nat
    BY <2>1, FloorFacts
  <2>3. MaySplit(Newest, h)
    BY <1>3, <2>2 DEF MaySplit
  <2>4. sl \in Node(Newest)
    <3> HIDE DEF h
    <3> QED BY <1>3, <2>2, SplitLeftFacts
  <2>5. /\ Above(sl, b, low) /\ Above(sr, SplitMedian(h) + 1, low)
        /\ \A k : Holds(sl, k) \/ Holds(sr, k) => Holds(h, k)
    <3> HIDE DEF h, b
    <3> QED BY <2>2, <2>3, SplitFloors
  <2> HIDE DEF sl, sr
  <2>6. SameContent(sl, l)
    BY <2>4 DEF Node, SameContent
  <2>7. Above(l, b, low) /\ \A k : Holds(l, k) <=> Holds(sl, k)
    <3> HIDE DEF l
    <3> QED BY <2>5, <2>6, AboveCopy
  <2>8. /\ Floored(nodes', low)
        /\ \A k : InLeaf(nodes', k) => InLeaf(nodes, k) \/ Holds(l, k)
    <3> HIDE DEF l
    <3> QED BY <1>3, <2>1, <2>2, <2>7, ReplaceFloors
  <2>9. Floors(low)'
    BY <1>3, <2>5, <2>8 DEF Floors
  <2>10. \A k : Holds(h, k) => InLeaf(nodes, k)
    BY <2>1, <2>2 DEF InLeaf
  <2> HIDE DEF h, l
  <2>11. \A k : Occurs(k)' => Occurs(k)
    BY <1>3, <2>5, <2>7, <2>8, <2>10 DEF Occurs
  <2> QED BY <2>9, <2>11 DEF KeepsFloors
<1> QED BY <1>1, <1>2, <1>3

(***************************************************************************)
(* RootSibling and ...                                                     *)
(***************************************************************************)
LEMMA RootSiblingFloors ==
    ASSUME Log, NEW low, Floors(low), RootSibling
    PROVE  KeepsFloors
<1>1. pc = "sibling" /\ pc' = "growRoot" /\ nodes' = Append(nodes, sib) /\ med' = med
  BY DEF RootSibling, locals
<1>2. /\ Stored(nodes) /\ Newest = Len(nodes) /\ Newest \in Nat /\ Floored(nodes, low)
  BY FloorFacts
<1>3. sib \in Node(Len(nodes)) /\ WellFormed(sib)
  BY <1>1, <1>2, RestoredFacts DEF Log
<1>4. med \in Nat /\ med + 1 \in Nat /\ med < med + 1
  <2>1. med \in Nat
    BY <1>1, KeyIsNumber DEF Log, Restored, Writer, Splitting
  <2> QED BY <2>1
<1>5. Above(sib, med + 1, low)
  BY <1>1 DEF Floors
<1>6. PICK new : HasFloors(nodes, low, sib, med + 1, nodes', new)
  BY <1>1, <1>2, <1>3, <1>4, <1>5, AppendFloors
<1>7. /\ Floored(nodes', new) /\ new[Newest + 1] = med + 1
      /\ \A k : InLeaf(nodes', k) => InLeaf(nodes, k) \/ Holds(sib, k)
  BY <1>2, <1>6 DEF HasFloors
<1>8. Newest' = Newest + 1
  BY <1>1, <1>2, Grew DEF Newest
<1>9. Floors(new)'
  BY <1>1, <1>4, <1>7, <1>8 DEF Floors
<1>10. \A k : Occurs(k)' => Occurs(k)
  BY <1>1, <1>7 DEF Occurs
<1> QED BY <1>9, <1>10 DEF KeepsFloors

(***************************************************************************)
(* ... GrowRoot do: the new root's floor is 0.                             *)
(***************************************************************************)
LEMMA GrowRootFloors ==
    ASSUME Log, Restored', NEW low, Floors(low), GrowRoot
    PROVE  KeepsFloors
<1> DEFINE nd == RootOver(at, Newest)
<1>1. pc = "growRoot" /\ pc' = "setRoot" /\ nodes' = Append(nodes, nd)
  BY DEF GrowRoot, Newest
<1>2. /\ Stored(nodes) /\ Newest = Len(nodes) /\ Newest \in Nat /\ Floored(nodes, low)
      /\ at \in 1..Newest /\ Newest \in 1..Newest /\ \A n \in 1..Newest : low[n] \in Nat
  BY FloorFacts
<1>3. RootIs(nd, med, at, Newest)
  BY DEF RootIs, RootOver, NewInternal, NewLeaf
<1>4. med \in Key /\ med \in Nat /\ med < low[Newest]
  BY <1>1, KeyIsNumber DEF Log, Restored, Writer, Splitting, Floors
<1>5. nd \in Node(Newest) /\ WellFormed(nd)
  <2>1. /\ <<med>> \in Seq(Key) /\ <<>> \in Seq(Value) /\ 0 \in 0..Newest
        /\ Len(<<med>>) = 1 /\ Len(<<>>) = 0 /\ Len(<<at, Newest>>) = 2
    BY <1>2, <1>4
  <2>2. <<at, Newest>> \in Seq(1..Newest)
    <3> DEFINE T == 1..Newest
    <3>1. at \in T /\ Newest \in T
      BY <1>2
    <3> HIDE DEF T
    <3>2. <<at, Newest>> \in Seq(T)
      BY <3>1
    <3> QED BY <3>2 DEF T
  <2>3. NewLeaf \in Node(Newest) /\ NewLeaf.values = <<>> /\ NewLeaf.parent = 0
    BY <1>2 DEF NewLeaf, NoParent, Node
  <2>4. NewInternal \in Node(Newest) /\ NewInternal.values = <<>> /\ NewInternal.parent = 0
    BY <2>3 DEF NewInternal, Node
  <2>5. nd \in Node(Newest) /\ nd.values = <<>>
    BY <1>4, <2>1, <2>2, <2>4 DEF RootOver, Node
  <2> HIDE DEF nd
  <2>6. WellFormed(nd)
    BY <1>3, <2>1, <2>5 DEF WellFormed, RootIs
  <2> QED BY <2>5, <2>6
<1> HIDE DEF nd
<1>6. Above(nd, 0, low)
  <2>1. nd.leaf = FALSE /\ Len(nd.keys) = 1 /\ nd.keys[1] = med /\ Len(nd.children) = 2
        /\ nd.children[1] = at /\ nd.children[2] = Newest
    BY <1>3 DEF RootIs
  <2>2. \A p \in 1..2 : p = 1 \/ (p = 2 /\ p - 1 = 1)
    OBVIOUS
  <2>3. \A p \in 1..1 : p = 1
    OBVIOUS
  <2>4. 0 <= low[at] /\ 0 <= low[Newest]
    BY <1>2
  <2> QED BY <1>4, <2>1, <2>2, <2>3, <2>4 DEF Above
<1>7. PICK new : HasFloors(nodes, low, nd, 0, nodes', new)
  BY <1>1, <1>2, <1>5, <1>6, AppendFloors
<1>8. /\ Floored(nodes', new)
      /\ \A k : InLeaf(nodes', k) => InLeaf(nodes, k) \/ Holds(nd, k)
  BY <1>7 DEF HasFloors
<1>9. Floors(new)'
  BY <1>1, <1>8 DEF Floors
<1>10. \A k : Occurs(k)' => Occurs(k)
  <2>1. \A k : ~Holds(nd, k)
    BY <1>3 DEF RootIs, Holds
  <2> QED BY <1>1, <1>8, <2>1 DEF Occurs
<1> QED BY <1>9, <1>10 DEF KeepsFloors

(***************************************************************************)
(* The marks of a root's split do.                                         *)
(***************************************************************************)
LEMMA MarkFloors ==
    ASSUME Log, Restored', NEW low, Floors(low), SetRootOffset \/ AdoptLeft \/ AdoptRight
    PROVE  KeepsFloors
<1>0. /\ Newest \in Nat /\ Newest = Len(nodes) /\ at \in 1..Newest /\ kind = "insert"
      /\ \A n \in 1..Newest : nodes[n] \in Node(Newest)
  BY RestoredFacts DEF Log
<1>1. CASE SetRootOffset
  <2>1. nodes' = nodes /\ pc' = "adoptLeft"
    BY <1>1 DEF SetRootOffset
  <2> QED BY <2>1, SameFile
<1>2. CASE AdoptLeft
  <2> DEFINE nd == [nodes[at] EXCEPT !.isRoot = FALSE, !.parent = rootOffset]
  <2>1. nodes' = [nodes EXCEPT ![at] = nd] /\ pc' = "adoptRight"
    BY <1>2 DEF AdoptLeft
  <2>2. SameContent(nodes[at], nd)
    BY <1>0 DEF Node, SameContent
  <2> HIDE DEF nd
  <2>3. Kept(nodes, nodes') /\ Newest' = Newest
    BY <1>0, <2>1, <2>2, Remarked DEF Log
  <2> QED BY <2>1, <2>3, KeptFloors
<1>3. CASE AdoptRight
  <2> DEFINE n == Len(nodes) - 1
             nd == [nodes[n] EXCEPT !.parent = rootOffset]
  <2>1. nodes' = [nodes EXCEPT ![n] = nd] /\ pc' = "descend" /\ pc = "adoptRight"
    BY <1>0, <1>3 DEF AdoptRight
  <2>2. n \in 1..Newest
    <3>1. 1 < Newest
      BY <2>1 DEF Log, Restored, Shape, Fits
    <3> QED BY <1>0, <3>1
  <2> HIDE DEF n
  <2>3. SameContent(nodes[n], nd)
    BY <1>0, <2>2 DEF Node, SameContent
  <2> HIDE DEF nd
  <2>4. Kept(nodes, nodes') /\ Newest' = Newest
    BY <2>1, <2>2, <2>3, Remarked DEF Log
  <2> QED BY <2>1, <2>4, KeptFloors
<1> QED BY <1>1, <1>2, <1>3

(***************************************************************************)
(* Descend keeps them: a sibling it stores gets the floor above the        *)
(* median.                                                                 *)
(***************************************************************************)
LEMMA DescendFloors ==
    ASSUME Log, NEW low, Floors(low), Descend
    PROVE  KeepsFloors
<1>1. /\ Stored(nodes) /\ Newest = Len(nodes) /\ Newest \in Nat /\ Floored(nodes, low)
      /\ at \in 1..Newest
      /\ \A n \in 1..Newest : /\ nodes[n] \in Node(Newest) /\ WellFormed(nodes[n])
                              /\ Above(nodes[n], low[n], low) /\ low[n] \in Nat
                              /\ Sorted(nodes[n].keys)
  BY FloorFacts
<1>2. /\ pc = "descend" /\ ~nodes[at].leaf /\ sib' = sib /\ med' = med
  BY DEF Descend
<1>3. PICK p \in Positions(nodes[at].keys, entry[1]) :
        LET child == nodes[nodes[at].children[p]] IN
        \/ /\ ~IsFull(child)
           /\ at' = nodes[at].children[p]
           /\ UNCHANGED <<nodes, pc, slot>>
        \/ /\ IsFull(child)
           /\ nodes' = Append(nodes, SplitRight(child))
           /\ slot' = p
           /\ pc' = "link"
           /\ UNCHANGED at
  BY DEF Descend
<1> DEFINE c == nodes[at].children[p]
           h == nodes[c]
           r == SplitRight(h)
           m == SplitMedian(h)
<1>4. c \in 1..Newest
  <2>1. /\ nodes[at].keys \in Seq(Key) /\ Len(nodes[at].children) = Len(nodes[at].keys) + 1
        /\ Len(nodes[at].keys) \in Nat
        /\ \A i \in 1..Len(nodes[at].children) : nodes[at].children[i] \in 1..Newest
    BY <1>1, <1>2, StoredFacts
  <2>2. p \in 1..(Len(nodes[at].keys) + 1)
    BY <2>1, PositionsIn
  <2> QED BY <2>1, <2>2
<1>5. CASE nodes' = nodes /\ pc' = pc
  BY <1>2, <1>5, SameFile
<1>6. CASE /\ IsFull(h) /\ nodes' = Append(nodes, r) /\ slot' = p /\ pc' = "link" /\ at' = at
  <2>1. /\ h \in Node(Newest) /\ WellFormed(h) /\ Above(h, low[c], low) /\ low[c] \in Nat
        /\ Sorted(h.keys)
    BY <1>1, <1>4
  <2>2. MaySplit(Newest, h)
    BY <1>1, <1>6, <2>1 DEF MaySplit
  <2>3. r \in Node(Newest) /\ WellFormed(r)
    <3> HIDE DEF h
    <3> QED BY <1>1, <1>6, <2>1, SplitRightFacts
  <2>4. Above(r, m + 1, low) /\ m \in Nat /\ \A k : Holds(r, k) => Holds(h, k)
    <3> HIDE DEF h, c
    <3> QED BY <1>1, <2>1, <2>2, SplitFloors
  <2>5. \A k : Holds(h, k) => InLeaf(nodes, k)
    BY <1>1, <1>4 DEF InLeaf
  <2>6. nodes'[at'] = nodes[at] /\ nodes'[c] = h /\ Newest' = Newest + 1
    <3>1. Len(nodes') = Len(nodes) + 1 /\ \A n \in 1..Len(nodes) : nodes'[n] = nodes[n]
      BY <1>1, <1>6, Grew
    <3> QED BY <1>1, <1>4, <1>6, <3>1 DEF Newest
  <2>7. SplitMedian(nodes'[nodes'[at'].children[slot']]) = m
    BY <1>6, <2>6
  <2> HIDE DEF m, r, h, c
  <2>8. PICK new : HasFloors(nodes, low, r, m + 1, nodes', new)
    <3>1. m + 1 \in Nat
      BY <2>4
    <3> QED BY <1>1, <1>6, <2>3, <2>4, <3>1, AppendFloors
  <2>9. /\ Floored(nodes', new) /\ new[Newest + 1] = m + 1
        /\ \A k : InLeaf(nodes', k) => InLeaf(nodes, k) \/ Holds(r, k)
    BY <1>1, <2>8 DEF HasFloors
  <2>10. m < new[Newest']
    BY <2>4, <2>6, <2>9
  <2>11. Floors(new)'
    BY <1>6, <2>7, <2>9, <2>10 DEF Floors
  <2>12. \A k : Occurs(k)' => Occurs(k)
    BY <1>6, <2>4, <2>5, <2>9 DEF Occurs
  <2> QED BY <2>11, <2>12 DEF KeepsFloors
<1> QED BY <1>3, <1>5, <1>6

(***************************************************************************)
(* LinkSibling does: the sibling, whose floor is above the separator,      *)
(* becomes the last child.                                                 *)
(***************************************************************************)
LEMMA LinkFloors ==
    ASSUME Log, NEW low, Floors(low), LinkSibling
    PROVE  KeepsFloors
<1> DEFINE N == Newest
           h == nodes[at]
           L == Len(h.keys)
           c == h.children[slot]
           sep == SplitMedian(nodes[c])
           nd == LinkAt(h, slot, sep, N)
           b == low[at]
<1>1. /\ Stored(nodes) /\ N = Len(nodes) /\ N \in Nat /\ Floored(nodes, low)
      /\ at \in 1..N /\ N \in 1..N
      /\ \A n \in 1..N : /\ nodes[n] \in Node(N) /\ WellFormed(nodes[n])
                         /\ Above(nodes[n], low[n], low) /\ low[n] \in Nat
                         /\ Sorted(nodes[n].keys)
  BY FloorFacts
<1>2. pc = "link" /\ pc' = "descend" /\ nodes' = [nodes EXCEPT ![at] = nd]
  BY DEF LinkSibling, Newest
<1>0. PICK lev : Shape(lev)
  BY DEF Log, Restored
<1>3. /\ slot \in 1..Len(h.children) /\ IsFull(nodes[c]) /\ slot = Len(h.children)
      /\ lev[N] + 1 = lev[at] /\ Leveled(nodes, lev)
  BY <1>0, <1>2 DEF Shape, Fits, Log, LinkHalf
<1>4. ~h.leaf
  <2>1. lev[N] \in Nat /\ lev[at] \in Nat /\ (h.leaf => lev[at] = 0)
    BY <1>1, <1>3 DEF Leveled
  <2> QED BY <1>3, <2>1
<1>5. /\ L \in Nat /\ slot = L + 1 /\ Len(h.children) = L + 1 /\ c \in 1..N
      /\ \A i \in 1..L : h.keys[i] \in Key /\ h.keys[i] \in Nat
  <2>1. /\ L \in Nat /\ Len(h.children) = L + 1 /\ \A i \in 1..L : h.keys[i] \in Key
        /\ \A i \in 1..Len(h.children) : h.children[i] \in 1..N
    BY <1>1, <1>4, StoredFacts
  <2> QED BY <1>3, <2>1, KeyIsNumber
<1>6. MaySplit(N, nodes[c])
  BY <1>1, <1>3, <1>5 DEF MaySplit
<1>7. sep \in Key /\ sep \in Nat /\ low[c] <= sep /\ low[c] \in Nat
  <2>1. sep \in Key
    <3>1. N \in Nat /\ nodes[c] \in Node(N) /\ WellFormed(nodes[c]) /\ IsFull(nodes[c])
      BY <1>1, <1>3, <1>5
    <3> QED BY <3>1, MedianIsKey
  <2>2. Above(nodes[c], low[c], low) /\ low[c] \in Nat /\ \A n \in 1..N : low[n] \in Nat
    BY <1>1, <1>5
  <2>3. low[c] <= sep
    <3> HIDE DEF c, N
    <3> QED BY <1>6, <2>2, SplitFloors
  <2> QED BY <2>1, <2>2, <2>3, KeyIsNumber
<1>8. sep < low[N]
  BY <1>2 DEF Floors
<1>9. /\ \A i \in 1..L : b <= h.keys[i]
      /\ b \in Nat /\ low[N] \in Nat
      /\ \A p \in 1..(L + 1) : b <= low[h.children[p]] /\ (p # 1 => h.keys[p - 1] < low[h.children[p]])
  BY <1>1, <1>4, <1>5 DEF Above
<1>10. b <= low[c]
  <2>1. slot \in 1..(L + 1)
    BY <1>5
  <2> QED BY <1>9, <2>1
<1>11. HasLinked(N, h, slot, sep, N, nd)
  <2>1. MayLink(N, h, slot, sep, N, nd)
    BY <1>1, <1>4, <1>5, <1>7 DEF MayLink
  <2> HIDE DEF nd, h, sep, N
  <2> QED BY <2>1, LinkFacts
<1> HIDE DEF nd, c, sep, b, h, L, N
<1>12. /\ nd.leaf = FALSE /\ Len(nd.keys) = L + 1 /\ nd.keys[L + 1] = sep
       /\ \A i \in 1..L : nd.keys[i] = h.keys[i]
       /\ \A i \in 1..(L + 1) : nd.children[i] = h.children[i]
       /\ nd.children[L + 2] = N /\ Len(nd.children) = L + 2
  <2>1. /\ nd.leaf = FALSE /\ Len(nd.keys) = L + 1 /\ nd.keys[slot] = sep
        /\ \A i \in 1..(slot - 1) : nd.keys[i] = h.keys[i]
        /\ \A i \in 1..slot : nd.children[i] = h.children[i]
        /\ nd.children[slot + 1] = N /\ Len(nd.children) = L + 2
    BY <1>11 DEF HasLinked, L
  <2>2. slot - 1 = L /\ slot + 1 = L + 2
    BY <1>5
  <2> QED BY <1>5, <2>1, <2>2
<1>13. Above(nd, b, low)
  <2>1. ASSUME NEW i \in 1..(L + 1) PROVE b <= nd.keys[i]
    <3>1. i \in 1..L \/ i = L + 1
      BY <1>5
    <3>2. CASE i \in 1..L
      BY <1>9, <1>12, <3>2
    <3>3. CASE i = L + 1
      BY <1>7, <1>9, <1>10, <1>12, <3>3
    <3> QED BY <3>1, <3>2, <3>3
  <2>2. ASSUME NEW p \in 1..(L + 2)
        PROVE  b <= low[nd.children[p]] /\ (p # 1 => nd.keys[p - 1] < low[nd.children[p]])
    <3>1. p \in 1..(L + 1) \/ p = L + 2
      BY <1>5
    <3>2. CASE p \in 1..(L + 1)
      <4>1. nd.children[p] = h.children[p]
        BY <1>12, <3>2
      <4>2. p # 1 => p - 1 \in 1..L
        BY <1>5, <3>2
      <4> QED BY <1>9, <1>12, <3>2, <4>1, <4>2
    <3>3. CASE p = L + 2
      <4>1. p - 1 = L + 1 /\ p # 1
        BY <1>5, <3>3
      <4> QED BY <1>7, <1>8, <1>9, <1>10, <1>12, <3>3, <4>1
    <3> QED BY <3>1, <3>2, <3>3
  <2>3. Len(nd.keys) # 0
    BY <1>5, <1>12
  <2> QED BY <1>12, <2>1, <2>2, <2>3 DEF Above
<1>14. /\ Floored(nodes', low)
       /\ \A k : InLeaf(nodes', k) => InLeaf(nodes, k) \/ Holds(nd, k)
  <2>1. at \in 1..Len(nodes) /\ Above(nd, low[at], low)
    BY <1>1, <1>13 DEF b
  <2> QED BY <1>1, <1>2, <2>1, ReplaceFloors
<1>15. Floors(low)'
  BY <1>2, <1>14 DEF Floors
<1>16. \A k : Occurs(k)' => Occurs(k)
  <2>1. \A k : ~Holds(nd, k)
    BY <1>12 DEF Holds
  <2> QED BY <1>2, <1>14, <2>1 DEF Occurs
<1> QED BY <1>15, <1>16 DEF KeepsFloors

(***************************************************************************)
(* StoreLeaf keeps the floors, and puts no key into a leaf but the one     *)
(* being inserted: it is no less than the floor, as it is no less than any *)
(* key of the leaf.                                                        *)
(***************************************************************************)
LEMMA StoreFloors ==
    ASSUME Log, NEW low, Floors(low), StoreLeaf
    PROVE  (\E new : Floors(new)') /\ \A k : Occurs(k)' => Occurs(k) \/ k = entry[1]
<1> DEFINE h == nodes[at]
           b == low[at]
<1>0. PICK e, v : e = entry[1] /\ v = entry[2]
  OBVIOUS
<1>1. /\ Stored(nodes) /\ Newest = Len(nodes) /\ Newest \in Nat /\ Floored(nodes, low)
      /\ at \in 1..Newest /\ h \in Node(Newest) /\ WellFormed(h) /\ Above(h, b, low) /\ b \in Nat
  BY FloorFacts
<1>2. pc = "descend" /\ h.leaf /\ pc' = "idle"
  BY DEF StoreLeaf, Return
<1>3. e \in Key /\ e \in Nat /\ v \in Value
  BY <1>0, <1>2, EntryIsKey
<1>4. PICK nd : nodes' = [nodes EXCEPT ![at] = nd] /\ LeafHas(h, nd, e, v)
  BY <1>0, LeafIsStored
<1>5. /\ nd.leaf = TRUE /\ nd.keys \in Seq(Key) /\ Sorted(nd.keys) /\ LeafAnswers(nd, e) = {v}
      /\ \A i \in 1..Len(nd.keys) : nd.keys[i] = e \/ \E j \in 1..Len(h.keys) : nd.keys[i] = h.keys[j]
  BY <1>4 DEF LeafHas
<1>6. /\ Len(h.keys) \in Nat /\ \A j \in 1..Len(h.keys) : h.keys[j] \in Key /\ h.keys[j] \in Nat
  <2>1. Len(h.keys) \in Nat /\ \A j \in 1..Len(h.keys) : h.keys[j] \in Key
    BY <1>1, NodeFields
  <2> QED BY <2>1, KeyIsNumber
<1>7. \A j \in 1..Len(h.keys) : h.keys[j] <= e
  <2>1. Timely(allowed, h)
    BY <1>1 DEF Log, Ordering
  <2>2. \A j \in 1..Len(h.keys) : Said(allowed, h.keys[j])
    BY <1>2, <2>1 DEF Timely
  <2> QED BY <1>0, <1>2, <1>6, <2>2 DEF Log, Latest
<1>8. b <= e
  <2>1. CASE Len(h.keys) = 0
    BY <1>1, <1>3, <2>1 DEF Above
  <2>2. CASE Len(h.keys) # 0
    <3>1. 1 \in 1..Len(h.keys)
      BY <1>6, <2>2
    <3>2. b <= h.keys[1] /\ h.keys[1] <= e /\ h.keys[1] \in Nat
      BY <1>1, <1>6, <1>7, <3>1 DEF Above
    <3> QED BY <1>1, <1>3, <3>2
  <2> QED BY <2>1, <2>2
<1>9. Len(nd.keys) # 0
  <2> SUFFICES ASSUME Len(nd.keys) = 0 PROVE FALSE
    OBVIOUS
  <2>1. \A p \in 1..Len(nd.keys) : nd.keys[p] # e
    OBVIOUS
  <2>2. LeafAnswers(nd, e) = {None}
    BY <1>3, <1>5, <2>1, LeafAnswer
  <2> QED BY <1>3, <1>5, <2>2, TreeAssumption
<1>10. Above(nd, b, low)
  <2>1. \A j \in 1..Len(h.keys) : b <= h.keys[j]
    BY <1>1 DEF Above
  <2> QED BY <1>5, <1>8, <1>9, <2>1 DEF Above
<1>11. /\ Floored(nodes', low)
       /\ \A k : InLeaf(nodes', k) => InLeaf(nodes, k) \/ Holds(nd, k)
  BY <1>1, <1>4, <1>10, ReplaceFloors
<1>12. Floors(low)'
  BY <1>2, <1>11 DEF Floors
<1>13. \A k : Holds(nd, k) => InLeaf(nodes, k) \/ k = e
  <2>1. \A k : Holds(nd, k) => Holds(h, k) \/ k = e
    BY <1>2, <1>5 DEF Holds
  <2> QED BY <1>1, <2>1 DEF InLeaf
<1>14. \A k : Occurs(k)' => Occurs(k) \/ k = entry[1]
  BY <1>0, <1>2, <1>11, <1>13 DEF Occurs
<1> QED BY <1>12, <1>14

(***************************************************************************)
(* Every key of a leaf has a value, as far as the tree says.               *)
(***************************************************************************)
Present == \A k \in Key : Occurs(k) => None \notin Says(k)

(***************************************************************************)
(* The inductive invariant of range queries.                               *)
(***************************************************************************)
Ranged == Log /\ (\E low : Floors(low)) /\ Present

(***************************************************************************)
(* A silent step that keeps the floors keeps it, ...                       *)
(***************************************************************************)
LEMMA SilentRanged ==
    ASSUME Ranged, Log', Silent, KeepsFloors
    PROVE  Ranged'
<1>1. Present'
  BY DEF Ranged, Present, Silent, KeepsFloors
<1> QED BY <1>1 DEF Ranged, KeepsFloors

(***************************************************************************)
(* ... and every step of a log does.                                       *)
(***************************************************************************)
LEMMA RangedNext ==
    ASSUME Ranged, [Steps]_vars
    PROVE  Ranged'
<1>1. Log /\ Log' /\ Restored'
  BY LogNext DEF Ranged, Log
<1>2. PICK low : Floors(low)
  BY DEF Ranged
<1>3. kind = "insert" /\ pc \notin Bulky
  BY <1>1, RestoredFacts DEF Log
<1>4. CASE InsertAscending
  <2>1. PICK k \in Key, v \in Value : AscendingKey(k) /\ Insert(k, v)
    BY <1>4 DEF InsertAscending
  <2>2. Silent
    BY <1>1, <2>1, LogInsert
  <2>3. KeepsFloors
    BY <1>1, <1>2, <2>1, InsertFloors
  <2> QED BY <1>1, <2>2, <2>3, SilentRanged
<1>5. CASE Store
  <2>1. ~(BatchStore \/ BatchPut \/ BatchSibling \/ BatchLeft \/ BatchParent)
    BY <1>3 DEF Bulky, BatchStore, BatchPut, BatchSibling, BatchLeft, BatchParent
  <2>2. CASE StoreLeaf
    <3>1. Tells
      BY <1>1, <2>2, LogStoreLeaf
    <3>2. /\ \E new : Floors(new)'
          /\ \A k : Occurs(k)' => Occurs(k) \/ k = entry[1]
      BY <1>1, <1>2, <2>2, StoreFloors
    <3>3. entry[2] \in Value /\ None \notin Value
      BY <1>1, <2>2, EntryIsKey, TreeAssumption DEF StoreLeaf
    <3>4. Present'
      <4> SUFFICES ASSUME NEW k \in Key, Occurs(k)' PROVE None \notin Says(k)'
        BY DEF Present
      <4>1. Says(k)' = IF k = entry[1] THEN {entry[2]} ELSE Says(k)
        BY <3>1 DEF Tells
      <4>2. CASE k = entry[1]
        BY <3>3, <4>1, <4>2
      <4>3. CASE k # entry[1]
        BY <3>2, <4>1, <4>3 DEF Ranged, Present
      <4> QED BY <4>2, <4>3
    <3> QED BY <1>1, <3>2, <3>4 DEF Ranged
  <2>3. CASE RootSibling
    BY <1>1, <1>2, <2>3, LogRootSibling, RootSiblingFloors, SilentRanged
  <2>4. CASE GrowRoot
    BY <1>1, <1>2, <2>4, LogGrowRoot, GrowRootFloors, SilentRanged
  <2>5. CASE SetRootOffset
    BY <1>1, <1>2, <2>5, LogSetRoot, MarkFloors, SilentRanged
  <2>6. CASE AdoptLeft
    BY <1>1, <1>2, <2>6, LogAdoptLeft, MarkFloors, SilentRanged
  <2>7. CASE AdoptRight
    BY <1>1, <1>2, <2>7, LogAdoptRight, MarkFloors, SilentRanged
  <2>8. CASE Descend
    BY <1>1, <1>2, <2>8, LogDescend, DescendFloors, SilentRanged
  <2>9. CASE LinkSibling
    BY <1>1, <1>2, <2>9, LogLinkSibling, LinkFloors, SilentRanged
  <2> QED BY <1>5, <2>1, <2>2, <2>3, <2>4, <2>5, <2>6, <2>7, <2>8, <2>9 DEF Store
<1>6. CASE pc \notin Torn /\ Crash
  <2>1. nodes' = nodes /\ pc' = "idle"
    BY <1>6 DEF Crash, Return, disk
  <2>2. Silent
    BY <1>1, <1>6, LogCrash
  <2>3. KeepsFloors
    BY <1>1, <1>2, <2>1, SameFile
  <2> QED BY <1>1, <2>2, <2>3, SilentRanged
<1>7. CASE UNCHANGED vars
  <2>1. /\ nodes' = nodes /\ pc' = pc /\ sib' = sib /\ med' = med /\ at' = at /\ slot' = slot
    BY <1>7 DEF vars, disk, locals
  <2>2. Silent
    BY <1>1, <1>7, LogSame
  <2>3. KeepsFloors
    BY <1>1, <1>2, <2>1, SameFile
  <2> QED BY <1>1, <2>2, <2>3, SilentRanged
<1> QED BY <1>4, <1>5, <1>6, <1>7 DEF Steps

(***************************************************************************)
(* A fresh tree has one node, with floor 0, and no keys.                   *)
(***************************************************************************)
LEMMA RangedInit == Init => Ranged
<1> SUFFICES ASSUME Init PROVE Ranged
  OBVIOUS
<1> DEFINE nd == [NewLeaf EXCEPT !.isRoot = TRUE]
           low == [n \in 1..1 |-> 0]
<1>1. Log
  BY LogInit
<1>2. nodes = <<nd>> /\ pc = "idle"
  BY DEF Init, Idle
<1>3. nd.leaf = TRUE /\ nd.keys = <<>>
  BY DEF NewLeaf
<1> HIDE DEF nd
<1>4. Len(nodes) = 1 /\ nodes[1] = nd /\ \A n \in 1..1 : n = 1
  BY <1>2
<1>5. low \in [1..1 -> Nat] /\ low[1] = 0
  OBVIOUS
<1>6. Len(nd.keys) = 0 /\ 1..0 = {}
  BY <1>3
<1> HIDE DEF low
<1>7. Above(nd, 0, low)
  BY <1>3, <1>6 DEF Above
<1>8. Floors(low)
  BY <1>2, <1>4, <1>5, <1>7 DEF Floors, Floored
<1>9. \A k : ~Occurs(k)
  BY <1>2, <1>4, <1>6 DEF Occurs, InLeaf, Holds
<1> QED BY <1>1, <1>8, <1>9 DEF Ranged, Present

(***************************************************************************)
(* In a tree filled in ascending order, get_range, called at any moment of *)
(* any insertion except while a root is being split, and after crashes as  *)
(* well, returns every key of the range that has been inserted, and as the *)
(* last pair of the key the value given to it last, or one whose insertion *)
(* was never acknowledged: the copies that insert_non_full leaves behind   *)
(* in a split child come before it.                                        *)
(***************************************************************************)
THEOREM LogRangeLastWins == LogSpec => []RangeLastWins
<1>1. Init => Ranged
  BY RangedInit
<1>2. Ranged /\ [Steps]_vars => Ranged'
  BY RangedNext
<1>3. Ranged => RangeLastWins
  <2> SUFFICES ASSUME Ranged, pc \notin Torn, NEW range \in Ranges, NEW k \in Key,
                      range[1] <= k, k < range[2]
               PROVE  LET pairs == GetRange(range[1], range[2])
                          current == {i \in DOMAIN pairs : pairs[i][1] = k}
                      IN  \/ None \in allowed[k] /\ current = {}
                          \/ \E i \in current : /\ pairs[i][2] \in allowed[k]
                                                /\ \A j \in current : j <= i
    BY DEF RangeLastWins
  <2> DEFINE start == range[1]
             end == range[2]
             pairs == GetRange(start, end)
             current == {i \in DOMAIN pairs : pairs[i][1] = k}
  <2>1. start \in Nat /\ end \in Nat /\ start <= k /\ k < end
    BY TreeAssumption
  <2>2. PICK low : Floors(low)
    BY DEF Ranged
  <2>3. PICK lev : Leveled(nodes, lev)
    BY RestoredFacts DEF Ranged, Log
  <2>4. /\ Stored(nodes) /\ rootOffset \in 1..Len(nodes)
        /\ \A n \in 1..Len(nodes) : NodeOrdered(nodes, nodes[n])
    BY RestoredFacts DEF Ranged, Log, Ordering
  <2>5. Neat(nodes, lev)
    BY <2>3, <2>4 DEF Neat
  <2> HIDE DEF start, end, pairs
  <2>6. PICK f \in RangesOf(nodes, start, end) : pairs = f[rootOffset]
    BY <2>1, <2>4, <2>5, GetRangeIs DEF pairs
  <2>7. RangeRight(nodes, low, f, rootOffset, k)
    <3>1. Floored(nodes, low)
      BY <2>2 DEF Floors
    <3> QED BY <2>1, <2>4, <2>5, <3>1, AllRangesRight
  <2> DEFINE X == PairsFrom(nodes, low[rootOffset])
             A == Answers(nodes, rootOffset, k)
  <2>8. pairs \in Seq(X) /\ A # {} /\ \A v \in A : v # None => LastIs(pairs, k, v)
    BY <2>6, <2>7 DEF RangeRight
  <2>9. A = Says(k) /\ A \subseteq allowed[k]
    BY DEF Ranged, Log, Truth, Says
  <2>10. \A x \in X : InLeaf(nodes, x[1])
    BY DEF PairsFrom
  <2> HIDE DEF X, A
  <2>11. DOMAIN pairs = 1..Len(pairs) /\ \A i \in 1..Len(pairs) : pairs[i] \in X
    BY <2>8
  <2>12. PICK v \in A : TRUE
    BY <2>8
  <2>13. CASE v = None
    <3>1. ~InLeaf(nodes, k)
      BY <2>9, <2>12, <2>13 DEF Ranged, Present, Occurs
    <3>2. current = {}
      BY <2>10, <2>11, <3>1
    <3> QED BY <2>9, <2>12, <2>13, <3>2 DEF pairs, start, end
  <2>14. CASE v # None
    <3>1. LastIs(pairs, k, v)
      BY <2>8, <2>14
    <3>2. PICK i \in 1..Len(pairs) : /\ pairs[i] = <<k, v>>
                                     /\ \A j \in 1..Len(pairs) : pairs[j][1] = k => j <= i
      BY <3>1 DEF LastIs
    <3>3. i \in current /\ pairs[i][2] = v /\ \A j \in current : j <= i
      BY <2>11, <3>2
    <3> QED BY <2>9, <2>12, <3>3 DEF pairs, start, end
  <2> QED BY <2>13, <2>14
<1> QED BY <1>1, <1>2, <1>3, PTL DEF LogSpec, Steps
==============================================================================
