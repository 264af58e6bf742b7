--------------------------- MODULE QueryPathProofs ---------------------------
(***************************************************************************)
(* Proofs about Ranking and QueryPath, for any commits, distances, numbers *)
(* asked for and queries, with any number of handlers.                     *)
(***************************************************************************)
EXTENDS QueryPath, WalCommitProofs, Induction

(***************************************************************************)
(* Entries, ids and distances both numbers.                                *)
(***************************************************************************)
EntrySet == [id : Int, distance : Int]

(***************************************************************************)
(* No two entries have the same id.                                        *)
(***************************************************************************)
Apart(s) == \A i, j \in 1..Len(s) : s[i].id = s[j].id => i = j

(***************************************************************************)
(* A list sorted: the same entries, in some order.                         *)
(***************************************************************************)
Reorders(t, s) ==
    /\ t \in Seq(EntrySet) /\ Len(t) = Len(s) /\ ToSet(t) = ToSet(s)
    /\ Apart(s) => Apart(t)

(***************************************************************************)
(* Sorting reorders.                                                       *)
(***************************************************************************)
LEMMA ArrangedReorders ==
    ASSUME NEW s \in Seq(EntrySet), NEW before, TotalOrder(1..Len(s), before)
    PROVE  /\ Reorders(Arranged(s, before), s)
           /\ \E f : /\ Rearranges(f, Len(s)) /\ InOrder(f, Len(s), before)
                     /\ Arranged(s, before) = [i \in 1..Len(s) |-> s[f[i]]]
<1> DEFINE n == Len(s)
           t == Arranged(s, before)
<1>1. PICK f : /\ Rearranges(f, n) /\ InOrder(f, n, before)
               /\ t = [i \in 1..n |-> s[f[i]]]
  BY ArrangedIs
<1> HIDE DEF t
<1>2. t \in Seq(EntrySet) /\ Len(t) = n /\ ToSet(t) = ToSet(s)
  <2> DEFINE u == [i \in 1..Len(s) |-> s[f[i]]]
  <2>1. u \in Seq(EntrySet) /\ Len(u) = Len(s) /\ ToSet(u) = ToSet(s)
    BY <1>1, RearrangedKeeps
  <2>2. t = u
    BY <1>1
  <2> HIDE DEF u
  <2> QED BY <2>1, <2>2
<1>3. Apart(s) => Apart(t)
  <2>1. /\ \A i \in 1..n : f[i] \in 1..n /\ t[i] = s[f[i]]
        /\ \A i, j \in 1..n : f[i] = f[j] => i = j
    BY <1>1 DEF Rearranges
  <2> SUFFICES ASSUME Apart(s), NEW i \in 1..n, NEW j \in 1..n, t[i].id = t[j].id PROVE i = j
    BY <1>2 DEF Apart
  <2>2. s[f[i]].id = s[f[j]].id /\ f[i] \in 1..n /\ f[j] \in 1..n
    BY <2>1
  <2>3. f[i] = f[j]
    BY <2>2 DEF Apart
  <2> QED BY <2>1, <2>3
<1> QED BY <1>1, <1>2, <1>3 DEF Reorders, t

(***************************************************************************)
(* Sorting by id and by distance only reorders.                            *)
(***************************************************************************)
LEMMA ByIdReorders == \A s \in Seq(EntrySet) : Reorders(SortedById(s), s)
<1> SUFFICES ASSUME NEW s \in Seq(EntrySet) PROVE Reorders(SortedById(s), s)
  OBVIOUS
<1> DEFINE S == 1..Len(s)
           before(i, j) == ById(s[i], s[j]) \/ (s[i] = s[j] /\ i < j)
           order == {pair \in S \X S : before(pair[1], pair[2])}
<1>1. \A i \in S : i \in Int /\ s[i] \in EntrySet
  OBVIOUS
<1>2. \A i \in S : s[i].id \in Int /\ s[i].distance \in Int
  BY <1>1 DEF EntrySet
<1>3. \A i, j \in S : s[i].id = s[j].id /\ s[i].distance = s[j].distance => s[i] = s[j]
  <2>1. \A d, e \in EntrySet : d.id = e.id /\ d.distance = e.distance => d = e
    <3>1. \A d \in EntrySet : d = [id |-> d.id, distance |-> d.distance]
      BY DEF EntrySet
    <3> QED BY <3>1
  <2> HIDE DEF S
  <2> QED BY <1>1, <2>1
<1>4. \A i, j \in S : <<i, j>> \in order <=> before(i, j)
  OBVIOUS
<1>5. \A i \in S : ~before(i, i)
  BY <1>1, <1>2 DEF ById
<1>6. \A i, j \in S : i = j \/ before(i, j) \/ before(j, i)
  BY <1>1, <1>2, <1>3 DEF ById
<1>7. \A i, j, k \in S : before(i, j) /\ before(j, k) => before(i, k)
  BY <1>1, <1>2 DEF ById
<1>8. TotalOrder(S, order)
  <2> HIDE DEF order, before, S
  <2> QED BY <1>4, <1>5, <1>6, <1>7 DEF TotalOrder
<1>9. SortedById(s) = Arranged(s, order)
  <2>1. DOMAIN s = S
    OBVIOUS
  <2> QED BY <2>1 DEF SortedById
<1> HIDE DEF order
<1> QED BY <1>8, <1>9, ArrangedReorders

(***************************************************************************)
(* Sorting by distance reorders, and puts the nearest first.               *)
(***************************************************************************)
LEMMA ByDistanceReorders ==
    ASSUME NEW s \in Seq(EntrySet)
    PROVE  /\ Reorders(ByDistance(s), s)
           /\ \A e \in ToSet(s) : Len(s) # 0 /\ ByDistance(s)[1].distance <= e.distance
<1> DEFINE n == Len(s)
           S == 1..Len(s)
           before(i, j) == \/ s[i].distance < s[j].distance
                           \/ s[i].distance = s[j].distance /\ i < j
           order == {pair \in S \X S : before(pair[1], pair[2])}
           t == ByDistance(s)
<1>1. n \in Nat /\ \A i \in S : i \in Int /\ s[i] \in EntrySet
  OBVIOUS
<1>2. \A i \in S : s[i].distance \in Int
  BY <1>1 DEF EntrySet
<1>3. \A i, j \in S : <<i, j>> \in order <=> before(i, j)
  OBVIOUS
<1>4. \A i \in S : ~before(i, i)
  BY <1>1, <1>2
<1>5. \A i, j \in S : i = j \/ before(i, j) \/ before(j, i)
  BY <1>1, <1>2
<1>6. \A i, j, k \in S : before(i, j) /\ before(j, k) => before(i, k)
  BY <1>1, <1>2
<1>7. TotalOrder(S, order)
  <2> HIDE DEF order, before, S
  <2> QED BY <1>3, <1>4, <1>5, <1>6 DEF TotalOrder
<1>8. t = Arranged(s, order)
  <2>1. DOMAIN s = S
    OBVIOUS
  <2> QED BY <2>1 DEF ByDistance
<1> HIDE DEF order, t
<1>9. /\ Reorders(t, s)
      /\ \E f : Rearranges(f, n) /\ InOrder(f, n, order) /\ t = [i \in 1..n |-> s[f[i]]]
  BY <1>7, <1>8, ArrangedReorders
<1>10. PICK f : Rearranges(f, n) /\ InOrder(f, n, order) /\ t = [i \in 1..n |-> s[f[i]]]
  BY <1>9
<1>11. ASSUME NEW e \in ToSet(s) PROVE n # 0 /\ t[1].distance <= e.distance
  <2>1. PICK k \in S : e = s[k]
    BY DEF ToSet
  <2>2. n # 0 /\ 1 \in S
    BY <1>1, <2>1
  <2>3. PICK i \in S : f[i] = k
    BY <1>10 DEF Rearranges
  <2>4. f[1] \in S /\ t[1] = s[f[1]]
    BY <1>10, <2>2 DEF Rearranges
  <2>5. i = 1 \/ 1 < i
    BY <1>1
  <2>6. 1 < i => before(f[1], f[i])
    BY <1>3, <1>10, <2>2, <2>3, <2>4 DEF InOrder
  <2>7. s[f[1]].distance <= s[k].distance
    BY <1>2, <2>3, <2>4, <2>5, <2>6
  <2> QED BY <2>1, <2>2, <2>4, <2>7
<1> QED BY <1>9, <1>11 DEF t

(***************************************************************************)
(* A list with one entry more, or without its last.                        *)
(***************************************************************************)
LEMMA OneMore ==
    ASSUME NEW s \in Seq(EntrySet), NEW e \in EntrySet
    PROVE  LET t == Append(s, e)
           IN  /\ t \in Seq(EntrySet) /\ Len(t) = Len(s) + 1 /\ ToSet(t) = ToSet(s) \cup {e}
               /\ Apart(s) /\ (\A x \in ToSet(s) : x.id # e.id) => Apart(t)
<1> DEFINE t == Append(s, e)
           n == Len(s)
<1>1. /\ n \in Nat /\ t \in Seq(EntrySet) /\ Len(t) = n + 1 /\ t[n + 1] = e
      /\ \A i \in 1..n : t[i] = s[i]
      /\ DOMAIN s = 1..n /\ DOMAIN t = 1..(n + 1)
  OBVIOUS
<1> HIDE DEF t, n
<1>2. \A i \in 1..(n + 1) : i \in 1..n \/ i = n + 1
  BY <1>1
<1>3. 1..n \subseteq 1..(n + 1) /\ n + 1 \in 1..(n + 1)
  BY <1>1
<1>4. ToSet(s) = {s[i] : i \in 1..n} /\ ToSet(t) = {t[i] : i \in 1..(n + 1)}
  BY <1>1 DEF ToSet
<1>5. ToSet(t) = ToSet(s) \cup {e}
  BY <1>1, <1>2, <1>3, <1>4
<1>6. ASSUME Apart(s), \A x \in ToSet(s) : x.id # e.id PROVE Apart(t)
  <2>1. \A i, j \in 1..n : s[i].id = s[j].id => i = j
    BY <1>6 DEF Apart, n
  <2>2. \A i \in 1..n : s[i].id # e.id
    BY <1>4, <1>6
  <2>3. \A i, j \in 1..(n + 1) : t[i].id = t[j].id => i = j
    BY <1>1, <1>2, <2>1, <2>2
  <2> QED BY <1>1, <2>3 DEF Apart
<1> QED BY <1>1, <1>5, <1>6 DEF t, n

(***************************************************************************)
(* A list of entries without its last.                                     *)
(***************************************************************************)
LEMMA OneLess ==
    ASSUME NEW s \in Seq(EntrySet), s # <<>>
    PROVE  LET t == Front(s)
           IN  /\ t \in Seq(EntrySet) /\ Len(t) = Len(s) - 1 /\ Last(s) \in EntrySet
               /\ ToSet(s) = ToSet(t) \cup {Last(s)}
               /\ Apart(s) => Apart(t)
<1> DEFINE t == Front(s)
           n == Len(s)
<1>1. n \in Nat \ {0} /\ DOMAIN s = 1..n /\ \A i \in 1..n : s[i] \in EntrySet
  OBVIOUS
<1>2. t = [i \in 1..(n - 1) |-> s[i]] /\ Last(s) = s[n]
  BY <1>1 DEF Front, Last
<1> HIDE DEF t, n
<1>3. \A i \in 1..(n - 1) : i \in 1..n
  BY <1>1
<1>4. n - 1 \in Nat /\ t \in [1..(n - 1) -> EntrySet]
  BY <1>1, <1>2, <1>3
<1>5. t \in Seq(EntrySet) /\ Len(t) = n - 1 /\ DOMAIN t = 1..(n - 1) /\ \A i \in 1..(n - 1) : t[i] = s[i]
  BY <1>2, <1>4
<1>6. \A i \in 1..n : i \in 1..(n - 1) \/ i = n
  BY <1>1
<1>7. n \in 1..n
  BY <1>1
<1>8. ToSet(s) = {s[i] : i \in 1..n} /\ ToSet(t) = {t[i] : i \in 1..(n - 1)}
  BY <1>1, <1>5 DEF ToSet
<1>9. ToSet(s) = ToSet(t) \cup {Last(s)}
  BY <1>2, <1>3, <1>5, <1>6, <1>7, <1>8
<1>10. Apart(s) => Apart(t)
  BY <1>3, <1>5 DEF Apart, n
<1> QED BY <1>1, <1>2, <1>5, <1>7, <1>9, <1>10 DEF t, n

(***************************************************************************)
(* What is kept of n entries given: k of them, or all if they are fewer,   *)
(* and for each that was given one that is no farther.                     *)
(***************************************************************************)
Good(s, given, n, k) ==
    /\ s \in Seq(EntrySet) /\ Len(s) = (IF n <= k THEN n ELSE k)
    /\ ToSet(s) \subseteq given /\ Apart(s)
    /\ \A e \in given : \E x \in ToSet(s) : x.distance <= e.distance

(***************************************************************************)
(* What is kept are entries.                                               *)
(***************************************************************************)
LEMMA KeepType ==
    \A k \in Nat \ {0} : \A s \in Seq(EntrySet) : \A e \in EntrySet : Keep(s, e, k) \in Seq(EntrySet)
<1> SUFFICES ASSUME NEW k \in Nat \ {0}, NEW s \in Seq(EntrySet), NEW e \in EntrySet
             PROVE  Keep(s, e, k) \in Seq(EntrySet)
  OBVIOUS
<1>1. SortedById(Append(s, e)) \in Seq(EntrySet)
  BY OneMore, ByIdReorders DEF Reorders
<1>2. ASSUME ~(Len(s) < k) PROVE SortedById(Append(Front(s), e)) \in Seq(EntrySet)
  <2>1. s # <<>>
    BY <1>2
  <2>2. Front(s) \in Seq(EntrySet)
    BY <2>1, OneLess
  <2>3. Append(Front(s), e) \in Seq(EntrySet)
    BY <2>2, OneMore
  <2> QED BY <2>3, ByIdReorders DEF Reorders
<1> QED BY <1>1, <1>2 DEF Keep

(***************************************************************************)
(* A chunk takes one entry more.                                           *)
(***************************************************************************)
LEMMA KeepStep ==
    ASSUME NEW k \in Nat \ {0}, NEW n \in Nat, NEW given \in SUBSET EntrySet, NEW s, Good(s, given, n, k),
           NEW e \in EntrySet, \A x \in given : x.id # e.id
    PROVE  Good(Keep(s, e, k), given \cup {e}, n + 1, k)
<1>1. /\ s \in Seq(EntrySet) /\ Len(s) = (IF n <= k THEN n ELSE k)
      /\ ToSet(s) \subseteq given /\ Apart(s)
      /\ \A d \in given : \E x \in ToSet(s) : x.distance <= d.distance
  BY DEF Good
<1>2. \A x \in EntrySet : x.distance \in Int
  BY DEF EntrySet
<1>3. CASE Len(s) < k
  <2> DEFINE t == Append(s, e)
             u == SortedById(t)
  <2>1. t \in Seq(EntrySet) /\ Len(t) = Len(s) + 1 /\ ToSet(t) = ToSet(s) \cup {e} /\ Apart(t)
    BY <1>1, OneMore
  <2> HIDE DEF t
  <2>2. u \in Seq(EntrySet) /\ Len(u) = Len(t) /\ ToSet(u) = ToSet(t) /\ Apart(u)
    BY <2>1, ByIdReorders DEF Reorders
  <2>3. Keep(s, e, k) = u
    BY <1>3 DEF Keep, t
  <2> HIDE DEF u
  <2>4. Len(u) = IF n + 1 <= k THEN n + 1 ELSE k
    BY <1>1, <1>3, <2>1, <2>2
  <2>5. \A d \in given \cup {e} : \E x \in ToSet(u) : x.distance <= d.distance
    BY <1>1, <1>2, <2>1, <2>2
  <2> QED BY <1>1, <2>1, <2>2, <2>3, <2>4, <2>5 DEF Good
<1>4. CASE ~(Len(s) < k) /\ e.distance < Last(s).distance
  <2> DEFINE f == Front(s)
             t == Append(f, e)
             u == SortedById(t)
  <2>1. s # <<>> /\ Len(s) = k
    BY <1>1, <1>4
  <2>2. /\ f \in Seq(EntrySet) /\ Len(f) = Len(s) - 1 /\ Last(s) \in EntrySet
        /\ ToSet(s) = ToSet(f) \cup {Last(s)} /\ Apart(f)
    BY <1>1, <2>1, OneLess
  <2> HIDE DEF f
  <2>3. t \in Seq(EntrySet) /\ Len(t) = Len(f) + 1 /\ ToSet(t) = ToSet(f) \cup {e} /\ Apart(t)
    BY <1>1, <2>2, OneMore
  <2> HIDE DEF t
  <2>4. u \in Seq(EntrySet) /\ Len(u) = Len(t) /\ ToSet(u) = ToSet(t) /\ Apart(u)
    BY <2>3, ByIdReorders DEF Reorders
  <2>5. Keep(s, e, k) = u
    BY <1>4 DEF Keep, t, f
  <2> HIDE DEF u
  <2>6. Len(u) = IF n + 1 <= k THEN n + 1 ELSE k
    BY <1>1, <2>1, <2>2, <2>3, <2>4
  <2>7. ASSUME NEW d \in given \cup {e} PROVE \E x \in ToSet(u) : x.distance <= d.distance
    <3>1. e \in ToSet(u) /\ ToSet(f) \subseteq ToSet(u)
      BY <2>3, <2>4
    <3>2. CASE d = e
      BY <1>2, <3>1, <3>2
    <3>3. CASE d # e
      <4>1. d \in EntrySet /\ d \in given
        BY <2>7, <3>3
      <4>2. PICK x \in ToSet(s) : x.distance <= d.distance
        BY <1>1, <4>1
      <4>3. x = Last(s) => e.distance <= d.distance
        BY <1>2, <1>4, <2>2, <4>1, <4>2
      <4> QED BY <2>2, <3>1, <4>2, <4>3
    <3> QED BY <3>2, <3>3
  <2> QED BY <1>1, <2>2, <2>3, <2>4, <2>5, <2>6, <2>7 DEF Good
<1>5. CASE ~(Len(s) < k) /\ ~(e.distance < Last(s).distance)
  <2>1. s # <<>> /\ Len(s) = k
    BY <1>1, <1>5
  <2>2. Last(s) \in ToSet(s) /\ Last(s) \in EntrySet
    BY <1>1, <2>1, OneLess
  <2>3. Keep(s, e, k) = s
    BY <1>5 DEF Keep
  <2>4. Len(s) = IF n + 1 <= k THEN n + 1 ELSE k
    BY <1>1, <2>1
  <2>5. Last(s).distance <= e.distance
    BY <1>2, <1>5, <2>2
  <2>6. \A d \in given \cup {e} : \E x \in ToSet(s) : x.distance <= d.distance
    BY <1>1, <2>2, <2>5
  <2> QED BY <1>1, <2>3, <2>4, <2>6 DEF Good
<1> QED BY <1>3, <1>4, <1>5

(***************************************************************************)
(* What a chunk has kept after each of its entries.                        *)
(***************************************************************************)
KeepSteps(s, most) ==
    {h \in [0..Len(s) -> Seq(EntrySet)] :
        h[0] = <<>> /\ \A i \in 1..Len(s) : h[i] = Keep(h[i - 1], s[i], most)}

(***************************************************************************)
(* A chunk is taken entry by entry.                                        *)
(***************************************************************************)
LEMMA KeepAllIs ==
    ASSUME NEW most \in Nat \ {0}, NEW s \in Seq(EntrySet)
    PROVE  \E h \in KeepSteps(s, most) : KeepAll(s, most) = h[Len(s)]
<1> DEFINE n == Len(s)
           T == Seq(EntrySet)
           D == SUBSET (1..n)
           g == [i \in 1..n |-> [t \in T |-> Keep(t, s[i], most)]]
           IsFold(f) == f = [S \in D |-> IF S = {} THEN <<>> ELSE Keep(f[S \ {Max(S)}], s[Max(S)], most)]
           iter == CHOOSE f : IsFold(f)
<1>1. n \in Nat /\ DOMAIN s = 1..n /\ (\A i \in 1..n : s[i] \in EntrySet) /\ <<>> \in T
  <2>1. <<>> \in T
    OBVIOUS
  <2> QED BY <2>1
<1>2. \A t \in T : \A i \in 1..n : Keep(t, s[i], most) \in T
  BY <1>1, KeepType
<1>3. g \in [1..n -> [T -> T]]
  <2> HIDE DEF T
  <2> QED BY <1>2
<1> HIDE DEF n, T
<1>4. \A S \in D : S # {} => Max(S) \in 1..n
  BY <1>1, GreatestOf
<1>5. \E f : IsFold(f)
  <2>1. PICK k \in FoldsOf(T, <<>>, n, g) : TRUE
    <3> HIDE DEF g
    <3> QED BY <1>1, <1>3, FoldExists
  <2>2. k \in [D -> T] /\ \A S \in D : k[S] = IF S = {} THEN <<>> ELSE g[Max(S)][k[S \ {Max(S)}]]
    <3> HIDE DEF g
    <3> QED BY <2>1 DEF FoldsOf
  <2>3. \A S \in D : k[S] = IF S = {} THEN <<>> ELSE Keep(k[S \ {Max(S)}], s[Max(S)], most)
    <3> SUFFICES ASSUME NEW S \in D, S # {} PROVE k[S] = Keep(k[S \ {Max(S)}], s[Max(S)], most)
      BY <2>2
    <3>1. Max(S) \in 1..n /\ k[S \ {Max(S)}] \in T
      BY <1>4, <2>2
    <3> QED BY <2>2, <3>1
  <2>4. IsFold(k)
    <3> HIDE DEF D, g
    <3> QED BY <2>2, <2>3
  <2> QED BY <2>4
<1>6. IsFold(iter)
  <2> HIDE DEF IsFold
  <2> QED BY <1>5
<1>7. KeepAll(s, most) = iter[1..n]
  <2> HIDE DEF g
  <2> QED BY <1>1 DEF KeepAll, FoldLeft, MapThenFoldSet
<1> HIDE DEF iter
<1>8. iter[{}] = <<>>
  BY <1>6
<1>9. Folds(iter, T, <<>>, n, g)
  <2>1. \A S \in SUBSET (1..n) :
            S # {} /\ iter[S \ {Max(S)}] \in T => iter[S] = g[Max(S)][iter[S \ {Max(S)}]]
    BY <1>4, <1>6
  <2> HIDE DEF g, IsFold
  <2> QED BY <1>8, <2>1 DEF Folds
<1>10. PICK h \in StepsOf(T, <<>>, n, g) : h[n] = iter[1..n]
  <2> HIDE DEF g, IsFold
  <2>1. StepsTo(T, <<>>, n, g, iter[1..n]) # {}
    BY <1>1, <1>3, <1>9, FoldTaken
  <2>2. PICK k \in StepsTo(T, <<>>, n, g, iter[1..n]) : TRUE
    BY <2>1
  <2>3. k \in StepsOf(T, <<>>, n, g) /\ k[n] = iter[1..n]
    BY <2>2 DEF StepsTo
  <2> QED BY <2>3
<1>11. h \in [0..n -> T] /\ h[0] = <<>> /\ \A i \in 1..n : h[i] = g[i][h[i - 1]]
  <2> HIDE DEF g
  <2> QED BY <1>10 DEF StepsOf
<1>12. \A i \in 1..n : h[i] = Keep(h[i - 1], s[i], most)
  <2>1. \A i \in 1..n : h[i - 1] \in T
    <3> SUFFICES ASSUME NEW i \in 1..n PROVE h[i - 1] \in T
      OBVIOUS
    <3>1. i - 1 \in 0..n
      BY <1>1
    <3> HIDE DEF g
    <3> QED BY <1>11, <3>1
  <2>2. \A i \in 1..n : \A t \in T : g[i][t] = Keep(t, s[i], most)
    OBVIOUS
  <2> HIDE DEF g
  <2> QED BY <1>11, <2>1, <2>2
<1>13. h \in KeepSteps(s, most)
  BY <1>11, <1>12 DEF KeepSteps, n, T
<1> QED BY <1>7, <1>10, <1>13 DEF n

(***************************************************************************)
(* What is kept of a chunk.                                                *)
(***************************************************************************)
LEMMA KeepAllGood ==
    ASSUME NEW k \in Nat \ {0}, NEW s \in Seq(EntrySet), Apart(s)
    PROVE  Good(KeepAll(s, k), ToSet(s), Len(s), k)
<1> DEFINE n == Len(s)
           given(i) == {s[j] : j \in 1..i}
<1>1. n \in Nat /\ DOMAIN s = 1..n /\ \A i \in 1..n : s[i] \in EntrySet
  OBVIOUS
<1>2. PICK h \in KeepSteps(s, k) : KeepAll(s, k) = h[n]
  BY KeepAllIs
<1>3. h \in [0..n -> Seq(EntrySet)] /\ h[0] = <<>> /\ \A i \in 1..n : h[i] = Keep(h[i - 1], s[i], k)
  BY <1>2 DEF KeepSteps
<1>4. \A i, j \in 1..n : s[i].id = s[j].id => i = j
  BY DEF Apart
<1> HIDE DEF n
<1> DEFINE P == {i \in 0..n : Good(h[i], given(i), i, k)}
<1>5. 0 \in P
  <2>1. <<>> \in Seq(EntrySet) /\ Len(<<>>) = 0 /\ ToSet(<<>>) = {} /\ Apart(<<>>)
    BY DEF ToSet, Apart
  <2>2. given(0) = {} /\ 0 \in 0..n /\ (IF 0 <= k THEN 0 ELSE k) = 0
    BY <1>1
  <2>3. Good(<<>>, {}, 0, k)
    BY <2>1, <2>2 DEF Good
  <2> QED BY <1>3, <2>2, <2>3
<1>6. ASSUME NEW i \in 1..n, i - 1 \in P PROVE i \in P
  <2>1. i \in 0..n /\ i - 1 \in Nat /\ (i - 1) + 1 = i /\ \A j : j \in 1..i <=> j \in 1..(i - 1) \/ j = i
    BY <1>1
  <2>2. Good(h[i - 1], given(i - 1), i - 1, k) /\ h[i] = Keep(h[i - 1], s[i], k)
    BY <1>3, <1>6
  <2>3. given(i) = given(i - 1) \cup {s[i]}
    BY <2>1
  <2>4. \A j \in 1..(i - 1) : j \in 1..n /\ j # i
    BY <1>1, <2>1
  <2>5. given(i - 1) \in SUBSET EntrySet /\ s[i] \in EntrySet /\ \A x \in given(i - 1) : x.id # s[i].id
    BY <1>1, <1>4, <2>4
  <2> HIDE DEF given
  <2>6. Good(Keep(h[i - 1], s[i], k), given(i - 1) \cup {s[i]}, (i - 1) + 1, k)
    BY <2>1, <2>2, <2>5, KeepStep
  <2>7. Good(h[i], given(i), i, k)
    BY <2>1, <2>2, <2>3, <2>6
  <2> QED BY <2>1, <2>7
<1>7. \A i \in 0..n : i \in P
  <2> HIDE DEF P
  <2> QED BY <1>1, <1>5, <1>6, Climb
<1>8. n \in P
  <2> HIDE DEF P
  <2> QED BY <1>1, <1>7
<1>9. given(n) = ToSet(s)
  BY <1>1 DEF ToSet
<1> HIDE DEF given
<1>10. Good(h[n], ToSet(s), n, k)
  BY <1>8, <1>9
<1> QED BY <1>2, <1>10 DEF n

(***************************************************************************)
(* The first of a list is the nearest of those given.                      *)
(***************************************************************************)
Led(s, given) == \A e \in given : Len(s) # 0 /\ s[1].distance <= e.distance

(***************************************************************************)
(* A merge keeps the first entries of both in order of distance.           *)
(***************************************************************************)
LEMMA MergeIs ==
    ASSUME NEW k \in Nat \ {0}, NEW s \in Seq(EntrySet), NEW t \in Seq(EntrySet)
    PROVE  LET all == ByDistance(s \o t)
               u == MergeChunks(s, t, k)
           IN  /\ s \o t \in Seq(EntrySet) /\ all \in Seq(EntrySet) /\ Len(all) = Len(s) + Len(t)
               /\ u \in Seq(EntrySet)
               /\ Len(u) = IF k < Len(all) THEN k ELSE Len(all)
               /\ \A i \in 1..Len(u) : i \in 1..Len(all) /\ u[i] = all[i]
<1> DEFINE st == s \o t
           all == ByDistance(st)
           m == IF k < Len(all) THEN k ELSE Len(all)
           u == SubSeq(all, 1, m)
<1>1. st \in Seq(EntrySet) /\ Len(st) = Len(s) + Len(t)
  BY InARow
<1>2. MergeChunks(s, t, k) = u
  BY DEF MergeChunks
<1> HIDE DEF st
<1>3. all \in Seq(EntrySet) /\ Len(all) = Len(st)
  BY <1>1, ByDistanceReorders DEF Reorders
<1> HIDE DEF all
<1>4. m \in 0..Len(all) /\ m \in Nat /\ Len(all) \in Nat
  BY <1>3
<1> HIDE DEF m
<1>5. u \in Seq(EntrySet) /\ Len(u) = m /\ \A i \in 1..m : u[i] = all[i]
  BY <1>3, <1>4
<1>6. \A i \in 1..m : i \in 1..Len(all)
  BY <1>4
<1> HIDE DEF u
<1> QED BY <1>1, <1>2, <1>3, <1>5, <1>6 DEF st, all, m

(***************************************************************************)
(* They are entries.                                                       *)
(***************************************************************************)
LEMMA MergeType ==
    \A k \in Nat \ {0} : \A s, t \in Seq(EntrySet) : MergeChunks(s, t, k) \in Seq(EntrySet)
BY MergeIs

(***************************************************************************)
(* Two chunks, or what is left of them, are merged.                        *)
(***************************************************************************)
LEMMA MergeStep ==
    ASSUME NEW k \in Nat \ {0}, NEW m \in Nat, NEW n \in Nat,
           NEW A \in SUBSET EntrySet, NEW B \in SUBSET EntrySet, \A x \in A : \A y \in B : x.id # y.id,
           NEW s, Good(s, A, m, k), NEW t, Good(t, B, n, k)
    PROVE  LET u == MergeChunks(s, t, k)
           IN  Good(u, A \cup B, m + n, k) /\ Led(u, A \cup B)
<1> DEFINE st == s \o t
           all == ByDistance(st)
           u == MergeChunks(s, t, k)
<1>1. /\ s \in Seq(EntrySet) /\ Len(s) = (IF m <= k THEN m ELSE k) /\ ToSet(s) \subseteq A /\ Apart(s)
      /\ \A e \in A : \E x \in ToSet(s) : x.distance <= e.distance
      /\ t \in Seq(EntrySet) /\ Len(t) = (IF n <= k THEN n ELSE k) /\ ToSet(t) \subseteq B /\ Apart(t)
      /\ \A e \in B : \E x \in ToSet(t) : x.distance <= e.distance
  BY DEF Good
<1>2. /\ st \in Seq(EntrySet) /\ Len(st) = Len(s) + Len(t)
      /\ \A i \in 1..Len(s) : st[i] = s[i]
      /\ \A i \in 1..Len(t) : st[Len(s) + i] = t[i]
      /\ ToSet(st) = ToSet(s) \cup ToSet(t)
  <2>1. s \in Seq(EntrySet) /\ t \in Seq(EntrySet)
    BY <1>1
  <2> QED BY <2>1, InARow
<1>3. /\ all \in Seq(EntrySet) /\ Len(all) = Len(s) + Len(t)
      /\ u \in Seq(EntrySet) /\ Len(u) = IF k < Len(all) THEN k ELSE Len(all)
      /\ \A i \in 1..Len(u) : i \in 1..Len(all) /\ u[i] = all[i]
  <2>1. s \in Seq(EntrySet) /\ t \in Seq(EntrySet)
    BY <1>1
  <2> QED BY <2>1, MergeIs
<1> HIDE DEF st, u
<1>4. Apart(st)
  <2>1. Len(s) \in Nat /\ Len(t) \in Nat
    BY <1>1
  <2>2. \A i \in 1..Len(st) : i \in 1..Len(s) \/ (i - Len(s) \in 1..Len(t) /\ i = Len(s) + (i - Len(s)))
    BY <1>2, <2>1
  <2>3. \A i \in 1..Len(s) : s[i] \in A
    BY <1>1 DEF ToSet
  <2>4. \A i \in 1..Len(t) : t[i] \in B
    BY <1>1 DEF ToSet
  <2>5. \A i, j \in 1..Len(s) : s[i].id = s[j].id => i = j
    BY <1>1 DEF Apart
  <2>6. \A i, j \in 1..Len(t) : t[i].id = t[j].id => i = j
    BY <1>1 DEF Apart
  <2> SUFFICES ASSUME NEW i \in 1..Len(st), NEW j \in 1..Len(st), st[i].id = st[j].id PROVE i = j
    BY DEF Apart
  <2>7. CASE i \in 1..Len(s) /\ j \in 1..Len(s)
    BY <1>2, <2>5, <2>7
  <2>8. CASE i \notin 1..Len(s) /\ j \notin 1..Len(s)
    <3> DEFINE a == i - Len(s)
               b == j - Len(s)
    <3>1. a \in 1..Len(t) /\ b \in 1..Len(t) /\ i = Len(s) + a /\ j = Len(s) + b
      BY <2>2, <2>8
    <3> HIDE DEF a, b
    <3>2. t[a].id = t[b].id
      BY <1>2, <3>1
    <3> QED BY <2>6, <3>1, <3>2
  <2>9. CASE i \in 1..Len(s) /\ j \notin 1..Len(s)
    <3> DEFINE b == j - Len(s)
    <3>1. b \in 1..Len(t) /\ j = Len(s) + b
      BY <2>2, <2>9
    <3> HIDE DEF b
    <3>2. st[i] \in A /\ st[j] \in B
      BY <1>2, <2>3, <2>4, <2>9, <3>1
    <3> QED BY <3>2
  <2>10. CASE i \notin 1..Len(s) /\ j \in 1..Len(s)
    <3> DEFINE a == i - Len(s)
    <3>1. a \in 1..Len(t) /\ i = Len(s) + a
      BY <2>2, <2>10
    <3> HIDE DEF a
    <3>2. st[j] \in A /\ st[i] \in B
      BY <1>2, <2>3, <2>4, <2>10, <3>1
    <3> QED BY <3>2
  <2> QED BY <2>7, <2>8, <2>9, <2>10
<1>5. /\ ToSet(all) = ToSet(st) /\ Apart(all)
      /\ \A e \in ToSet(st) : Len(st) # 0 /\ all[1].distance <= e.distance
  BY <1>2, <1>4, ByDistanceReorders DEF Reorders
<1> HIDE DEF all
<1>6. Len(u) = IF m + n <= k THEN m + n ELSE k
  BY <1>1, <1>2, <1>3
<1>7. ToSet(u) \subseteq ToSet(all) /\ Apart(u)
  <2>1. \A i \in 1..Len(u) : u[i] \in ToSet(all)
    BY <1>3 DEF ToSet
  <2>2. \A x \in ToSet(u) : \E i \in 1..Len(u) : x = u[i]
    BY <1>3 DEF ToSet
  <2>3. Apart(u)
    BY <1>3, <1>5 DEF Apart
  <2> QED BY <2>1, <2>2, <2>3
<1>8. \A x \in EntrySet : x.distance \in Int
  BY DEF EntrySet
<1>9. ASSUME NEW e \in A \cup B PROVE Len(u) # 0 /\ u[1] \in ToSet(u) /\ u[1].distance <= e.distance
  <2>1. PICK x \in ToSet(st) : x.distance <= e.distance
    BY <1>1, <1>2
  <2>2. Len(st) # 0 /\ all[1].distance <= x.distance
    BY <1>5
  <2>3. Len(u) # 0 /\ Len(u) \in Nat /\ 1 \in 1..Len(u)
    BY <1>2, <1>3, <2>2
  <2>4. u[1] = all[1] /\ u[1] \in ToSet(u) /\ u[1] \in EntrySet
    BY <1>3, <2>3 DEF ToSet
  <2>5. x \in EntrySet
    <3>1. ToSet(st) \subseteq EntrySet
      BY <1>1, <1>2
    <3> QED BY <3>1
  <2> QED BY <1>8, <2>1, <2>2, <2>3, <2>4, <2>5
<1>10. ToSet(u) \subseteq A \cup B
  BY <1>1, <1>2, <1>5, <1>7
<1>11. Good(u, A \cup B, m + n, k)
  BY <1>3, <1>6, <1>7, <1>9, <1>10 DEF Good
<1>12. Led(u, A \cup B)
  BY <1>9 DEF Led
<1> QED BY <1>11, <1>12 DEF u

(***************************************************************************)
(* A chunk of a run: its entries from one place to another.                *)
(***************************************************************************)
LEMMA ChunkIs ==
    ASSUME NEW run \in Seq(EntrySet), NEW a \in 1..Len(run), NEW b \in a..Len(run)
    PROVE  LET c == SubSeq(run, a, b)
           IN  /\ c \in Seq(EntrySet) /\ Len(c) = b - a + 1 /\ ToSet(c) = {run[j] : j \in a..b}
               /\ Apart(run) => Apart(c)
<1> DEFINE c == SubSeq(run, a, b)
           m == b - a + 1
<1>1. /\ Len(run) \in Nat /\ a \in Nat \ {0} /\ b \in Nat /\ a <= b /\ b <= Len(run) /\ m \in Nat
      /\ \A j \in a..b : j \in 1..Len(run)
  OBVIOUS
<1>2. /\ c \in Seq(EntrySet) /\ Len(c) = m /\ DOMAIN c = 1..m
      /\ \A i \in 1..m : c[i] = run[a + i - 1]
  BY <1>1
<1> HIDE DEF c
<1>3. \A i \in 1..m : a + i - 1 \in a..b
  BY <1>1
<1>4. \A j \in a..b : j - a + 1 \in 1..m /\ a + (j - a + 1) - 1 = j
  BY <1>1
<1>5. ToSet(c) = {run[j] : j \in a..b}
  <2>1. ToSet(c) = {c[i] : i \in 1..m}
    BY <1>2 DEF ToSet
  <2>2. \A i \in 1..m : c[i] \in {run[j] : j \in a..b}
    BY <1>2, <1>3
  <2>3. \A j \in a..b : run[j] = c[j - a + 1]
    BY <1>2, <1>4
  <2>4. \A j \in a..b : run[j] \in {c[i] : i \in 1..m}
    BY <1>4, <2>3
  <2> HIDE DEF m
  <2> QED BY <2>1, <2>2, <2>4
<1>6. ASSUME Apart(run) PROVE Apart(c)
  <2> SUFFICES ASSUME NEW i \in 1..m, NEW j \in 1..m, c[i].id = c[j].id PROVE i = j
    BY <1>2 DEF Apart
  <2>1. a + i - 1 \in 1..Len(run) /\ a + j - 1 \in 1..Len(run)
    BY <1>1, <1>3
  <2>2. run[a + i - 1].id = run[a + j - 1].id
    BY <1>2
  <2>3. a + i - 1 = a + j - 1
    BY <1>6, <2>1, <2>2 DEF Apart
  <2> QED BY <1>1, <2>3
<1> QED BY <1>2, <1>5, <1>6 DEF c

(***************************************************************************)
(* A run is cut into chunks that follow each other to its end.             *)
(***************************************************************************)
Cut(ends, run) ==
    /\ ends \in Seq(1..Len(run)) /\ Len(ends) # 0 /\ ends[Len(ends)] = Len(run)
    /\ Increasing(ends)

(***************************************************************************)
(* The entries between two cuts.                                           *)
(***************************************************************************)
ChunkOf(run, ends, i) == SubSeq(run, IF i = 1 THEN 1 ELSE ends[i - 1] + 1, ends[i])

(***************************************************************************)
(* Those are the chunks.                                                   *)
(***************************************************************************)
LEMMA ChunksAre ==
    ASSUME NEW run \in Seq(EntrySet), run # <<>>, NEW cuts \in SUBSET (1..(Len(run) - 1))
    PROVE  LET ends == Ascending(cuts \cup {Len(run)})
           IN  Cut(ends, run) /\ Chunks(run, cuts) = [i \in 1..Len(ends) |-> ChunkOf(run, ends, i)]
<1> DEFINE n == Len(run)
           S == cuts \cup {n}
           ends == Ascending(S)
<1>1. n \in Nat \ {0} /\ cuts \in SUBSET (1..(n - 1))
  OBVIOUS
<1>2. Chunks(run, cuts) = [i \in DOMAIN ends |-> ChunkOf(run, ends, i)]
  BY DEF Chunks, ChunkOf
<1> HIDE DEF n
<1>3. S \in SUBSET (1..n) /\ n \in S /\ S \in SUBSET Int
  BY <1>1
<1>4. IsFiniteSet(S)
  <2>1. IsFiniteSet(1..n)
    BY <1>1, FS_Interval
  <2> HIDE DEF S
  <2> QED BY <1>3, <2>1, FS_Subset
<1> HIDE DEF S
<1>5. ends \in Seq(Int) /\ ToSet(ends) = S /\ Increasing(ends)
  BY <1>3, <1>4, AscendingIs
<1> HIDE DEF ends
<1> DEFINE m == Len(ends)
<1>6. m \in Nat /\ DOMAIN ends = 1..m /\ \A i \in 1..m : ends[i] \in S
  <2>1. m \in Nat /\ DOMAIN ends = 1..m
    BY <1>5
  <2> QED BY <1>5, <2>1 DEF ToSet
<1>7. PICK i \in 1..m : ends[i] = n
  BY <1>3, <1>5, <1>6 DEF ToSet
<1>12. \A a, b \in 1..m : a < b => ends[a] < ends[b]
  BY <1>5 DEF Increasing
<1> HIDE DEF m
<1>8. m # 0 /\ m \in 1..m
  BY <1>6, <1>7
<1>9. i = m
  <2>1. ends[m] \in 1..n
    BY <1>3, <1>6, <1>8
  <2>2. i < m => ends[i] < ends[m]
    BY <1>8, <1>12
  <2>3. ~(i < m)
    BY <1>1, <1>7, <2>1, <2>2
  <2> QED BY <1>6, <2>3
<1>10. ends \in Seq(1..n)
  <2> DEFINE N == 1..n
  <2>1. ends \in [1..m -> N]
    <3>1. \A j \in 1..m : ends[j] \in 1..n
      BY <1>3, <1>6
    <3>2. ends = [j \in 1..m |-> ends[j]]
      BY <1>5, <1>6
    <3> QED BY <3>1, <3>2
  <2> HIDE DEF N
  <2>2. ends \in Seq(N)
    BY <1>6, <2>1
  <2> QED BY <2>2 DEF N
<1>11. Cut(ends, run)
  BY <1>5, <1>7, <1>8, <1>9, <1>10 DEF Cut, n, m
<1> QED BY <1>2, <1>6, <1>11 DEF ends, S, n, m

(***************************************************************************)
(* What is left of a run after each chunk merged.                          *)
(***************************************************************************)
MergeSteps(s, most) ==
    {h \in [0..Len(s) -> Seq(EntrySet)] :
        h[0] = <<>> /\ \A i \in 1..Len(s) : h[i] = MergeChunks(h[i - 1], KeepAll(s[i], most), most)}

(***************************************************************************)
(* They are entries.                                                       *)
(***************************************************************************)
LEMMA MergeKeptType ==
    \A most \in Nat \ {0} : \A t \in Seq(EntrySet) : \A c \in Seq(EntrySet) :
        MergeChunks(t, KeepAll(c, most), most) \in Seq(EntrySet)
<1> SUFFICES ASSUME NEW most \in Nat \ {0}, NEW t \in Seq(EntrySet), NEW c \in Seq(EntrySet)
             PROVE  MergeChunks(t, KeepAll(c, most), most) \in Seq(EntrySet)
  OBVIOUS
<1>1. PICK h \in KeepSteps(c, most) : KeepAll(c, most) = h[Len(c)]
  BY KeepAllIs
<1>2. h \in [0..Len(c) -> Seq(EntrySet)] /\ Len(c) \in 0..Len(c)
  BY <1>1 DEF KeepSteps
<1>3. KeepAll(c, most) \in Seq(EntrySet)
  BY <1>1, <1>2
<1> QED BY <1>3, MergeType

(***************************************************************************)
(* What is left of all chunks.                                             *)
(***************************************************************************)
MergeAll(s, most) == FoldLeft(LAMBDA best, chunk : MergeChunks(best, KeepAll(chunk, most), most), <<>>, s)

(***************************************************************************)
(* The chunks are merged one after the other.                              *)
(***************************************************************************)
LEMMA MergeAllIs ==
    ASSUME NEW most \in Nat \ {0}, NEW s \in Seq(Seq(EntrySet))
    PROVE  \E h \in MergeSteps(s, most) : MergeAll(s, most) = h[Len(s)]
<1> DEFINE n == Len(s)
           T == Seq(EntrySet)
           D == SUBSET (1..n)
           g == [i \in 1..n |-> [t \in T |-> MergeChunks(t, KeepAll(s[i], most), most)]]
           IsFold(f) == f = [S \in D |-> IF S = {} THEN <<>> ELSE MergeChunks(f[S \ {Max(S)}], KeepAll(s[Max(S)], most), most)]
           iter == CHOOSE f : IsFold(f)
<1>1. n \in Nat /\ DOMAIN s = 1..n /\ (\A i \in 1..n : s[i] \in Seq(EntrySet)) /\ <<>> \in T
  <2>1. <<>> \in T
    OBVIOUS
  <2> QED BY <2>1
<1>2. \A t \in T : \A i \in 1..n : MergeChunks(t, KeepAll(s[i], most), most) \in T
  BY <1>1, MergeKeptType
<1>3. g \in [1..n -> [T -> T]]
  <2> HIDE DEF T
  <2> QED BY <1>2
<1> HIDE DEF n, T
<1>4. \A S \in D : S # {} => Max(S) \in 1..n
  BY <1>1, GreatestOf
<1>5. \E f : IsFold(f)
  <2>1. PICK k \in FoldsOf(T, <<>>, n, g) : TRUE
    <3>1. n \in Nat /\ <<>> \in T
      BY <1>1
    <3> HIDE DEF g
    <3> QED BY <1>3, <3>1, FoldExists
  <2>2. k \in [D -> T] /\ \A S \in D : k[S] = IF S = {} THEN <<>> ELSE g[Max(S)][k[S \ {Max(S)}]]
    <3> HIDE DEF g
    <3> QED BY <2>1 DEF FoldsOf
  <2>3. \A S \in D : k[S] = IF S = {} THEN <<>> ELSE MergeChunks(k[S \ {Max(S)}], KeepAll(s[Max(S)], most), most)
    <3> SUFFICES ASSUME NEW S \in D, S # {} PROVE k[S] = MergeChunks(k[S \ {Max(S)}], KeepAll(s[Max(S)], most), most)
      BY <2>2
    <3>1. Max(S) \in 1..n /\ k[S \ {Max(S)}] \in T
      BY <1>4, <2>2
    <3> QED BY <2>2, <3>1
  <2>4. IsFold(k)
    <3> HIDE DEF D, g
    <3> QED BY <2>2, <2>3
  <2> QED BY <2>4
<1>6. IsFold(iter)
  <2> HIDE DEF IsFold
  <2> QED BY <1>5
<1>7. MergeAll(s, most) = iter[1..n]
  <2> HIDE DEF g
  <2> QED BY <1>1 DEF MergeAll, FoldLeft, MapThenFoldSet
<1> HIDE DEF iter
<1>8. iter[{}] = <<>>
  BY <1>6
<1>9. Folds(iter, T, <<>>, n, g)
  <2>1. \A S \in SUBSET (1..n) :
            S # {} /\ iter[S \ {Max(S)}] \in T => iter[S] = g[Max(S)][iter[S \ {Max(S)}]]
    BY <1>4, <1>6
  <2> HIDE DEF g, IsFold
  <2> QED BY <1>8, <2>1 DEF Folds
<1>10. PICK h \in StepsOf(T, <<>>, n, g) : h[n] = iter[1..n]
  <2> HIDE DEF g, IsFold
  <2>1. StepsTo(T, <<>>, n, g, iter[1..n]) # {}
    BY <1>1, <1>3, <1>9, FoldTaken
  <2>2. PICK k \in StepsTo(T, <<>>, n, g, iter[1..n]) : TRUE
    BY <2>1
  <2>3. k \in StepsOf(T, <<>>, n, g) /\ k[n] = iter[1..n]
    BY <2>2 DEF StepsTo
  <2> QED BY <2>3
<1>11. h \in [0..n -> T] /\ h[0] = <<>> /\ \A i \in 1..n : h[i] = g[i][h[i - 1]]
  <2> HIDE DEF g
  <2> QED BY <1>10 DEF StepsOf
<1>12. \A i \in 1..n : h[i] = MergeChunks(h[i - 1], KeepAll(s[i], most), most)
  <2>1. \A i \in 1..n : h[i - 1] \in T
    <3> SUFFICES ASSUME NEW i \in 1..n PROVE h[i - 1] \in T
      OBVIOUS
    <3>1. i - 1 \in 0..n
      BY <1>1
    <3> HIDE DEF g
    <3> QED BY <1>11, <3>1
  <2>2. \A i \in 1..n : \A t \in T : g[i][t] = MergeChunks(t, KeepAll(s[i], most), most)
    OBVIOUS
  <2> HIDE DEF g
  <2> QED BY <1>11, <2>1, <2>2
<1>13. h \in MergeSteps(s, most)
  BY <1>11, <1>12 DEF MergeSteps, n, T
<1> QED BY <1>7, <1>10, <1>13 DEF n

(***************************************************************************)
(* What may be left of a run: as many of its entries as are asked for, the *)
(* nearest one first, however the run is cut.                              *)
(***************************************************************************)
LEMMA RankingsGood ==
    ASSUME NEW k \in Nat \ {0}, NEW run \in Seq(EntrySet), run # <<>>, Apart(run),
           NEW best \in Rankings(run, k)
    PROVE  Good(best, ToSet(run), Len(run), k) /\ Led(best, ToSet(run))
<1> DEFINE n == Len(run)
<1>1. PICK cuts \in SUBSET (1..(n - 1)) : best = MergeAll(Chunks(run, cuts), k)
  BY DEF Rankings, MergeAll
<1> DEFINE ends == Ascending(cuts \cup {Len(run)})
           chunks == Chunks(run, cuts)
           m == Len(ends)
<1>2. Cut(ends, run) /\ chunks = [i \in 1..m |-> ChunkOf(run, ends, i)]
  BY <1>1, ChunksAre
<1> HIDE DEF ends, chunks
<1>3. /\ n \in Nat \ {0} /\ DOMAIN run = 1..n /\ \A i \in 1..n : run[i] \in EntrySet
      /\ \A i, j \in 1..n : run[i].id = run[j].id => i = j
  BY DEF Apart
<1> HIDE DEF n
<1>4. /\ ends \in Seq(1..n) /\ m \in Nat /\ m # 0 /\ ends[m] = n
      /\ \A i \in 1..m : ends[i] \in 1..n
      /\ \A i, j \in 1..m : i < j => ends[i] < ends[j]
  <2>1. ends \in Seq(1..n) /\ m # 0 /\ ends[m] = n /\ Increasing(ends)
    BY <1>2 DEF Cut, n
  <2>2. \A i, j \in 1..m : i < j => ends[i] < ends[j]
    BY <2>1 DEF Increasing
  <2> DEFINE N == 1..n
  <2>3. ends \in Seq(N)
    BY <2>1
  <2> HIDE DEF N
  <2>4. m \in Nat /\ \A i \in 1..m : ends[i] \in N
    BY <2>3
  <2> QED BY <2>1, <2>2, <2>4 DEF N
<1> HIDE DEF m
<1> DEFINE upto(i) == IF i = 0 THEN 0 ELSE ends[i]
           given(i) == {run[j] : j \in 1..upto(i)}
           part(i) == {run[j] : j \in (upto(i - 1) + 1)..ends[i]}
<1>5. ASSUME NEW i \in 1..m
      PROVE  /\ upto(i - 1) \in Nat /\ upto(i) \in Nat /\ upto(i) <= n /\ upto(i) = ends[i]
             /\ upto(i - 1) < ends[i]
             /\ chunks[i] = SubSeq(run, upto(i - 1) + 1, ends[i])
  <2>1. i - 1 = 0 \/ (i - 1 \in 1..m /\ i - 1 < i)
    BY <1>4
  <2>2. i # 0 /\ (i = 1 <=> i - 1 = 0)
    BY <1>4
  <2>3. upto(i - 1) \in Nat /\ upto(i - 1) < ends[i]
    BY <1>3, <1>4, <2>1
  <2>4. (IF i = 1 THEN 1 ELSE ends[i - 1] + 1) = upto(i - 1) + 1
    BY <2>2
  <2>5. chunks[i] = SubSeq(run, upto(i - 1) + 1, ends[i])
    BY <1>2, <2>4 DEF ChunkOf
  <2> QED BY <1>3, <1>4, <2>2, <2>3, <2>5
<1> HIDE DEF upto
<1>6. ASSUME NEW i \in 1..m
      PROVE  /\ chunks[i] \in Seq(EntrySet) /\ Len(chunks[i]) = ends[i] - upto(i - 1)
             /\ ToSet(chunks[i]) = part(i) /\ Apart(chunks[i])
  <2> DEFINE a == upto(i - 1) + 1
             b == ends[i]
  <2>1. a \in 1..Len(run) /\ b \in a..Len(run) /\ chunks[i] = SubSeq(run, a, b) /\ b - a + 1 = b - upto(i - 1)
    <3>1. a \in 1..n /\ b \in a..n /\ b - a + 1 = b - upto(i - 1)
      <4> DEFINE w == upto(i - 1)
      <4>1. w \in Nat /\ b \in 1..n /\ w < b /\ n \in Nat /\ a = w + 1
        BY <1>3, <1>4, <1>5
      <4> HIDE DEF w, a, b
      <4>2. a \in 1..n /\ b \in a..n /\ b - a + 1 = b - w
        BY <4>1
      <4> QED BY <4>2 DEF w
    <3>2. chunks[i] = SubSeq(run, a, b)
      BY <1>5
    <3> HIDE DEF a, b
    <3> QED BY <3>1, <3>2 DEF n
  <2> HIDE DEF a, b
  <2>2. LET c == SubSeq(run, a, b)
        IN  /\ c \in Seq(EntrySet) /\ Len(c) = b - a + 1 /\ ToSet(c) = {run[j] : j \in a..b}
            /\ Apart(run) => Apart(c)
    BY <2>1, ChunkIs
  <2> QED BY <2>1, <2>2 DEF a, b
<1>7. chunks \in Seq(Seq(EntrySet)) /\ Len(chunks) = m
  <2>1. chunks \in [1..m -> Seq(EntrySet)]
    BY <1>2, <1>6
  <2> QED BY <1>4, <2>1
<1>8. PICK h \in MergeSteps(chunks, k) : MergeAll(chunks, k) = h[m]
  BY <1>7, MergeAllIs
<1>9. /\ h \in [0..m -> Seq(EntrySet)] /\ h[0] = <<>>
      /\ \A i \in 1..m : h[i] = MergeChunks(h[i - 1], KeepAll(chunks[i], k), k)
  BY <1>7, <1>8 DEF MergeSteps
<1> DEFINE P == {i \in 0..m : Good(h[i], given(i), upto(i), k) /\ (i # 0 => Led(h[i], given(i)))}
<1>10. 0 \in P
  <2>1. <<>> \in Seq(EntrySet) /\ Len(<<>>) = 0 /\ ToSet(<<>>) = {} /\ Apart(<<>>)
    BY DEF ToSet, Apart
  <2>2. upto(0) = 0 /\ given(0) = {} /\ 0 \in 0..m /\ (IF 0 <= k THEN 0 ELSE k) = 0
    BY <1>4 DEF upto
  <2>3. Good(<<>>, {}, 0, k)
    BY <2>1, <2>2 DEF Good
  <2> QED BY <1>9, <2>2, <2>3
<1>11. ASSUME NEW i \in 1..m, i - 1 \in P PROVE i \in P
  <2> DEFINE A == given(i - 1)
             B == part(i)
             s == h[i - 1]
             c == chunks[i]
             t == KeepAll(c, k)
             a == upto(i - 1)
             b == ends[i] - upto(i - 1)
             e == ends[i]
  <2>1. i \in 0..m /\ i # 0
    BY <1>4
  <2>2. Good(s, A, a, k)
    BY <1>11
  <2>3. c \in Seq(EntrySet) /\ Len(c) = b /\ ToSet(c) = B /\ Apart(c)
    BY <1>6
  <2>4. h[i] = MergeChunks(s, t, k)
    BY <1>9
  <2>5. n \in Nat /\ a \in Nat /\ e \in Nat /\ a < e /\ e <= n /\ upto(i) = e /\ b \in Nat /\ a + b = e
    BY <1>3, <1>5
  <2>6. A = {run[j] : j \in 1..a} /\ B = {run[j] : j \in (a + 1)..e} /\ given(i) = {run[j] : j \in 1..e}
    BY <2>5
  <2> HIDE DEF A, B, s, c, given, part, a, b, e
  <2>7. Good(t, B, b, k)
    <3>1. Good(KeepAll(c, k), ToSet(c), Len(c), k)
      BY <2>3, KeepAllGood
    <3> QED BY <2>3, <3>1
  <2> HIDE DEF t
  <2>8. \A j : j \in 1..e <=> j \in 1..a \/ j \in (a + 1)..e
    BY <2>5
  <2>9. given(i) = A \cup B
    BY <2>6, <2>8
  <2>10. \A j \in 1..a : j \in 1..n
    BY <2>5
  <2>11. \A j \in (a + 1)..e : j \in 1..n /\ j \notin 1..a
    BY <2>5
  <2>12. A \in SUBSET EntrySet /\ B \in SUBSET EntrySet /\ \A x \in A : \A y \in B : x.id # y.id
    BY <1>3, <2>6, <2>10, <2>11
  <2>13. LET u == MergeChunks(s, t, k)
         IN  Good(u, A \cup B, a + b, k) /\ Led(u, A \cup B)
    BY <2>2, <2>5, <2>7, <2>12, MergeStep
  <2>14. Good(h[i], given(i), upto(i), k) /\ Led(h[i], given(i))
    BY <2>4, <2>5, <2>9, <2>13
  <2> QED BY <2>1, <2>14
<1>12. \A i \in 0..m : i \in P
  <2> HIDE DEF P
  <2> QED BY <1>4, <1>10, <1>11, Climb
<1>13. m \in P
  <2> HIDE DEF P
  <2> QED BY <1>4, <1>12
<1>14. given(m) = ToSet(run) /\ upto(m) = n
  BY <1>3, <1>4 DEF ToSet, upto
<1> HIDE DEF given
<1>15. Good(h[m], ToSet(run), n, k) /\ Led(h[m], ToSet(run))
  BY <1>4, <1>13, <1>14
<1>16. best = h[m]
  BY <1>1, <1>8 DEF chunks
<1> QED BY <1>15, <1>16 DEF n

-----------------------------------------------------------------------------
(***************************************************************************)
(* A list that is one run has no other.                                    *)
(***************************************************************************)
LEMMA OneRunIs ==
    ASSUME NEW n \in Nat, NEW s, DOMAIN s = 1..n, <<1, n>> \in Stretches(s)
    PROVE  Runs(s) = {<<1, n>>} /\ n # 0
<1>1. 1 \in 1..n /\ n \in 1..n /\ \A p \in 1..(n - 1) : s[p + 1] = s[p] + 1
  BY DEF Stretches
<1>2. n # 0
  BY <1>1
<1>3. \A i, j \in 1..n : i <= j => <<i, j>> \in Stretches(s)
  <2> SUFFICES ASSUME NEW i \in 1..n, NEW j \in 1..n, i <= j PROVE <<i, j>> \in Stretches(s)
    OBVIOUS
  <2>1. \A p \in i..(j - 1) : s[p + 1] = s[p] + 1
    BY <1>1
  <2> QED BY <2>1 DEF Stretches
<1>4. \A i, j : <<i, j>> \in Stretches(s) => i \in 1..n /\ j \in 1..n /\ i <= j
  BY DEF Stretches
<1>5. <<1 - 1, n>> \notin Stretches(s) /\ <<1, n + 1>> \notin Stretches(s)
  BY <1>4
<1>6. <<1, n>> \in Runs(s)
  BY <1>5 DEF Runs
<1>7. ASSUME NEW run \in Runs(s) PROVE run = <<1, n>>
  <2>1. PICK i, j \in 1..n : run = <<i, j>> /\ i <= j
    BY DEF Runs, Stretches
  <2>2. <<i - 1, j>> \notin Stretches(s) /\ <<i, j + 1>> \notin Stretches(s)
    BY <2>1 DEF Runs
  <2>3. i = 1
    <3>1. CASE i # 1
      <4>1. i - 1 \in 1..n /\ i - 1 <= j
        BY <2>1, <3>1
      <4> QED BY <1>3, <2>2, <4>1
    <3> QED BY <3>1
  <2>4. j = n
    <3>1. CASE j # n
      <4>1. j + 1 \in 1..n /\ i <= j + 1
        BY <2>1, <3>1
      <4> QED BY <1>3, <2>2, <4>1
    <3> QED BY <3>1
  <2> QED BY <2>1, <2>3, <2>4
<1> QED BY <1>2, <1>6, <1>7

(***************************************************************************)
(* Without repeats the ids of the hits stand where their indices do.       *)
(***************************************************************************)
LEMMA SingleIds ==
    ASSUME NEW S \in SUBSET Int, IsFiniteSet(S), NEW kv,
           \A i \in S : Repeats[vectors[i]][kv] = 1
    PROVE  Ids(S, kv) = Ascending(S)
<1> DEFINE n == Cardinality(S)
           a == Ascending(S)
           seqs == [p \in 1..n |-> <<a[p]>>]
           h == [m \in 0..n |-> [p \in 1..m |-> a[p]]]
<1>1. n \in Nat /\ a \in [1..n -> S] /\ a \in Seq(S) /\ Len(a) = n
  BY AscendingLists
<1>2. Ids(S, kv) = FlattenSeq([p \in 1..n |-> [j \in 1..Repeats[vectors[a[p]]][kv] |-> a[p]]])
  BY DEF Ids
<1> HIDE DEF n, a
<1>3. ASSUME NEW p \in 1..n
      PROVE  [j \in 1..Repeats[vectors[a[p]]][kv] |-> a[p]] = <<a[p]>>
  <2>1. Repeats[vectors[a[p]]][kv] = 1
    BY <1>1
  <2> QED BY <2>1
<1>4. [p \in 1..n |-> [j \in 1..Repeats[vectors[a[p]]][kv] |-> a[p]]] = seqs
  BY <1>3
<1>5. seqs \in Seq(Seq(S)) /\ Len(seqs) = n
  <2>1. \A p \in 1..n : <<a[p]>> \in Seq(S)
    BY <1>1
  <2>2. seqs \in [1..n -> Seq(S)]
    BY <2>1
  <2> QED BY <1>1, <2>2
<1>6. h \in FlattensOf(S, seqs)
  <2>1. h \in [0..n -> Seq(S)]
    <3>1. ASSUME NEW m \in 0..n PROVE [p \in 1..m |-> a[p]] \in Seq(S)
      <4>1. m \in Nat /\ \A p \in 1..m : a[p] \in S
        BY <1>1
      <4>2. [p \in 1..m |-> a[p]] \in [1..m -> S]
        BY <4>1
      <4> QED BY <4>1, <4>2
    <3> QED BY <3>1
  <2>2. h[0] = <<>>
    <3>1. 0 \in 0..n
      BY <1>1
    <3> QED BY <3>1
  <2>3. ASSUME NEW m \in 1..n PROVE h[m] = h[m - 1] \o seqs[m]
    <3>1. m \in 0..n /\ m - 1 \in 0..n /\ m \in Nat /\ m - 1 \in Nat
      BY <1>1
    <3>2. h[m] = [p \in 1..m |-> a[p]] /\ h[m - 1] = [p \in 1..(m - 1) |-> a[p]] /\ seqs[m] = <<a[m]>>
      BY <3>1
    <3>3. h[m - 1] \in Seq(S) /\ Len(h[m - 1]) = m - 1 /\ a[m] \in S
      BY <1>1, <2>1, <3>1, <3>2
    <3>4. h[m] \in Seq(S) /\ Len(h[m]) = m
      BY <2>1, <3>1, <3>2
    <3>5. \A p \in 1..m : h[m][p] = (h[m - 1] \o <<a[m]>>)[p]
      <4> SUFFICES ASSUME NEW p \in 1..m PROVE h[m][p] = (h[m - 1] \o <<a[m]>>)[p]
        OBVIOUS
      <4>1. h[m][p] = a[p] /\ (p # m => h[m - 1][p] = a[p])
        BY <3>1, <3>2
      <4> DEFINE low == h[m - 1]
                 x == a[m]
      <4>2. low \in Seq(S) /\ Len(low) = m - 1 /\ x \in S
        BY <3>3
      <4> HIDE DEF low, x
      <4>3. (low \o <<x>>)[p] = IF p # m THEN low[p] ELSE x
        BY <3>1, <4>2
      <4> QED BY <4>1, <4>3 DEF low, x
    <3> DEFINE low == h[m - 1]
               high == h[m]
               x == a[m]
    <3>6. /\ low \in Seq(S) /\ Len(low) = m - 1 /\ x \in S /\ high \in Seq(S) /\ Len(high) = m
          /\ \A p \in 1..m : high[p] = (low \o <<x>>)[p]
      BY <3>3, <3>4, <3>5
    <3> HIDE DEF low, high, x
    <3>7. high = low \o <<x>>
      <4>1. low \o <<x>> \in Seq(S) /\ Len(low \o <<x>>) = m
        BY <3>1, <3>6
      <4> QED BY <3>1, <3>6, <4>1
    <3> QED BY <3>2, <3>7 DEF low, high, x
  <2> HIDE DEF h, seqs
  <2> QED BY <1>5, <2>1, <2>2, <2>3 DEF FlattensOf
<1>7. h[n] = a
  <2>1. n \in 0..n
    BY <1>1
  <2> QED BY <1>1, <2>1
<1> HIDE DEF h, seqs
<1>8. FlattenSeq(seqs) = h[n]
  BY <1>5, <1>6, FlattenIs
<1> QED BY <1>2, <1>4, <1>7, <1>8 DEF a

(***************************************************************************)
(* The entries that are ranked when the hits are one run, their ids in     *)
(* order: one for each hit, under an id of its own.                        *)
(***************************************************************************)
LEMMA EntriesAre ==
    ASSUME QueryAssumption, NEW S \in SUBSET (DOMAIN vectors), vectors \in Seq(Hash), IsFiniteSet(S),
           NEW order \in Orders(S)
    PROVE  LET a == Ascending(S)
               n == Cardinality(S)
               run == Entries(a, <<1, n>>, a, order)
           IN  /\ n \in Nat /\ run \in Seq(EntrySet) /\ Len(run) = n /\ Apart(run)
               /\ a \in [1..n -> S] /\ DOMAIN order = S
               /\ \A p, q \in 1..n : order[a[p]] = order[a[q]] => p = q
               /\ \A p, q \in 1..n : a[p] = a[q] => p = q
               /\ \A x \in S : \E p \in 1..n : a[p] = x
               /\ \A p \in 1..n : run[p].id = order[a[p]] /\ run[p].distance = Distance[vectors[a[p]]]
<1> DEFINE n == Cardinality(S)
           a == Ascending(S)
           run == Entries(a, <<1, n>>, a, order)
<1>1. S \in SUBSET Int /\ \A x \in S : vectors[x] \in Hash
  OBVIOUS
<1>2. /\ n \in Nat /\ a \in [1..n -> S]
      /\ \A x \in S : \E i \in 1..n : a[i] = x
      /\ \A i, j \in 1..n : i < j => a[i] < a[j]
  BY <1>1, AscendingLists
<1>3. order \in [S -> 1..n] /\ \A i, j \in S : order[i] = order[j] => i = j
  BY DEF Orders
<1>4. run = [p \in 1..n |-> Entry(order[a[p]], Distance[vectors[a[p]]])]
  <2>1. n \in Nat
    BY <1>2
  <2> HIDE DEF n, a
  <2>2. 1..(<<1, n>>[2] - <<1, n>>[1] + 1) = 1..n
    BY <2>1
  <2>3. \A p \in 1..n : <<1, n>>[1] + p - 1 = p
    BY <2>1
  <2> QED BY <2>2, <2>3 DEF Entries
<1> HIDE DEF n, a, run
<1>5. \A p, q \in 1..n : a[p] = a[q] => p = q
  <2> SUFFICES ASSUME NEW p \in 1..n, NEW q \in 1..n, a[p] = a[q] PROVE p = q
    OBVIOUS
  <2>1. p \in Int /\ q \in Int /\ a[p] \in Int /\ a[q] \in Int
    BY <1>1, <1>2
  <2>2. ~(p < q) /\ ~(q < p)
    BY <1>2, <2>1
  <2> QED BY <2>1, <2>2
<1>6. \A p \in 1..n : /\ run[p] = [id |-> order[a[p]], distance |-> Distance[vectors[a[p]]]]
                      /\ order[a[p]] \in Int /\ Distance[vectors[a[p]]] \in Int
  <2> SUFFICES ASSUME NEW p \in 1..n
               PROVE  /\ run[p] = [id |-> order[a[p]], distance |-> Distance[vectors[a[p]]]]
                      /\ order[a[p]] \in Int /\ Distance[vectors[a[p]]] \in Int
    OBVIOUS
  <2>1. a[p] \in S /\ vectors[a[p]] \in Hash
    BY <1>1, <1>2
  <2>2. order[a[p]] \in 1..n
    BY <1>3, <2>1
  <2>3. Distance[vectors[a[p]]] \in Nat
    BY <2>1, QueryAssumption
  <2>4. run[p] = Entry(order[a[p]], Distance[vectors[a[p]]])
    BY <1>4
  <2> QED BY <1>2, <2>2, <2>3, <2>4 DEF Entry
<1>7. \A p \in 1..n : /\ run[p] \in EntrySet /\ run[p].id = order[a[p]]
                      /\ run[p].distance = Distance[vectors[a[p]]]
  <2>1. \A x, y \in Int : LET e == [id |-> x, distance |-> y]
                         IN  e \in EntrySet /\ e.id = x /\ e.distance = y
    BY DEF EntrySet
  <2> SUFFICES ASSUME NEW p \in 1..n
               PROVE  /\ run[p] \in EntrySet /\ run[p].id = order[a[p]]
                      /\ run[p].distance = Distance[vectors[a[p]]]
    OBVIOUS
  <2> DEFINE x == order[a[p]]
             y == Distance[vectors[a[p]]]
  <2>2. x \in Int /\ y \in Int /\ run[p] = [id |-> x, distance |-> y]
    BY <1>6
  <2> HIDE DEF x, y
  <2>3. run[p] \in EntrySet /\ run[p].id = x /\ run[p].distance = y
    BY <2>1, <2>2
  <2> QED BY <2>3 DEF x, y
<1>8. run \in [1..n -> EntrySet]
  BY <1>4, <1>7
<1>9. run \in Seq(EntrySet) /\ Len(run) = n
  BY <1>2, <1>8
<1>10. \A p, q \in 1..n : order[a[p]] = order[a[q]] => p = q
  <2> SUFFICES ASSUME NEW p \in 1..n, NEW q \in 1..n, order[a[p]] = order[a[q]] PROVE p = q
    OBVIOUS
  <2>1. a[p] \in S /\ a[q] \in S
    BY <1>2
  <2> QED BY <1>3, <1>5, <2>1
<1>11. Apart(run)
  BY <1>7, <1>9, <1>10 DEF Apart
<1>12. DOMAIN order = S
  BY <1>3
<1> QED BY <1>2, <1>5, <1>7, <1>9, <1>10, <1>11, <1>12 DEF n, a, run

(***************************************************************************)
(* One of the vectors X is as near as any of S.                            *)
(***************************************************************************)
Nearest(X, S) == \E i \in X : \A j \in S : Distance[vectors[i]] <= Distance[vectors[j]]

(***************************************************************************)
(* The numbers up to m are m.                                              *)
(***************************************************************************)
LEMMA UpTo == \A m \in Nat : IsFiniteSet(1..m) /\ Cardinality(1..m) = m
BY FS_Interval

(***************************************************************************)
(* What is kept of hits that are one run: as many as are asked for, and    *)
(* the nearest of them.                                                    *)
(***************************************************************************)
LEMMA AnswerOfOneRun ==
    ASSUME QueryAssumption, NEW S \in SUBSET (DOMAIN vectors), vectors \in Seq(Hash), IsFiniteSet(S),
           <<1, Cardinality(S)>> \in Stretches(Ascending(S)),
           NEW k \in Nat \ {0}, k <= Cardinality(S),
           NEW X \in Answers(S, Ascending(S), Ascending(S), k)
    PROVE  X \subseteq S /\ Cardinality(X) = k /\ Nearest(X, S)
<1> DEFINE n == Cardinality(S)
           a == Ascending(S)
           runs == Runs(a)
           kept(order) == [r \in runs |->
               {Named(best, order) : best \in Rankings(Entries(a, r, a, order), k)}]
<1>0. S \in SUBSET Int
  OBVIOUS
<1>1. PICK order \in Orders(S) :
         \E pick \in [runs -> UNION {kept(order)[r] : r \in runs}] :
            /\ \A r \in runs : pick[r] \in kept(order)[r]
            /\ X = UNION {pick[r] : r \in runs}
  BY DEF Answers
<1>2. PICK pick \in [runs -> UNION {kept(order)[r] : r \in runs}] :
         /\ \A r \in runs : pick[r] \in kept(order)[r]
         /\ X = UNION {pick[r] : r \in runs}
  BY <1>1
<1>3. runs = {<<1, n>>} /\ n # 0
  <2>1. n \in Nat /\ DOMAIN a = 1..n
    BY <1>0, AscendingLists
  <2>2. <<1, n>> \in Stretches(a)
    OBVIOUS
  <2> HIDE DEF n, a
  <2> QED BY <2>1, <2>2, OneRunIs
<1> DEFINE run == Entries(a, <<1, n>>, a, order)
<1>4. PICK best \in Rankings(run, k) : pick[<<1, n>>] = Named(best, order)
  BY <1>2, <1>3
<1>5. X = Named(best, order)
  BY <1>2, <1>3, <1>4
<1>6. /\ n \in Nat /\ run \in Seq(EntrySet) /\ Len(run) = n /\ Apart(run)
      /\ a \in [1..n -> S] /\ DOMAIN order = S
      /\ \A p, q \in 1..n : order[a[p]] = order[a[q]] => p = q
      /\ \A p, q \in 1..n : a[p] = a[q] => p = q
      /\ \A x \in S : \E p \in 1..n : a[p] = x
      /\ \A p \in 1..n : run[p].id = order[a[p]] /\ run[p].distance = Distance[vectors[a[p]]]
  BY EntriesAre
<1> HIDE DEF n, a, run, runs, kept
<1>8. run # <<>>
  BY <1>3, <1>6
<1>9. Good(best, ToSet(run), n, k) /\ Led(best, ToSet(run))
  <2>1. Good(best, ToSet(run), Len(run), k) /\ Led(best, ToSet(run))
    BY <1>4, <1>6, <1>8, RankingsGood
  <2> QED BY <1>6, <2>1
<1>10. ToSet(run) = {run[p] : p \in 1..n}
  <2>1. DOMAIN run = 1..n
    BY <1>6
  <2> QED BY <2>1 DEF ToSet
<1>11. /\ best \in Seq(EntrySet) /\ Len(best) = k
       /\ ToSet(best) = {best[i] : i \in 1..k}
       /\ \A i \in 1..k : best[i] \in ToSet(run)
       /\ \A i, j \in 1..k : best[i].id = best[j].id => i = j
  <2>1. best \in Seq(EntrySet) /\ Len(best) = k
    BY <1>6, <1>9 DEF Good, n
  <2>0. DOMAIN best = 1..k
    BY <2>1
  <2>2. ToSet(best) = {best[i] : i \in 1..k}
    BY <2>0 DEF ToSet
  <2>3. ToSet(best) \subseteq ToSet(run) /\ Apart(best)
    BY <1>9 DEF Good
  <2> QED BY <2>1, <2>2, <2>3 DEF Apart
<1>12. \A i \in 1..k : \E p \in 1..n : best[i] = run[p] /\ best[i].id = order[a[p]]
  <2>1. \A p \in 1..n : run[p].id = order[a[p]]
    BY <1>6
  <2>2. \A i \in 1..k : \E p \in 1..n : best[i] = run[p]
    BY <1>10, <1>11
  <2> SUFFICES ASSUME NEW i \in 1..k
               PROVE  \E p \in 1..n : best[i] = run[p] /\ best[i].id = order[a[p]]
    OBVIOUS
  <2>3. PICK p \in 1..n : best[i] = run[p]
    BY <2>2
  <2>4. best[i].id = order[a[p]]
    BY <2>1, <2>3
  <2> QED BY <2>3, <2>4
<1> DEFINE at(i) == CHOOSE p \in 1..n : best[i] = run[p] /\ best[i].id = order[a[p]]
<1>13. \A i \in 1..k : at(i) \in 1..n /\ best[i] = run[at(i)] /\ best[i].id = order[a[at(i)]]
  BY <1>12
<1> HIDE DEF at
<1>15. X = {a[at(i)] : i \in 1..k}
  <2>1. DOMAIN best = 1..k
    BY <1>11
  <2>2. Named(best, order) = {x \in S : \E i \in 1..k : best[i].id = order[x]}
    BY <1>6, <2>1 DEF Named
  <2>3. \A x \in S : \A i \in 1..k : best[i].id = order[x] => x = a[at(i)]
    <3> SUFFICES ASSUME NEW x \in S, NEW i \in 1..k, best[i].id = order[x] PROVE x = a[at(i)]
      OBVIOUS
    <3>1. PICK p \in 1..n : a[p] = x
      BY <1>6
    <3>2. at(i) \in 1..n /\ order[a[at(i)]] = order[a[p]]
      BY <1>13, <3>1
    <3>3. at(i) = p
      BY <1>6, <3>2
    <3> QED BY <3>1, <3>3
  <2>4. \A i \in 1..k : a[at(i)] \in S /\ best[i].id = order[a[at(i)]]
    BY <1>6, <1>13
  <2> QED BY <1>5, <2>2, <2>3, <2>4
<1>16. Cardinality(X) = k
  <2> DEFINE f == [i \in 1..k |-> a[at(i)]]
             I == 1..k
  <2>1. \A i, j \in I : f[i] = f[j] => i = j
    <3> SUFFICES ASSUME NEW i \in I, NEW j \in I, f[i] = f[j] PROVE i = j
      OBVIOUS
    <3>1. a[at(i)] = a[at(j)]
      OBVIOUS
    <3>2. at(i) = at(j)
      BY <1>6, <1>13, <3>1
    <3>3. best[i] = run[at(i)] /\ best[j] = run[at(j)]
      BY <1>13
    <3>4. best[i].id = best[j].id
      BY <3>2, <3>3
    <3> QED BY <1>11, <3>4
  <2>2. IsFiniteSet(I) /\ Cardinality(I) = k
    BY UpTo
  <2>3. DOMAIN f = I /\ X = {f[i] : i \in I}
    BY <1>15
  <2> HIDE DEF f, I
  <2>4. Cardinality({f[i] : i \in I}) = Cardinality(I)
    BY <2>1, <2>2, <2>3, SameSize
  <2> QED BY <2>2, <2>3, <2>4
<1>17. X \subseteq S
  <2>1. \A p \in 1..n : a[p] \in S
    BY <1>6
  <2> QED BY <1>13, <1>15, <2>1
<1>18. Nearest(X, S)
  <2>1. 1 \in 1..k
    OBVIOUS
  <2>2. a[at(1)] \in X /\ best[1].distance = Distance[vectors[a[at(1)]]]
    <3>1. \A p \in 1..n : run[p].distance = Distance[vectors[a[p]]]
      BY <1>6
    <3> QED BY <1>13, <1>15, <2>1, <3>1
  <2>3. ASSUME NEW j \in S PROVE Distance[vectors[a[at(1)]]] <= Distance[vectors[j]]
    <3>1. PICK p \in 1..n : a[p] = j
      BY <1>6
    <3>2. run[p] \in ToSet(run) /\ run[p].distance = Distance[vectors[j]]
      BY <1>6, <1>10, <3>1
    <3>3. best[1].distance <= run[p].distance
      BY <1>9, <3>2 DEF Led
    <3> QED BY <2>2, <3>2, <3>3
  <2> QED BY <2>2, <2>3 DEF Nearest
<1> QED BY <1>16, <1>17, <1>18

(***************************************************************************)
(* Whatever is kept of the hits, it is hits: an id is that of one.         *)
(***************************************************************************)
LEMMA AnswersAreHits ==
    ASSUME NEW S, NEW s, NEW ids, NEW k, NEW X \in Answers(S, s, ids, k)
    PROVE  X \subseteq S
<1> DEFINE runs == Runs(s)
           kept(order) == [r \in runs |->
               {Named(best, order) : best \in Rankings(Entries(s, r, ids, order), k)}]
<1>1. PICK order \in Orders(S) :
         \E pick \in [runs -> UNION {kept(order)[r] : r \in runs}] :
            /\ \A r \in runs : pick[r] \in kept(order)[r]
            /\ X = UNION {pick[r] : r \in runs}
  BY DEF Answers
<1>2. DOMAIN order = S
  BY DEF Orders
<1>3. \A r \in runs : \A Y \in kept(order)[r] : Y \subseteq S
  BY <1>2 DEF Named
<1> HIDE DEF runs, kept
<1> QED BY <1>1, <1>3

(***************************************************************************)
(* The commit worker runs, or does not yet.                                *)
(***************************************************************************)
SpawnedOK == spawned \in BOOLEAN

(***************************************************************************)
(* Each step of queries is a step of WalCommit or a stutter: a first query *)
(* is a request that logs nothing.                                         *)
(***************************************************************************)
LEMMA QueryStepReads == SpawnedOK /\ [QNext]_allVars => [Next]_vars
<1> SUFFICES ASSUME spawned \in BOOLEAN, [QNext]_allVars PROVE [Next]_vars
  BY DEF SpawnedOK
<1>1. ASSUME NEW kv \in KV, NEW k \in TopK, OpenQuery(kv, k) PROVE [Next]_vars
  <2>1. CASE spawned
    BY <1>1, <2>1 DEF OpenQuery, vars
  <2>2. CASE ~spawned
    BY <1>1, <2>2 DEF OpenQuery, OtherRequest, Next
  <2> QED BY <2>1, <2>2
<1>2. CASE Evaluate
  BY <1>2 DEF Evaluate
<1>3. CASE Fetch
  BY <1>3 DEF Fetch
<1>4. ASSUME NEW i \in qWanted, ReadMetadata(i) PROVE [Next]_vars
  BY <1>4 DEF ReadMetadata
<1>5. CASE QueryDies
  BY <1>5 DEF QueryDies, Next
<1>6. CASE Others
  BY <1>6 DEF Others, Next
<1>7. CASE UNCHANGED allVars
  BY <1>7 DEF allVars
<1> QED BY <1>1, <1>2, <1>3, <1>4, <1>5, <1>6, <1>7 DEF QNext, QueryStep

(***************************************************************************)
(* The worker is started, or it is not.                                    *)
(***************************************************************************)
LEMMA SpawnedStep == SpawnedOK /\ [QNext]_allVars => SpawnedOK'
<1> SUFFICES ASSUME SpawnedOK, [QNext]_allVars PROVE SpawnedOK'
  OBVIOUS
<1> USE DEF SpawnedOK
<1>1. CASE [Next]_vars /\ spawned' # spawned
  BY <1>1 DEF Next, Receive, Log, SearchTimestamp, SplitTimestamps, LoadTimestamps, StoreTimestamps,
         LoadCommitList, StoreCommitList, Work, StartCommit, ReadRange, Collect,
         NothingToCommit, PushVectors, StoreMetadata, StorePostings, MarkFinished,
         Crash, OtherRequest, Tick, vars
<1> QED BY <1>1, QueryStepReads

(***************************************************************************)
(* Queries change nothing of the write path: with them, every behaviour is *)
(* one of WalCommit, and all that is proved of it holds.                   *)
(***************************************************************************)
THEOREM QueriesOnlyRead == QSpec => Spec
<1>1. QInit => Init /\ SpawnedOK
  BY DEF QInit, Init, SpawnedOK
<1> QED BY <1>1, SpawnedStep, QueryStepReads, PTL DEF QSpec, Spec

(***************************************************************************)
(* What an item says of its index is what vectors.bin says.                *)
(***************************************************************************)
ItemsAreVectors ==
    \A m \in metadata : m.index \in DOMAIN vectors /\ vectors[m.index] = m.commit

(***************************************************************************)
(* How far the query has come, and that it holds nothing the files do not. *)
(***************************************************************************)
QueryView ==
    /\ qpc \in QueryStages
    /\ qkv \in KV
    /\ qHits \subseteq postings[qkv]
    /\ qWanted \subseteq qAsked
    /\ qAsked \subseteq qHits
    /\ qFound \subseteq metadata
    /\ {m.index : m \in qFound} = qAsked \ qWanted
    /\ qpc \in {"evaluate", "fetch"} => qFound = {}
    /\ qpc = "answered" => qWanted = {}

(***************************************************************************)
(* Together they are inductive.                                            *)
(***************************************************************************)
QueryInv == ItemsAreVectors /\ QueryView

(***************************************************************************)
(* The worker stores an item only for a vector it pushed before.           *)
(***************************************************************************)
LEMMA ItemsStep ==
    ASSUME TypeOK, WorkerView, ItemsAreVectors, [Next]_vars
    PROVE  ItemsAreVectors'
<1>0. Grows
  BY StepGrows
<1>1. ASSUME NEW j \in metaLeft, StoreMetadata(j) PROVE ItemsAreVectors'
  <2>1. /\ j \in DOMAIN batch /\ wpc = "metadata" /\ vectors' = vectors
        /\ metadata' = metadata \cup {Item(base + j, batch[j])}
    BY <1>1 DEF StoreMetadata, TypeOK, WorkerOK
  <2>2. base + j \in DOMAIN vectors /\ vectors[base + j] = batch[j]
    BY <2>1 DEF WorkerView
  <2> QED BY <2>1, <2>2 DEF ItemsAreVectors, Item
<1>2. CASE UNCHANGED metadata
  BY <1>0, <1>2 DEF Grows, ItemsAreVectors
<1> QED BY <1>1, <1>2
        DEF Next, Receive, Log, SearchTimestamp, SplitTimestamps, LoadTimestamps, StoreTimestamps,
            LoadCommitList, StoreCommitList, Work, StartCommit, ReadRange, Collect,
            NothingToCommit, PushVectors, StorePostings, MarkFinished,
            Crash, OtherRequest, Tick, vars, disk

(***************************************************************************)
(* A query holds on to what it read while the files grow under it.         *)
(***************************************************************************)
LEMMA QueryStepHolds ==
    ASSUME IndexInv, QueryInv, [QNext]_allVars
    PROVE  QueryInv'
<1>0. /\ TypeOK /\ WorkerView /\ NoDanglingPosting /\ ItemsAreVectors /\ QueryView
      /\ SpawnedOK
  BY DEF IndexInv, QueryInv, TypeOK, WorkerOK, SpawnedOK
<1>1. [Next]_vars
  BY <1>0, QueryStepReads
<1>2. Grows
  BY <1>0, <1>1, StepGrows
<1>3. ItemsAreVectors'
  BY <1>0, <1>1, ItemsStep
<1> SUFFICES QueryView'
  BY <1>3 DEF QueryInv
<1>4. ASSUME NEW kv \in KV, NEW k \in TopK, OpenQuery(kv, k) PROVE QueryView'
  BY <1>4 DEF OpenQuery, QueryView, QueryStages
<1>5. CASE Evaluate
  <2>1. /\ UNCHANGED <<postings, metadata, qkv, qWanted, qAsked, qFound>>
        /\ qHits' = postings[qkv] /\ qpc' = "fetch" /\ qpc = "evaluate"
    BY <1>5 DEF Evaluate, vars, disk
  <2>2. qAsked \subseteq qHits' /\ qHits' \subseteq postings'[qkv']
    BY <1>0, <2>1 DEF QueryView
  <2> QED BY <1>0, <2>1, <2>2 DEF QueryView, QueryStages
<1>6. CASE Fetch
  <2>2. UNCHANGED <<postings, metadata, qkv, qHits, qFound>> /\ qpc = "fetch"
    BY <1>6 DEF Fetch, vars, disk
  <2> DEFINE ids == Ids(qHits, qkv)
             indices == Indices(qHits, qkv, qGrown)
  <2>3. CASE /\ qAsked' \in Answers(qHits, indices, ids, Lesser(qTop, Len(ids)))
             /\ qWanted' = qAsked'
             /\ qpc' = IF qHits = {} THEN "answered" ELSE "metadata"
    <3>1. qAsked' \subseteq qHits
      BY <2>3, AnswersAreHits
    <3> QED BY <1>0, <2>2, <2>3, <3>1 DEF QueryView, QueryStages
  <2>4. CASE qpc' = "failed" /\ UNCHANGED <<qWanted, qAsked>>
    BY <1>0, <2>2, <2>4 DEF QueryView, QueryStages
  <2> QED BY <1>6, <2>3, <2>4 DEF Fetch
<1>7. ASSUME NEW i \in qWanted, ReadMetadata(i) PROVE QueryView'
  <2>0. /\ UNCHANGED <<postings, metadata, qkv, qHits, qAsked>> /\ qpc = "metadata"
        /\ qWanted' = qWanted \ {i}
        /\ qFound' = qFound \cup {m \in metadata : m.index = i}
        /\ qpc' = IF qWanted = {i} THEN "answered" ELSE qpc
    BY <1>7 DEF ReadMetadata, vars, disk
  <2>1. qkv \in KV /\ i \in postings[qkv] /\ i \in qAsked
    BY <1>0 DEF QueryView
  <2>2. Item(i, vectors[i]) \in metadata
    BY <1>0, <2>1 DEF NoDanglingPosting
  <2>3. {m.index : m \in {n \in metadata : n.index = i}} = {i}
    BY <2>2 DEF Item
  <2>4. {m.index : m \in qFound'} = {m.index : m \in qFound} \cup {i}
    BY <2>0, <2>3
  <2>5. {m.index : m \in qFound'} = qAsked \ qWanted'
    BY <1>0, <2>0, <2>1, <2>4 DEF QueryView
  <2> QED BY <1>0, <2>0, <2>5 DEF QueryView, QueryStages
<1>8. CASE QueryDies
  BY <1>0, <1>8 DEF QueryDies, QueryView, QueryStages
<1>9. CASE UNCHANGED qvars
  <2>1. UNCHANGED <<qpc, qkv, qHits, qWanted, qAsked, qFound>>
    BY <1>9 DEF qvars
  <2>2. postings[qkv] \subseteq postings'[qkv] /\ metadata \subseteq metadata'
    BY <1>0, <1>2 DEF Grows, QueryView
  <2> QED BY <1>0, <2>1, <2>2 DEF QueryView
<1> QED BY <1>4, <1>5, <1>6, <1>7, <1>8, <1>9 DEF QNext, QueryStep, allVars

(***************************************************************************)
(* The query's view is true in every state, whatever it runs beside.       *)
(***************************************************************************)
LEMMA QueryInvariant == QSpec => [](IndexInv /\ QueryInv)
<1>1. QInit => QueryInv
  BY DEF QInit, Init, QueryInv, ItemsAreVectors, QueryView, QueryStages
<1>2. IndexInv /\ QueryInv /\ [QNext]_allVars => QueryInv'
  BY QueryStepHolds
<1> QED BY <1>1, <1>2, QueriesOnlyRead, IndexInvariant, PTL DEF QSpec

(***************************************************************************)
(* No id is left out for want of its metadata.                             *)
(***************************************************************************)
THEOREM MetadataIsThere == QSpec => []NoMetadataMissing
<1>1. IndexInv /\ QueryInv => NoMetadataMissing
  BY DEF QueryInv, QueryView, NoMetadataMissing
<1> QED BY <1>1, QueryInvariant, PTL

(***************************************************************************)
(* Every vector answered has the pair asked for.                           *)
(***************************************************************************)
THEOREM AnswersHavePair == QSpec => []AnswerHasPair
<1>1. IndexInv /\ QueryInv => AnswerHasPair
  <2> SUFFICES ASSUME IndexInv, QueryInv, NEW m \in qFound PROVE qkv \in KVsOf[m.commit]
    BY DEF AnswerHasPair
  <2>1. m \in metadata /\ m.index \in postings[qkv] /\ qkv \in KV
    BY DEF QueryInv, QueryView
  <2>2. qkv \in KVsOf[vectors[m.index]]
    BY <2>1 DEF IndexInv, NoDanglingPosting
  <2>3. vectors[m.index] = m.commit
    BY <2>1 DEF QueryInv, ItemsAreVectors
  <2> QED BY <2>2, <2>3
<1> QED BY <1>1, QueryInvariant, PTL

(***************************************************************************)
(* What the query makes of its hits, and that it found what was there when *)
(* it arrived.                                                             *)
(***************************************************************************)
QueryRanks ==
    /\ qTop \in Nat
    /\ qpc = "evaluate" => qBefore \subseteq postings[qkv]
    /\ qpc \in {"fetch", "metadata", "answered"} => qBefore \subseteq qHits
    /\ qpc \in {"metadata", "answered"} /\ OneRun =>
          /\ Cardinality(qAsked) = Lesser(qTop, Cardinality(qHits))
          /\ Nearest(qAsked, qHits)

(***************************************************************************)
(* The hits of a query are finitely many vectors.                          *)
(***************************************************************************)
LEMMA HitsFinite ==
    IndexInv /\ QueryInv => /\ vectors \in Seq(Hash) /\ qHits \in SUBSET (DOMAIN vectors)
                            /\ IsFiniteSet(qHits) /\ Cardinality(qHits) \in Nat
<1> SUFFICES ASSUME IndexInv, QueryInv
             PROVE  /\ vectors \in Seq(Hash) /\ qHits \in SUBSET (DOMAIN vectors)
                    /\ IsFiniteSet(qHits) /\ Cardinality(qHits) \in Nat
  OBVIOUS
<1>1. /\ vectors \in Seq(Hash) /\ qkv \in KV /\ qHits \subseteq postings[qkv]
      /\ \A i \in postings[qkv] : i \in DOMAIN vectors
  BY DEF IndexInv, QueryInv, QueryView, NoDanglingPosting, TypeOK, DiskOK
<1>2. DOMAIN vectors = 1..Len(vectors) /\ Len(vectors) \in Nat
  BY <1>1
<1>3. IsFiniteSet(1..Len(vectors))
  BY <1>2, FS_Interval
<1>4. IsFiniteSet(qHits)
  BY <1>1, <1>2, <1>3, FS_Subset
<1> QED BY <1>1, <1>4, FS_CardinalityType

(***************************************************************************)
(* The files grow under a query, and what it found nearest stays so.       *)
(***************************************************************************)
LEMMA QueryRanksStep ==
    ASSUME IndexInv, QueryInv, QueryRanks, [QNext]_allVars
    PROVE  QueryRanks'
<1>0. TypeOK /\ WorkerView /\ QueryView /\ SpawnedOK
  BY DEF IndexInv, QueryInv, TypeOK, WorkerOK, SpawnedOK
<1>1. Grows
  <2>1. [Next]_vars
    BY <1>0, QueryStepReads
  <2> QED BY <1>0, <2>1, StepGrows
<1>2. /\ vectors \in Seq(Hash) /\ qHits \in SUBSET (DOMAIN vectors)
      /\ IsFiniteSet(qHits) /\ Cardinality(qHits) \in Nat
  BY HitsFinite
<1>3. qkv \in KV /\ qAsked \subseteq qHits /\ qHits \subseteq postings[qkv]
  BY <1>0 DEF QueryView
<1>4. /\ qTop \in Nat
      /\ qpc = "evaluate" => qBefore \subseteq postings[qkv]
      /\ qpc \in {"fetch", "metadata", "answered"} => qBefore \subseteq qHits
      /\ qpc \in {"metadata", "answered"} /\ OneRun =>
            /\ Cardinality(qAsked) = Lesser(qTop, Cardinality(qHits))
            /\ Nearest(qAsked, qHits)
  BY DEF QueryRanks
<1>5. ASSUME NEW kv \in KV, NEW k \in TopK, OpenQuery(kv, k) PROVE QueryRanks'
  <2>1. /\ qpc' = "evaluate" /\ qTop' = k /\ qkv' = kv /\ qBefore' = postings[kv]
        /\ postings' = postings /\ k \in Nat
    BY <1>5, QueryAssumption DEF OpenQuery, disk
  <2> QED BY <2>1 DEF QueryRanks
<1>6. CASE Evaluate
  <2>1. /\ qpc = "evaluate" /\ qpc' = "fetch" /\ qHits' = postings[qkv]
        /\ UNCHANGED <<qTop, qBefore>>
    BY <1>6 DEF Evaluate
  <2> QED BY <1>4, <2>1 DEF QueryRanks
<1>7. CASE Fetch
  <2>1. /\ qpc = "fetch" /\ UNCHANGED <<vectors, qkv, qTop, qHits, qBefore>>
    BY <1>7 DEF Fetch, vars, disk
  <2> DEFINE ids == Ids(qHits, qkv)
             indices == Indices(qHits, qkv, qGrown)
  <2>2. CASE /\ \A i \in qHits : i <= qLen /\ qTop > 0
             /\ qAsked' \in Answers(qHits, indices, ids, Lesser(qTop, Len(ids)))
             /\ qpc' = IF qHits = {} THEN "answered" ELSE "metadata"
    <3> DEFINE n == Cardinality(qHits)
               k == Lesser(qTop, n)
    <3>1. qBefore' \subseteq qHits'
      BY <1>4, <2>1
    <3>2. ASSUME OneRun
          PROVE  Cardinality(qAsked') = k /\ Nearest(qAsked', qHits)
      <4>0. qHits \in SUBSET Int
        BY <1>2
      <4>1. <<1, n>> \in Stretches(Ascending(qHits)) /\ \A i \in qHits : Repeats[vectors[i]][qkv] = 1
        BY <3>2 DEF OneRun, Single
      <4>2. ids = Ascending(qHits) /\ Len(ids) = n /\ indices = Ascending(qHits)
        <5>1. Ids(qHits, qkv) = Ascending(qHits)
          BY <1>2, <4>0, <4>1, SingleIds
        <5>2. Len(Ascending(qHits)) = n
          BY <1>2, <4>0, AscendingLists
        <5> QED BY <5>1, <5>2 DEF Indices
      <4>3. n # 0
        <5>1. n \in 1..n
          <6>1. DOMAIN Ascending(qHits) = 1..n
            BY <1>2, <4>0, AscendingLists
          <6> QED BY <4>1, <6>1 DEF Stretches
        <5> QED BY <1>2, <5>1
      <4>4. qTop \in Nat \ {0}
        <5>1. qHits # {}
          BY <4>3, FS_EmptySet
        <5> QED BY <1>4, <2>2, <5>1
      <4>5. k \in Nat \ {0} /\ k <= n
        BY <1>2, <4>3, <4>4 DEF Lesser
      <4>6. qAsked' \in Answers(qHits, Ascending(qHits), Ascending(qHits), k)
        BY <2>2, <4>2
      <4> HIDE DEF k
      <4> QED BY <1>2, <4>1, <4>5, <4>6, AnswerOfOneRun, QueryAssumption
    <3>3. OneRun' => OneRun
      BY <2>1 DEF OneRun, Single
    <3>4. OneRun' => Cardinality(qAsked') = Lesser(qTop', Cardinality(qHits')) /\ Nearest(qAsked, qHits)'
      BY <2>1, <3>2, <3>3 DEF Nearest
    <3> HIDE DEF n, k
    <3> QED BY <1>4, <2>1, <2>2, <3>1, <3>4 DEF QueryRanks
  <2>3. CASE qpc' = "failed"
    BY <1>4, <2>1, <2>3 DEF QueryRanks
  <2> QED BY <1>7, <2>2, <2>3 DEF Fetch
<1>8. ASSUME NEW i \in qWanted, ReadMetadata(i) PROVE QueryRanks'
  <2>1. /\ qpc = "metadata" /\ qpc' \in {"metadata", "answered"}
        /\ UNCHANGED <<vectors, qkv, qTop, qHits, qAsked, qBefore>>
    BY <1>8 DEF ReadMetadata, vars, disk
  <2>2. OneRun' => OneRun
    BY <2>1 DEF OneRun, Single
  <2> QED BY <1>4, <2>1, <2>2 DEF QueryRanks, Nearest
<1>9. CASE QueryDies
  BY <1>4, <1>9 DEF QueryDies, QueryRanks
<1>10. CASE UNCHANGED qvars
  <2>1. UNCHANGED <<qpc, qkv, qTop, qHits, qAsked, qBefore>>
    BY <1>10 DEF qvars
  <2>2. postings[qkv] \subseteq postings'[qkv]
    BY <1>1, <1>3 DEF Grows
  <2>3. \A i \in qHits : vectors'[i] = vectors[i]
    BY <1>1, <1>2 DEF Grows
  <2>4. Nearest(qAsked, qHits) => Nearest(qAsked, qHits)'
    BY <1>3, <2>1, <2>3 DEF Nearest
  <2>5. OneRun' => OneRun
    BY <2>1, <2>3 DEF OneRun, Single
  <2> QED BY <1>4, <2>1, <2>2, <2>4, <2>5 DEF QueryRanks
<1> QED BY <1>5, <1>6, <1>7, <1>8, <1>9, <1>10 DEF QNext, QueryStep, allVars

(***************************************************************************)
(* So the query keeps to its ranking in every behaviour.                   *)
(***************************************************************************)
LEMMA QueryRanksInvariant == QSpec => [](IndexInv /\ QueryInv /\ QueryRanks)
<1>1. QInit => QueryRanks
  BY QueryAssumption DEF QInit, QueryRanks
<1>2. IndexInv /\ QueryInv /\ QueryRanks /\ [QNext]_allVars => QueryRanks'
  BY QueryRanksStep
<1> QED BY <1>1, <1>2, QueryInvariant, PTL DEF QSpec

(***************************************************************************)
(* When the hits are one run, no commit of theirs repeats the pair, and    *)
(* they are no more than are asked for, the answer has every vector        *)
(* indexed under the pair when the query arrived.                          *)
(***************************************************************************)
THEOREM AnswersAreComplete == QSpec => []AnswerIsComplete
<1>1. IndexInv /\ QueryInv /\ QueryRanks => AnswerIsComplete
  <2> SUFFICES ASSUME IndexInv, QueryInv, QueryRanks,
                      qpc = "answered", OneRun, Cardinality(qHits) <= qTop
               PROVE  qBefore \subseteq {m.index : m \in qFound}
    BY DEF AnswerIsComplete
  <2>1. IsFiniteSet(qHits) /\ Cardinality(qHits) \in Nat
    BY HitsFinite
  <2>2. /\ qTop \in Nat /\ qBefore \subseteq qHits
        /\ Cardinality(qAsked) = Lesser(qTop, Cardinality(qHits))
    BY DEF QueryRanks
  <2>3. qAsked \subseteq qHits /\ {m.index : m \in qFound} = qAsked
    BY DEF QueryInv, QueryView
  <2>4. Cardinality(qAsked) = Cardinality(qHits)
    BY <2>1, <2>2 DEF Lesser
  <2>5. qAsked = qHits
    BY <2>1, <2>3, <2>4, FS_Subset
  <2> QED BY <2>2, <2>3, <2>5
<1> QED BY <1>1, QueryRanksInvariant, PTL

(***************************************************************************)
(* When the hits are one run and no commit of theirs repeats the pair, as  *)
(* many are answered as are asked for, and the nearest is among them.      *)
(***************************************************************************)
THEOREM NearestIsAlwaysAnswered == QSpec => []NearestIsAnswered
<1>1. IndexInv /\ QueryInv /\ QueryRanks => NearestIsAnswered
  <2> SUFFICES ASSUME IndexInv, QueryInv, QueryRanks, qpc = "answered", OneRun
               PROVE  /\ Cardinality(qAsked) = Lesser(qTop, Cardinality(qHits))
                      /\ \E m \in qFound : \A n \in metadata :
                             n.index \in qHits => Distance[m.commit] <= Distance[n.commit]
    BY DEF NearestIsAnswered
  <2>1. Cardinality(qAsked) = Lesser(qTop, Cardinality(qHits)) /\ Nearest(qAsked, qHits)
    BY DEF QueryRanks
  <2>2. {m.index : m \in qFound} = qAsked /\ qFound \subseteq metadata
    BY DEF QueryInv, QueryView
  <2>3. \A m \in metadata : vectors[m.index] = m.commit
    BY DEF QueryInv, ItemsAreVectors
  <2>4. PICK i \in qAsked : \A j \in qHits : Distance[vectors[i]] <= Distance[vectors[j]]
    BY <2>1 DEF Nearest
  <2>5. PICK m \in qFound : m.index = i
    BY <2>2
  <2>6. \A n \in metadata : n.index \in qHits => Distance[m.commit] <= Distance[n.commit]
    BY <2>2, <2>3, <2>4, <2>5
  <2> QED BY <2>1, <2>6
<1> QED BY <1>1, QueryRanksInvariant, PTL
=============================================================================
