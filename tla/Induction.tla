------------------------------ MODULE Induction ------------------------------
(***************************************************************************)
(* Induction on numbers, stated of sets and not of predicates: an instance *)
(* names the set of the numbers it holds for. What follows from it for     *)
(* functions defined step by step, for sorting, folding and flattening     *)
(* lists, and for the list operators of Lists.                             *)
(***************************************************************************)
EXTENDS Lists, TLAPS, FiniteSetTheorems, SequenceTheorems, WellFoundedInduction

(***************************************************************************)
(* A set of numbers that is not empty has a least one.                     *)
(***************************************************************************)
LEMMA LeastNumber ==
    ASSUME NEW S \in SUBSET Nat, S # {}
    PROVE  \E n \in S : \A m \in S : n <= m
<1> DEFINE Below(n) == {m \in S : m <= n}
           T == {Below(n) : n \in S}
           R == StrictSubsetOrdering(S)
<1>1. \A n \in S : Below(n) \in FiniteSubsetsOf(S)
  BY FS_BoundedSetOfNaturals DEF FiniteSubsetsOf
<1>2. T \subseteq FiniteSubsetsOf(S) /\ T # {}
  BY <1>1
<1>3. IsWellFoundedOn(R, FiniteSubsetsOf(S))
  BY FS_StrictSubsetOrderingWellFounded
<1>4. PICK x \in T : \A y \in T : <<y, x>> \notin R
  <2> HIDE DEF T, R
  <2> QED BY <1>2, <1>3, WFMin
<1>5. PICK n \in S : x = Below(n)
  BY <1>4
<1>6. ASSUME NEW m \in S, ~(n <= m) PROVE FALSE
  <2>4. m \in Nat /\ n \in Nat /\ \A k \in S : k \in Nat
    OBVIOUS
  <2>0. m < n
    BY <1>6, <2>4
  <2>3. Below(m) \in T
    OBVIOUS
  <2>1. n \notin Below(m) /\ n \in Below(n) /\ Below(m) \subseteq Below(n)
    <3> HIDE DEF T, R
    <3>1. ~(n <= m) /\ n <= n
      BY <2>0, <2>4
    <3>2. n \notin Below(m) /\ n \in Below(n)
      BY <3>1
    <3>3. \A k \in S : k <= m => k <= n
      BY <2>0, <2>4
    <3> QED BY <3>2, <3>3
  <2>2. <<Below(m), Below(n)>> \in R
    BY <2>1 DEF StrictSubsetOrdering
  <2> QED BY <1>4, <1>5, <2>3, <2>2
<1> QED BY <1>6

(***************************************************************************)
(* A set that holds 0, and with a number the next, holds them all.         *)
(***************************************************************************)
LEMMA NatSetInduction ==
    ASSUME NEW S \in SUBSET Nat, 0 \in S, \A n \in S : n + 1 \in S
    PROVE  S = Nat
<1> SUFFICES ASSUME Nat \ S # {} PROVE FALSE
  OBVIOUS
<1>1. PICK n \in Nat \ S : \A m \in Nat \ S : n <= m
  BY LeastNumber
<1>2. n # 0 /\ n - 1 \in Nat
  BY <1>1
<1>3. n - 1 \in S
  BY <1>1, <1>2
<1> QED BY <1>1, <1>3

-----------------------------------------------------------------------------
(***************************************************************************)
(* The sequence that begins with b and goes on, at each number, by the     *)
(* rule g has for it.                                                      *)
(***************************************************************************)
IteratesOf(T, b, g) == {s \in [Nat -> T] : s[0] = b /\ \A n \in Nat : s[n + 1] = g[n][s[n]]}

(***************************************************************************)
(* A rule that leads from a value to the next defines a sequence of them.  *)
(***************************************************************************)
LEMMA Iterates ==
    ASSUME NEW T, NEW b \in T, NEW g \in [Nat -> [T -> T]]
    PROVE  IteratesOf(T, b, g) # {}
<1> DEFINE Begun(n) == {c \in [0..n -> T] : c[0] = b /\ \A i \in 0..(n - 1) : c[i + 1] = g[i][c[i]]}
           Possible == {n \in Nat : Begun(n) # {}}
<1>1. Possible = Nat
  <2>1. 0 \in Possible
    <3>1. [i \in 0..0 |-> b] \in Begun(0)
      OBVIOUS
    <3> QED BY <3>1
  <2>2. ASSUME NEW n \in Possible PROVE n + 1 \in Possible
    <3>1. PICK c \in Begun(n) : TRUE
      OBVIOUS
    <3> DEFINE d == [i \in 0..(n + 1) |-> IF i <= n THEN c[i] ELSE g[n][c[n]]]
    <3>2. n \in Nat /\ c \in [0..n -> T] /\ c[n] \in T
      OBVIOUS
    <3>3. d \in [0..(n + 1) -> T]
      BY <3>2
    <3>4. d[0] = b
      BY <3>1, <3>2
    <3>5. ASSUME NEW i \in 0..((n + 1) - 1) PROVE d[i + 1] = g[i][d[i]]
      <4>1. i \in 0..n /\ i + 1 \in 0..(n + 1) /\ d[i] = c[i]
        BY <3>2, <3>5
      <4>2. CASE i = n
        <5>1. ~(n + 1 <= n) /\ n + 1 \in 0..(n + 1)
          BY <3>2
        <5>2. d[n + 1] = g[n][c[n]]
          BY <5>1
        <5> QED BY <4>1, <4>2, <5>2
      <4>3. CASE i # n
        <5>1. i \in 0..(n - 1) /\ i + 1 <= n
          BY <3>2, <4>1, <4>3
        <5> QED BY <3>1, <3>2, <4>1, <5>1
      <4> QED BY <4>2, <4>3
    <3>6. d \in Begun(n + 1)
      <4> HIDE DEF d
      <4> QED BY <3>3, <3>4, <3>5
    <3>7. Begun(n + 1) # {}
      <4> HIDE DEF d, Begun
      <4> QED BY <3>6
    <3> QED BY <3>2, <3>7
  <2> QED
    <3> HIDE DEF Possible
    <3>1. Possible \in SUBSET Nat
      BY DEF Possible
    <3> QED BY <2>1, <2>2, <3>1, NatSetInduction
<1>2. ASSUME NEW m \in Nat, NEW n \in Nat, NEW c \in Begun(m), NEW d \in Begun(n)
      PROVE  \A i \in Nat : i <= m /\ i <= n => c[i] = d[i]
  <2> DEFINE Same == {i \in Nat : i <= m /\ i <= n => c[i] = d[i]}
  <2>1. 0 \in Same
    OBVIOUS
  <2>2. ASSUME NEW i \in Same PROVE i + 1 \in Same
    <3>1. i \in Nat /\ i + 1 \in Nat
      OBVIOUS
    <3>2. ASSUME i + 1 <= m, i + 1 <= n PROVE c[i + 1] = d[i + 1]
      <4>1. i \in 0..(m - 1) /\ i \in 0..(n - 1) /\ i <= m /\ i <= n
        BY <3>1, <3>2
      <4>2. c[i] = d[i]
        BY <4>1
      <4> QED BY <4>1, <4>2
    <3> QED BY <3>1, <3>2
  <2>3. Same = Nat
    <3> HIDE DEF Same
    <3>1. Same \in SUBSET Nat
      BY DEF Same
    <3> QED BY <2>1, <2>2, <3>1, NatSetInduction
  <2> QED BY <2>3
<1> DEFINE first(n) == CHOOSE c \in Begun(n) : TRUE
           s == [n \in Nat |-> first(n)[n]]
<1>3. \A n \in Nat : first(n) \in Begun(n)
  BY <1>1
<1>4. \A n \in Nat : first(n) \in [0..n -> T]
  BY <1>3
<1>5. s \in [Nat -> T]
  <2> HIDE DEF first
  <2> QED BY <1>4
<1>6. s[0] = b
  BY <1>3
<1>7. ASSUME NEW n \in Nat PROVE s[n + 1] = g[n][s[n]]
  <2> HIDE DEF first
  <2>1. n + 1 \in Nat /\ n \in 0..((n + 1) - 1)
    OBVIOUS
  <2>2. first(n + 1)[n + 1] = g[n][first(n + 1)[n]]
    BY <1>3, <2>1
  <2>3. first(n + 1)[n] = first(n)[n]
    <3> HIDE DEF Begun
    <3>1. n <= n + 1 /\ n <= n
      OBVIOUS
    <3> QED BY <1>2, <1>3, <2>1, <3>1
  <2> QED BY <2>1, <2>2, <2>3
<1>8. s \in IteratesOf(T, b, g)
  <2> HIDE DEF s
  <2> QED BY <1>5, <1>6, <1>7 DEF IteratesOf
<1> QED BY <1>8

(***************************************************************************)
(* The steps of a rule over a list of some length, from b on.              *)
(***************************************************************************)
StepsOf(T, b, len, g) ==
    {h \in [0..len -> T] : h[0] = b /\ \A i \in 1..len : h[i] = g[i][h[i - 1]]}

(***************************************************************************)
(* So it does over a list of given length.                                 *)
(***************************************************************************)
LEMMA StepsTaken ==
    ASSUME NEW T, NEW b \in T, NEW len \in Nat, NEW g \in [1..len -> [T -> T]]
    PROVE  StepsOf(T, b, len, g) # {}
<1> DEFINE next == [i \in Nat |-> IF i + 1 \in 1..len THEN g[i + 1] ELSE [t \in T |-> t]]
<1>1. next \in [Nat -> [T -> T]]
  OBVIOUS
<1>2. PICK s \in [Nat -> T] : s[0] = b /\ \A n \in Nat : s[n + 1] = next[n][s[n]]
  <2> HIDE DEF next
  <2>1. IteratesOf(T, b, next) # {}
    BY <1>1, Iterates
  <2> QED BY <2>1 DEF IteratesOf
<1> DEFINE h == [i \in 0..len |-> s[i]]
<1>3. h \in [0..len -> T] /\ h[0] = b
  BY <1>2
<1>4. ASSUME NEW i \in 1..len PROVE h[i] = g[i][h[i - 1]]
  <2>1. i - 1 \in Nat /\ i - 1 \in 0..len /\ (i - 1) + 1 = i /\ i \in 0..len
    OBVIOUS
  <2>2. s[i] = next[i - 1][s[i - 1]]
    <3> HIDE DEF next
    <3> QED BY <1>2, <2>1
  <2>3. next[i - 1] = g[i]
    BY <2>1
  <2> QED BY <2>1, <2>2, <2>3
<1>5. h \in StepsOf(T, b, len, g)
  <2> HIDE DEF h
  <2> QED BY <1>3, <1>4 DEF StepsOf
<1> QED BY <1>5

-----------------------------------------------------------------------------
(***************************************************************************)
(* What comes before an element in an order of a set.                      *)
(***************************************************************************)
Ahead(S, R, x) == {y \in S : <<y, x>> \in R}

(***************************************************************************)
(* A strict order of a set that tells any two elements apart.              *)
(***************************************************************************)
TotalOrder(S, R) ==
    /\ \A x \in S : <<x, x>> \notin R
    /\ \A x, y \in S : x = y \/ <<x, y>> \in R \/ <<y, x>> \in R
    /\ \A x, y, z \in S : <<x, y>> \in R /\ <<y, z>> \in R => <<x, z>> \in R

(***************************************************************************)
(* The place of an element in an order.                                    *)
(***************************************************************************)
RankOf(S, R, x) == Cardinality(Ahead(S, R, x)) + 1

(***************************************************************************)
(* Every place is taken.                                                   *)
(***************************************************************************)
RanksTaken(S, R) == \A n \in 1..Cardinality(S) : \E x \in S : RankOf(S, R, x) = n

(***************************************************************************)
(* In a total order of a finite set each rank is that of one member.       *)
(***************************************************************************)
LEMMA Ranks ==
    ASSUME NEW S, IsFiniteSet(S), NEW R, TotalOrder(S, R)
    PROVE  /\ Cardinality(S) \in Nat
           /\ \A x \in S : RankOf(S, R, x) \in 1..Cardinality(S)
           /\ \A x, y \in S : <<x, y>> \in R => RankOf(S, R, x) < RankOf(S, R, y)
           /\ \A x, y \in S : RankOf(S, R, x) = RankOf(S, R, y) => x = y
           /\ RanksTaken(S, R)
<1> DEFINE n == Cardinality(S)
           rank == [x \in S |-> RankOf(S, R, x)]
<1>1. n \in Nat
  BY FS_CardinalityType
<1>2. \A x \in S : IsFiniteSet(Ahead(S, R, x)) /\ Cardinality(Ahead(S, R, x)) \in Nat
  <2> SUFFICES ASSUME NEW x \in S
               PROVE  IsFiniteSet(Ahead(S, R, x)) /\ Cardinality(Ahead(S, R, x)) \in Nat
    OBVIOUS
  <2>1. Ahead(S, R, x) \in SUBSET S
    BY DEF Ahead
  <2>2. IsFiniteSet(Ahead(S, R, x))
    BY <2>1, FS_Subset
  <2> QED BY <2>2, FS_CardinalityType
<1>8. \A x \in S : RankOf(S, R, x) \in Nat /\ RankOf(S, R, x) >= 1
  BY <1>2 DEF RankOf
<1>9. \A x \in S : Cardinality(Ahead(S, R, x) \cup {x}) = RankOf(S, R, x)
  <2> SUFFICES ASSUME NEW x \in S
               PROVE  Cardinality(Ahead(S, R, x) \cup {x}) = RankOf(S, R, x)
    OBVIOUS
  <2>1. IsFiniteSet(Ahead(S, R, x)) /\ x \notin Ahead(S, R, x)
    BY <1>2 DEF Ahead, TotalOrder
  <2> QED BY <2>1, FS_AddElement DEF RankOf
<1>3. ASSUME NEW x \in S PROVE RankOf(S, R, x) \in 1..n
  <2>1. Ahead(S, R, x) \cup {x} \in SUBSET S
    BY DEF Ahead
  <2>2. Cardinality(Ahead(S, R, x) \cup {x}) <= n
    BY <2>1, FS_Subset
  <2>3. RankOf(S, R, x) <= n
    BY <1>9, <2>2
  <2> HIDE DEF n
  <2> QED BY <1>1, <1>8, <2>3
<1>4. ASSUME NEW x \in S, NEW y \in S, <<x, y>> \in R PROVE RankOf(S, R, x) < RankOf(S, R, y)
  <2>1. Ahead(S, R, x) \cup {x} \in SUBSET Ahead(S, R, y)
    BY <1>4 DEF Ahead, TotalOrder
  <2>2. Cardinality(Ahead(S, R, x) \cup {x}) <= Cardinality(Ahead(S, R, y))
    BY <1>2, <2>1, FS_Subset
  <2>3. RankOf(S, R, x) <= Cardinality(Ahead(S, R, y))
    BY <1>9, <2>2
  <2>4. Cardinality(Ahead(S, R, y)) + 1 = RankOf(S, R, y)
    BY DEF RankOf
  <2>5. Cardinality(Ahead(S, R, y)) \in Nat /\ RankOf(S, R, x) \in Nat
    BY <1>2, <1>8
  <2> QED BY <2>3, <2>4, <2>5
<1>5. ASSUME NEW x \in S, NEW y \in S, RankOf(S, R, x) = RankOf(S, R, y) PROVE x = y
  <2>1. RankOf(S, R, x) \in Nat /\ RankOf(S, R, y) \in Nat
    BY <1>1, <1>3
  <2>2. ~(<<x, y>> \in R) /\ ~(<<y, x>> \in R)
    BY <1>4, <1>5, <2>1
  <2> QED BY <2>2 DEF TotalOrder
<1>6. rank \in Surjection(S, 1..n)
  <2>1. rank \in Injection(S, 1..n)
    <3>1. rank \in [S -> 1..n] /\ \A x, y \in S : rank[x] = rank[y] => x = y
      BY <1>3, <1>5
    <3> HIDE DEF rank
    <3> QED BY <3>1 DEF Injection, IsInjective
  <2>2. IsFiniteSet(1..n) /\ Cardinality(1..n) = n
    BY <1>1, FS_Interval
  <2> HIDE DEF rank
  <2> QED BY <2>1, <2>2, FS_Injection
<1>7. ASSUME NEW i \in 1..n PROVE \E x \in S : RankOf(S, R, x) = i
  <2>1. \E x \in S : rank[x] = i
    <3> HIDE DEF rank
    <3> QED BY <1>6 DEF Surjection
  <2> QED BY <2>1
<1>10. RanksTaken(S, R)
  BY <1>7 DEF RanksTaken
<1> QED BY <1>1, <1>3, <1>4, <1>5, <1>10

(***************************************************************************)
(* The order of numbers.                                                   *)
(***************************************************************************)
Less(S) == {p \in S \X S : p[1] < p[2]}

(***************************************************************************)
(* It is a total order of any set of numbers.                              *)
(***************************************************************************)
LEMMA LessOrders == ASSUME NEW S \in SUBSET Int PROVE TotalOrder(S, Less(S))
<1>1. \A x, y \in S : <<x, y>> \in Less(S) <=> x < y
  BY DEF Less
<1>2. \A x \in S : x \in Int
  OBVIOUS
<1> QED BY <1>1, <1>2 DEF TotalOrder

(***************************************************************************)
(* What Ascending lists: the members of the set, in order, each once.      *)
(***************************************************************************)
LEMMA AscendingLists ==
    ASSUME NEW S \in SUBSET Int, IsFiniteSet(S)
    PROVE  /\ Cardinality(S) \in Nat
           /\ Ascending(S) \in [1..Cardinality(S) -> S]
           /\ Ascending(S) \in Seq(S) /\ Len(Ascending(S)) = Cardinality(S)
           /\ \A x \in S : \E i \in 1..Cardinality(S) : Ascending(S)[i] = x
           /\ \A i, j \in 1..Cardinality(S) : i < j => Ascending(S)[i] < Ascending(S)[j]
           /\ \A i \in 1..Cardinality(S) : RankOf(S, Less(S), Ascending(S)[i]) = i
<1> DEFINE n == Cardinality(S)
           A == Ascending(S)
           rank(x) == RankOf(S, Less(S), x)
<1>1. TotalOrder(S, Less(S))
  BY LessOrders
<1>2. n \in Nat
  BY FS_CardinalityType
<1>3. \A x \in S : x \in Int
  OBVIOUS
<1>4. ASSUME NEW x \in S PROVE Cardinality({y \in S : y <= x}) = rank(x)
  <2>1. {y \in S : y <= x} = Ahead(S, Less(S), x) \cup {x}
    <3>1. \A y \in S : y <= x <=> y < x \/ y = x
      BY <1>3
    <3>2. \A y \in S : <<y, x>> \in Less(S) <=> y < x
      BY DEF Less
    <3> QED BY <3>1, <3>2 DEF Ahead
  <2>2. x \notin Ahead(S, Less(S), x) /\ Ahead(S, Less(S), x) \in SUBSET S
    BY <1>3 DEF Ahead, Less
  <2>3. IsFiniteSet(Ahead(S, Less(S), x))
    BY <2>2, FS_Subset
  <2> QED BY <2>1, <2>2, <2>3, FS_AddElement DEF RankOf
<1>5. ASSUME NEW i \in 1..n PROVE A[i] \in S /\ rank(A[i]) = i
  <2>1. A[i] = CHOOSE x \in S : Cardinality({y \in S : y <= x}) = i
    BY DEF Ascending
  <2>2. \E x \in S : rank(x) = i
    <3>1. RanksTaken(S, Less(S))
      BY <1>1, Ranks
    <3> QED BY <3>1 DEF RanksTaken
  <2>3. \E x \in S : Cardinality({y \in S : y <= x}) = i
    BY <1>4, <2>2
  <2>4. A[i] \in S /\ Cardinality({y \in S : y <= A[i]}) = i
    BY <2>1, <2>3
  <2> QED BY <1>4, <2>4
<1>6. A \in [1..n -> S]
  BY <1>5 DEF Ascending
<1>7. A \in Seq(S) /\ Len(A) = n
  BY <1>2, <1>6
<1>8. ASSUME NEW x \in S PROVE \E i \in 1..n : A[i] = x
  <2>1. rank(x) \in 1..n
    BY <1>1, Ranks
  <2>2. A[rank(x)] \in S /\ rank(A[rank(x)]) = rank(x)
    BY <1>5, <2>1
  <2>3. A[rank(x)] = x
    BY <1>1, <2>2, Ranks
  <2> QED BY <2>1, <2>3
<1>9. ASSUME NEW i \in 1..n, NEW j \in 1..n, i < j PROVE A[i] < A[j]
  <2>1. A[i] \in S /\ A[j] \in S /\ rank(A[i]) = i /\ rank(A[j]) = j
    BY <1>5
  <2>2. A[i] # A[j]
    BY <1>9, <2>1
  <2>3. CASE A[j] < A[i]
    <3>1. <<A[j], A[i]>> \in Less(S)
      BY <2>1, <2>3 DEF Less
    <3>2. rank(A[j]) < rank(A[i])
      BY <1>1, <2>1, <3>1, Ranks
    <3> QED BY <1>9, <2>1, <3>2
  <2>4. A[i] \in Int /\ A[j] \in Int
    BY <1>3, <2>1
  <2> HIDE DEF A
  <2> QED BY <2>2, <2>3, <2>4
<1> QED BY <1>2, <1>5, <1>6, <1>7, <1>8, <1>9

(***************************************************************************)
(* A list that ascends without duplicates.                                 *)
(***************************************************************************)
Increasing(s) == \A i, j \in 1..Len(s) : i < j => s[i] < s[j]

(***************************************************************************)
(* An increasing list is what Ascending makes of its members.              *)
(***************************************************************************)
LEMMA AscendingOfIncreasing ==
    ASSUME NEW s \in Seq(Int), Increasing(s)
    PROVE  /\ IsFiniteSet(ToSet(s)) /\ Cardinality(ToSet(s)) = Len(s)
           /\ Ascending(ToSet(s)) = s
<1> DEFINE S == ToSet(s)
<1>1. Len(s) \in Nat /\ DOMAIN s = 1..Len(s) /\ s \in [1..Len(s) -> Int]
  OBVIOUS
<1>2. \A i, j \in 1..Len(s) : s[i] = s[j] => i = j
  BY <1>1 DEF Increasing
<1>3. S = {s[i] : i \in 1..Len(s)} /\ S \in SUBSET Int
  BY <1>1 DEF ToSet
<1>4. ASSUME NEW k \in 0..Len(s)
      PROVE  LET T == {s[i] : i \in 1..k} IN IsFiniteSet(T) /\ Cardinality(T) = k
  <2> DEFINE T == {s[i] : i \in 1..k}
             f == [i \in 1..k |-> s[i]]
  <2>1. f \in Surjection(1..k, T) /\ f \in Injection(1..k, T)
    <3>1. f \in [1..k -> T] /\ (\A i, j \in 1..k : f[i] = f[j] => i = j) /\ \A x \in T : \E i \in 1..k : f[i] = x
      BY <1>1, <1>2
    <3> HIDE DEF f, T
    <3> QED BY <3>1 DEF Surjection, Injection, IsInjective
  <2>2. IsFiniteSet(1..k) /\ Cardinality(1..k) = k
    BY <1>1, FS_Interval
  <2> HIDE DEF f, T
  <2>3. IsFiniteSet(T) /\ Cardinality(T) = k
    BY <2>1, <2>2, FS_Surjection
  <2> QED BY <2>3 DEF T
<1>5. IsFiniteSet(S) /\ Cardinality(S) = Len(s)
  <2>1. Len(s) \in 0..Len(s)
    BY <1>1
  <2> HIDE DEF S
  <2> QED BY <1>3, <1>4, <2>1
<1>6. ASSUME NEW i \in 1..Len(s) PROVE Ascending(S)[i] = s[i]
  <2>1. Ahead(S, Less(S), s[i]) = {s[j] : j \in 1..(i - 1)}
    <3>1. \A j \in 1..Len(s) : s[j] < s[i] <=> j < i
      <4> SUFFICES ASSUME NEW j \in 1..Len(s) PROVE s[j] < s[i] <=> j < i
        OBVIOUS
      <4>1. j < i \/ j = i \/ i < j
        BY <1>1
      <4>2. s[j] \in Int /\ s[i] \in Int
        BY <1>1
      <4> QED BY <1>1, <4>1, <4>2 DEF Increasing
    <3>2. \A x \in S : <<x, s[i]>> \in Less(S) <=> x < s[i]
      BY <1>1, <1>3 DEF Less
    <3>3. \A j : j \in 1..(i - 1) <=> j \in 1..Len(s) /\ j < i
      BY <1>1
    <3> QED BY <1>3, <3>1, <3>2, <3>3 DEF Ahead
  <2>2. Cardinality({s[j] : j \in 1..(i - 1)}) = i - 1
    <3>1. i - 1 \in 0..Len(s)
      BY <1>1
    <3> QED BY <1>4, <3>1
  <2>3. RankOf(S, Less(S), s[i]) = i
    <3>1. Cardinality(Ahead(S, Less(S), s[i])) = i - 1
      BY <2>1, <2>2
    <3>2. i - 1 + 1 = i
      BY <1>1
    <3> HIDE DEF S
    <3> QED BY <3>1, <3>2 DEF RankOf
  <2>4. s[i] \in S
    BY <1>1, <1>3
  <2> HIDE DEF S
  <2>5. Ascending(S) \in [1..Cardinality(S) -> S]
    BY <1>3, <1>5, AscendingLists
  <2>6. \A m \in 1..Cardinality(S) : RankOf(S, Less(S), Ascending(S)[m]) = m
    BY <1>3, <1>5, AscendingLists
  <2>7. Ascending(S)[i] \in S /\ RankOf(S, Less(S), Ascending(S)[i]) = i
    BY <1>5, <2>5, <2>6
  <2>8. TotalOrder(S, Less(S))
    BY <1>3, LessOrders
  <2>9. \A x, y \in S : RankOf(S, Less(S), x) = RankOf(S, Less(S), y) => x = y
    BY <1>5, <2>8, Ranks
  <2> QED BY <2>3, <2>4, <2>7, <2>9
<1>7. Ascending(S) \in [1..Len(s) -> S]
  BY <1>3, <1>5, AscendingLists
<1> QED BY <1>1, <1>5, <1>6, <1>7

-----------------------------------------------------------------------------
(***************************************************************************)
(* The positions of a list in some order, each once.                       *)
(***************************************************************************)
Rearranges(f, n) ==
    /\ f \in [1..n -> 1..n]
    /\ \A i, j \in 1..n : f[i] = f[j] => i = j
    /\ \A k \in 1..n : \E i \in 1..n : f[i] = k

(***************************************************************************)
(* Positions in an order given.                                            *)
(***************************************************************************)
InOrder(f, n, before) == \A i, j \in 1..n : i < j => <<f[i], f[j]>> \in before

(***************************************************************************)
(* A list arranged is the list rearranged, in the order given.             *)
(***************************************************************************)
LEMMA ArrangedIs ==
    ASSUME NEW T, NEW s \in Seq(T), NEW before, TotalOrder(1..Len(s), before)
    PROVE  \E f : /\ Rearranges(f, Len(s)) /\ InOrder(f, Len(s), before)
                  /\ Arranged(s, before) = [i \in 1..Len(s) |-> s[f[i]]]
<1> DEFINE n == Len(s)
           S == 1..n
           f == [i \in 1..n |-> CHOOSE k \in S : RankOf(S, before, k) = i]
<1>1. n \in Nat /\ DOMAIN s = S /\ IsFiniteSet(S) /\ Cardinality(S) = n
  <2>1. n \in Nat /\ DOMAIN s = 1..n
    OBVIOUS
  <2>2. IsFiniteSet(1..n) /\ Cardinality(1..n) = n
    <3> HIDE DEF n
    <3> QED BY <2>1, FS_Interval
  <2> QED BY <2>1, <2>2
<1> HIDE DEF n
<1>2. TotalOrder(S, before)
  BY DEF n
<1>3. \A i \in S : f[i] \in S /\ RankOf(S, before, f[i]) = i
  <2>1. RanksTaken(S, before)
    <3> HIDE DEF S
    <3> QED BY <1>1, <1>2, Ranks
  <2>2. \A i \in S : \E k \in S : RankOf(S, before, k) = i
    BY <1>1, <2>1 DEF RanksTaken
  <2> QED BY <2>2
<1>4. /\ \A x, y \in S : <<x, y>> \in before => RankOf(S, before, x) < RankOf(S, before, y)
      /\ \A x \in S : RankOf(S, before, x) \in S
  <2>1. \A x \in S : RankOf(S, before, x) \in 1..Cardinality(S)
    <3> HIDE DEF S
    <3> QED BY <1>1, <1>2, Ranks
  <2>2. \A x, y \in S : <<x, y>> \in before => RankOf(S, before, x) < RankOf(S, before, y)
    <3> HIDE DEF S
    <3> QED BY <1>1, <1>2, Ranks
  <2> QED BY <1>1, <2>1, <2>2
<1>5. \A x, y \in S : RankOf(S, before, x) = RankOf(S, before, y) => x = y
  <2> HIDE DEF S
  <2> QED BY <1>1, <1>2, Ranks
<1>6. Rearranges(f, n)
  <2>1. \A k \in S : \E i \in S : f[i] = k
    <3> SUFFICES ASSUME NEW k \in S PROVE \E i \in S : f[i] = k
      OBVIOUS
    <3> HIDE DEF f, S
    <3>1. RankOf(S, before, k) \in S
      BY <1>4
    <3>2. f[RankOf(S, before, k)] = k
      BY <1>3, <1>5, <3>1
    <3> QED BY <3>1, <3>2
  <2>2. \A i, j \in S : f[i] = f[j] => i = j
    <3> HIDE DEF f, S
    <3> QED BY <1>3
  <2>3. f \in [S -> S]
    BY <1>3
  <2> HIDE DEF f
  <2> QED BY <2>1, <2>2, <2>3 DEF Rearranges
<1>7. ASSUME NEW i \in S, NEW j \in S, i < j PROVE <<f[i], f[j]>> \in before
  <2> DEFINE x == f[i]
             y == f[j]
  <2>1. x \in S /\ y \in S /\ RankOf(S, before, x) = i /\ RankOf(S, before, y) = j
    BY <1>3
  <2> HIDE DEF x, y
  <2>2. i \in Nat /\ j \in Nat /\ i # j /\ ~(j < i)
    BY <1>1, <1>7
  <2>3. x # y
    BY <2>1, <2>2
  <2>4. <<y, x>> \notin before
    <3> HIDE DEF S
    <3>1. <<y, x>> \in before => RankOf(S, before, y) < RankOf(S, before, x)
      BY <1>4, <2>1
    <3> QED BY <2>1, <2>2, <3>1
  <2>5. <<x, y>> \in before
    BY <1>2, <2>1, <2>3, <2>4 DEF TotalOrder
  <2> QED BY <2>5 DEF x, y
<1>8. InOrder(f, n, before)
  <2> HIDE DEF f
  <2> QED BY <1>7 DEF InOrder
<1>9. Arranged(s, before) = [i \in S |-> s[f[i]]]
  <2>1. \A i \in S : Cardinality({j \in S : <<j, i>> \in before}) + 1 = RankOf(S, before, i)
    BY DEF RankOf, Ahead
  <2>2. ASSUME NEW m \in S
        PROVE  (CHOOSE i \in S : Cardinality({j \in S : <<j, i>> \in before}) + 1 = m) = f[m]
    <3>1. \A i \in S : (Cardinality({j \in S : <<j, i>> \in before}) + 1 = m)
                            <=> (RankOf(S, before, i) = m)
      BY <2>1
    <3>2. f[m] = CHOOSE i \in S : RankOf(S, before, i) = m
      OBVIOUS
    <3>3. (CHOOSE i \in S : Cardinality({j \in S : <<j, i>> \in before}) + 1 = m)
             = CHOOSE i \in S : RankOf(S, before, i) = m
      BY <3>1
    <3> QED BY <3>2, <3>3
  <2>3. Arranged(s, before) =
           [m \in S |-> s[CHOOSE i \in S : Cardinality({j \in S : <<j, i>> \in before}) + 1 = m]]
    <3> HIDE DEF f, S
    <3> QED BY <1>1 DEF Arranged
  <2> HIDE DEF f, S
  <2> QED BY <2>2, <2>3
<1> QED
  <2> HIDE DEF f
  <2> QED BY <1>6, <1>8, <1>9 DEF n

(***************************************************************************)
(* A list rearranged has the same length and members.                      *)
(***************************************************************************)
LEMMA RearrangedKeeps ==
    ASSUME NEW T, NEW s \in Seq(T), NEW f, Rearranges(f, Len(s))
    PROVE  LET t == [i \in 1..Len(s) |-> s[f[i]]]
           IN  t \in Seq(T) /\ Len(t) = Len(s) /\ ToSet(t) = ToSet(s)
<1> DEFINE n == Len(s)
           t == [i \in 1..n |-> s[f[i]]]
<1>1. n \in Nat /\ DOMAIN s = 1..n /\ s \in [1..n -> T]
  OBVIOUS
<1> HIDE DEF n
<1>2. t \in [1..n -> T]
  BY <1>1 DEF Rearranges, n
<1>3. t \in Seq(T) /\ Len(t) = n /\ DOMAIN t = 1..n
  BY <1>1, <1>2
<1>4. \A x : (\E i \in 1..n : s[f[i]] = x) <=> (\E i \in 1..n : s[i] = x)
  BY <1>1 DEF Rearranges, n
<1>5. ToSet(t) = {s[f[i]] : i \in 1..n}
  BY <1>3 DEF ToSet
<1>6. ToSet(s) = {s[i] : i \in 1..n}
  BY <1>1 DEF ToSet
<1>7. ToSet(t) = ToSet(s)
  <2> HIDE DEF t
  <2>1. \A x : x \in ToSet(t) <=> \E i \in 1..n : s[f[i]] = x
    BY <1>5
  <2>2. \A x : x \in ToSet(s) <=> \E i \in 1..n : s[i] = x
    BY <1>6
  <2> QED BY <1>4, <2>1, <2>2
<1> QED BY <1>3, <1>7 DEF n

(***************************************************************************)
(* The first numbers, their greatest, and those before it.                 *)
(***************************************************************************)
LEMMA FirstNumbers ==
    /\ 1..0 = {}
    /\ \A k \in Nat \ {0} : 1..k # {} /\ Max(1..k) = k /\ (1..k) \ {Max(1..k)} = 1..(k - 1)
<1>1. ASSUME NEW k \in Nat \ {0} PROVE 1..k # {} /\ Max(1..k) = k /\ (1..k) \ {k} = 1..(k - 1)
  <2>1. k \in 1..k /\ \A y \in 1..k : k >= y
    OBVIOUS
  <2>2. \A x \in 1..k : (\A y \in 1..k : x >= y) => x = k
    BY <2>1
  <2>3. Max(1..k) = k
    BY <2>1, <2>2 DEF Max
  <2> QED BY <2>1, <2>3
<1> QED BY <1>1

(***************************************************************************)
(* A fold over a finite part of the positions of a list.                   *)
(***************************************************************************)
FoldsOf(T, b, n, g) ==
    {iter \in [SUBSET (1..n) -> T] :
        iter = [S \in SUBSET (1..n) |->
                   IF S = {} THEN b ELSE g[Max(S)][iter[S \ {Max(S)}]]]}

(***************************************************************************)
(* Max finds the greatest of some of the first n numbers.                  *)
(***************************************************************************)
LEMMA GreatestOf ==
    ASSUME NEW n \in Nat, NEW S \in SUBSET (1..n), S # {}
    PROVE  Max(S) \in S /\ \A x \in S : x <= Max(S)
<1> DEFINE D == {k \in Nat : \A x \in S : x <= k}
<1>1. n \in D
  OBVIOUS
<1>2. PICK k \in D : \A m \in D : k <= m
  <2> HIDE DEF D
  <2>1. D \in SUBSET Nat
    BY DEF D
  <2> QED BY <1>1, <2>1, LeastNumber
<1>3. k \in S
  <2> SUFFICES ASSUME k \notin S PROVE FALSE
    OBVIOUS
  <2>1. \A x \in S : x \in Nat /\ x >= 1 /\ x <= k /\ x # k
    BY <1>2
  <2>0. k \in Nat
    OBVIOUS
  <2>4. k >= 1
    <3>1. PICK x \in S : TRUE
      OBVIOUS
    <3> QED BY <2>0, <2>1, <3>1
  <2>2. k \in Nat /\ k >= 1 /\ \A x \in S : x <= k - 1
    <3> HIDE DEF D
    <3> QED BY <2>0, <2>1, <2>4
  <2>3. k - 1 \in D
    BY <2>2
  <2> QED BY <1>2, <2>2, <2>3
<1>4. \E x \in S : \A y \in S : x >= y
  BY <1>2, <1>3
<1>5. Max(S) \in S /\ \A y \in S : Max(S) >= y
  BY <1>4 DEF Max
<1> QED BY <1>5

(***************************************************************************)
(* There is one: the recursion of a fold over a list is well-defined.      *)
(***************************************************************************)
LEMMA FoldExists ==
    ASSUME NEW T, NEW b \in T, NEW n \in Nat, NEW g \in [1..n -> [T -> T]]
    PROVE  FoldsOf(T, b, n, g) # {}
<1> DEFINE D == SUBSET (1..n)
           pass(S) == [i \in 1..n |-> IF i \in S THEN g[i] ELSE [t \in T |-> t]]
           h(S) == CHOOSE k \in StepsOf(T, b, n, pass(S)) : TRUE
           iter == [S \in D |-> h(S)[n]]
<1>1. ASSUME NEW S \in D
      PROVE  /\ h(S) \in [0..n -> T] /\ h(S)[0] = b
             /\ \A i \in 1..n : h(S)[i] = IF i \in S THEN g[i][h(S)[i - 1]] ELSE h(S)[i - 1]
  <2>1. pass(S) \in [1..n -> [T -> T]]
    OBVIOUS
  <2>2. StepsOf(T, b, n, pass(S)) # {}
    <3> HIDE DEF pass
    <3> QED BY <2>1, StepsTaken
  <2>3. h(S) \in StepsOf(T, b, n, pass(S))
    <3> HIDE DEF pass
    <3> QED BY <2>2
  <2> HIDE DEF h
  <2>4. h(S) \in [0..n -> T] /\ h(S)[0] = b /\ \A i \in 1..n : h(S)[i] = pass(S)[i][h(S)[i - 1]]
    <3> HIDE DEF pass
    <3> QED BY <2>3 DEF StepsOf
  <2>5. ASSUME NEW i \in 1..n
        PROVE  h(S)[i] = IF i \in S THEN g[i][h(S)[i - 1]] ELSE h(S)[i - 1]
    <3>1. h(S)[i - 1] \in T
      BY <2>4
    <3>2. pass(S)[i] = IF i \in S THEN g[i] ELSE [t \in T |-> t]
      OBVIOUS
    <3>3. h(S)[i] = pass(S)[i][h(S)[i - 1]]
      BY <2>4
    <3> HIDE DEF pass
    <3> QED BY <3>1, <3>2, <3>3
  <2> QED BY <2>4, <2>5
<1> HIDE DEF h, pass
<1>2. \A S \in D : h(S) \in [0..n -> T] /\ h(S)[0] = b
  BY <1>1
<1>3. \A S \in D : \A i \in 1..n : h(S)[i] = IF i \in S THEN g[i][h(S)[i - 1]] ELSE h(S)[i - 1]
  BY <1>1
<1>4. ASSUME NEW S \in D, NEW m \in 0..n, \A x \in S : x <= m
      PROVE  h(S)[n] = h(S)[m]
  <2> DEFINE Flat == {j \in Nat : m + j <= n => h(S)[m + j] = h(S)[m]}
  <2>1. 0 \in Flat
    OBVIOUS
  <2>2. ASSUME NEW j \in Flat PROVE j + 1 \in Flat
    <3>1. j \in Nat /\ j + 1 \in Nat
      OBVIOUS
    <3>2. ASSUME m + (j + 1) <= n PROVE h(S)[m + (j + 1)] = h(S)[m]
      <4>1. m + (j + 1) \in 1..n /\ (m + (j + 1)) - 1 = m + j /\ m + j <= n
        BY <3>1, <3>2
      <4>2. m + (j + 1) \notin S
        BY <1>4, <3>1, <4>1
      <4>3. h(S)[m + (j + 1)] = h(S)[m + j]
        BY <1>3, <4>1, <4>2
      <4> QED BY <4>1, <4>3
    <3> QED BY <3>1, <3>2
  <2>3. Flat = Nat
    <3> HIDE DEF Flat
    <3>1. Flat \in SUBSET Nat
      BY DEF Flat
    <3> QED BY <2>1, <2>2, <3>1, NatSetInduction
  <2>4. n - m \in Flat
    <3> HIDE DEF Flat
    <3> QED BY <2>3
  <2> QED BY <2>4
<1>5. ASSUME NEW S \in D, NEW R \in D, NEW m \in 0..n, \A i \in 1..m : i \in S <=> i \in R
      PROVE  h(S)[m] = h(R)[m]
  <2> DEFINE Same == {j \in Nat : j <= m => h(S)[j] = h(R)[j]}
  <2>1. 0 \in Same
    BY <1>2
  <2>2. ASSUME NEW j \in Same PROVE j + 1 \in Same
    <3>1. j \in Nat /\ j + 1 \in Nat
      OBVIOUS
    <3>2. ASSUME j + 1 <= m PROVE h(S)[j + 1] = h(R)[j + 1]
      <4>1. j + 1 \in 1..n /\ j + 1 \in 1..m /\ (j + 1) - 1 = j /\ j <= m
        BY <3>1, <3>2
      <4>2. h(S)[j] = h(R)[j]
        BY <4>1
      <4>3. /\ h(S)[j + 1] = IF j + 1 \in S THEN g[j + 1][h(S)[j]] ELSE h(S)[j]
            /\ h(R)[j + 1] = IF j + 1 \in R THEN g[j + 1][h(R)[j]] ELSE h(R)[j]
        BY <1>3, <4>1
      <4> QED BY <1>5, <4>1, <4>2, <4>3
    <3> QED BY <3>1, <3>2
  <2>3. Same = Nat
    <3> HIDE DEF Same
    <3>1. Same \in SUBSET Nat
      BY DEF Same
    <3> QED BY <2>1, <2>2, <3>1, NatSetInduction
  <2>4. m \in Same
    BY <2>3
  <2> QED BY <2>4
<1>6. iter \in [D -> T]
  BY <1>2
<1>7. ASSUME NEW S \in D
      PROVE  iter[S] = IF S = {} THEN b ELSE g[Max(S)][iter[S \ {Max(S)}]]
  <2>1. CASE S = {}
    <3>1. h(S)[n] = h(S)[0]
      BY <1>4, <2>1
    <3> QED BY <1>2, <2>1, <3>1
  <2>2. CASE S # {}
    <3> DEFINE m == Max(S)
               R == S \ {m}
    <3>1. m \in S /\ \A x \in S : x <= m
      BY <2>2, GreatestOf
    <3> HIDE DEF m
    <3>2. m \in 1..n /\ m - 1 \in 0..n /\ R \in D
      BY <3>1
    <3>3. h(S)[n] = h(S)[m]
      BY <1>4, <3>1, <3>2
    <3>4. h(S)[m] = g[m][h(S)[m - 1]]
      BY <1>3, <3>1, <3>2
    <3>5. h(S)[m - 1] = h(R)[m - 1]
      <4>1. \A i \in 1..(m - 1) : i \in S <=> i \in R
        BY <3>2
      <4> QED BY <1>5, <3>2, <4>1
    <3>6. h(R)[n] = h(R)[m - 1]
      <4>1. \A x \in R : x <= m - 1
        BY <3>1, <3>2
      <4> QED BY <1>4, <3>2, <4>1
    <3> QED BY <2>2, <3>2, <3>3, <3>4, <3>5, <3>6 DEF m
  <2> QED BY <2>1, <2>2
<1>8. iter \in FoldsOf(T, b, n, g)
  <2> HIDE DEF iter
  <2>1. iter = [S \in D |-> IF S = {} THEN b ELSE g[Max(S)][iter[S \ {Max(S)}]]]
    BY <1>6, <1>7
  <2> QED BY <1>6, <2>1 DEF FoldsOf
<1> QED BY <1>8

-----------------------------------------------------------------------------
(***************************************************************************)
(* What holds first, and next wherever it holds, holds up to any number.   *)
(***************************************************************************)
LEMMA Climb ==
    ASSUME NEW n \in Nat, NEW P, 0 \in P, \A i \in 1..n : i - 1 \in P => i \in P
    PROVE  \A i \in 0..n : i \in P
<1> DEFINE Q == {i \in Nat : i <= n => i \in P}
<1>1. 0 \in Q
  OBVIOUS
<1>2. ASSUME NEW i \in Q PROVE i + 1 \in Q
  <2>1. i \in Nat /\ i + 1 \in Nat /\ (i + 1) - 1 = i
    OBVIOUS
  <2>2. ASSUME i + 1 <= n PROVE i + 1 \in P
    <3>1. i + 1 \in 1..n /\ i \in P
      BY <2>1, <2>2
    <3> QED BY <2>1, <3>1
  <2> QED BY <2>1, <2>2
<1>3. Q = Nat
  <2> HIDE DEF Q
  <2>1. Q \in SUBSET Nat
    BY DEF Q
  <2> QED BY <1>1, <1>2, <2>1, NatSetInduction
<1> QED BY <1>3

(***************************************************************************)
(* The steps of flattening a list of lists, one more list taken at each.   *)
(***************************************************************************)
FlattensOf(X, seqs) ==
    {h \in [0..Len(seqs) -> Seq(X)] :
        h[0] = <<>> /\ \A i \in 1..Len(seqs) : h[i] = h[i - 1] \o seqs[i]}

(***************************************************************************)
(* FlattenSeq appends one list after the other.                            *)
(***************************************************************************)
LEMMA FlattenSteps ==
    ASSUME NEW X, NEW seqs \in Seq(Seq(X))
    PROVE  \E h \in FlattensOf(X, seqs) : FlattenSeq(seqs) = h[Len(seqs)]
<1> DEFINE n == Len(seqs)
           T == Seq(X)
           g == [i \in 1..n |-> [t \in T |-> IF i = 1 THEN seqs[1] ELSE t \o seqs[i]]]
           IsFlat(f) == f = [i \in 1..n |-> IF i = 1 THEN seqs[i] ELSE f[i - 1] \o seqs[i]]
           flat == CHOOSE f : IsFlat(f)
           h == [i \in 0..n |-> IF i = 0 THEN <<>> ELSE flat[i]]
<1>1. n \in Nat /\ seqs \in [1..n -> T]
  OBVIOUS
<1>0. <<>> \in T
  OBVIOUS
<1>2. \A i \in 1..n : seqs[i] \in T
  BY <1>1
<1>3. g \in [1..n -> [T -> T]]
  <2>1. \A i \in 1..n : \A t \in T : t \o seqs[i] \in T
    BY <1>2
  <2> HIDE DEF n, T
  <2>2. \A i \in 1..n : [t \in T |-> IF i = 1 THEN seqs[1] ELSE t \o seqs[i]] \in [T -> T]
    BY <1>1, <1>2, <2>1
  <2> QED BY <2>2
<1>4. PICK s \in StepsOf(T, <<>>, n, g) : TRUE
  <2> HIDE DEF n, g, T
  <2> QED BY <1>0, <1>1, <1>3, StepsTaken
<1>5. \E f : IsFlat(f)
  <2> DEFINE f == [i \in 1..n |-> s[i]]
  <2>1. s \in [0..n -> T] /\ s[0] = <<>> /\ \A i \in 1..n : s[i] = g[i][s[i - 1]]
    <3> HIDE DEF g, n, T
    <3> QED BY <1>4 DEF StepsOf
  <2>2. ASSUME NEW i \in 1..n PROVE f[i] = IF i = 1 THEN seqs[i] ELSE f[i - 1] \o seqs[i]
    <3>0. i - 1 \in 0..n
      BY <1>1
    <3>1. s[i - 1] \in T /\ s[i] = g[i][s[i - 1]]
      <4> HIDE DEF g, T, n
      <4> QED BY <2>1, <3>0
    <3>2. s[i] = IF i = 1 THEN seqs[1] ELSE s[i - 1] \o seqs[i]
      <4> HIDE DEF T, n
      <4> QED BY <3>1
    <3>3. i # 1 => i - 1 \in 1..n
      BY <1>1
    <3> QED BY <3>2, <3>3
  <2>3. IsFlat(f)
    <3> HIDE DEF n
    <3> QED BY <2>2
  <2> QED BY <2>3
<1>6. IsFlat(flat)
  <2> HIDE DEF IsFlat
  <2> QED BY <1>5
<1>7. h[0] = <<>> /\ \A i \in 1..n : h[i] = h[i - 1] \o seqs[i]
  <2>1. ASSUME NEW i \in 1..n PROVE h[i] = h[i - 1] \o seqs[i]
    <3>1. flat[i] = IF i = 1 THEN seqs[i] ELSE flat[i - 1] \o seqs[i]
      BY <1>6
    <3>2. i \in 0..n /\ i - 1 \in 0..n /\ i # 0 /\ (i - 1 = 0 <=> i = 1)
      BY <1>1
    <3> HIDE DEF flat
    <3>3. h[i] = flat[i] /\ h[i - 1] = IF i = 1 THEN <<>> ELSE flat[i - 1]
      BY <3>2
    <3>4. seqs[i] = <<>> \o seqs[i]
      BY <1>2
    <3> QED BY <3>1, <3>3, <3>4
  <2> HIDE DEF flat
  <2>2. h[0] = <<>>
    BY <1>1
  <2> QED BY <2>1, <2>2
<1>8. \A i \in 0..n : h[i] \in T
  <2> DEFINE P == {i \in 0..n : h[i] \in T}
  <2>1. 0 \in P
    <3> HIDE DEF h, T
    <3> QED BY <1>0, <1>1, <1>7
  <2>2. ASSUME NEW i \in 1..n, i - 1 \in P PROVE i \in P
    <3> HIDE DEF h
    <3>1. h[i - 1] \in Seq(X) /\ seqs[i] \in Seq(X)
      BY <1>2, <2>2
    <3>2. h[i - 1] \o seqs[i] \in T
      BY <3>1
    <3>3. i \in 0..n
      BY <1>1
    <3>4. h[i] \in T
      <4> HIDE DEF T, n
      <4> QED BY <1>7, <3>2
    <3> QED BY <3>3, <3>4
  <2> HIDE DEF P, n
  <2>3. \A i \in 0..n : i \in P
    BY <1>1, <2>1, <2>2, Climb
  <2> QED BY <2>3 DEF P
<1>9. h \in FlattensOf(X, seqs)
  <2>1. h \in [0..n -> T]
    <3> HIDE DEF flat
    <3> QED BY <1>8
  <2> HIDE DEF h
  <2> QED BY <1>7, <2>1 DEF FlattensOf
<1>10. FlattenSeq(seqs) = h[n]
  <2>1. CASE n = 0
    <3>1. seqs = <<>>
      BY <1>1, <2>1
    <3> QED BY <1>7, <2>1, <3>1 DEF FlattenSeq
  <2>2. CASE n # 0
    <3>1. FlattenSeq(seqs) = flat[n]
      BY <2>2 DEF FlattenSeq
    <3> HIDE DEF flat
    <3> QED BY <1>1, <2>2, <3>1
  <2> QED BY <2>1, <2>2
<1> QED
  <2> HIDE DEF h
  <2> QED BY <1>9, <1>10

(***************************************************************************)
(* FlattenSeq gives the last of them.                                      *)
(***************************************************************************)
LEMMA FlattenIs ==
    ASSUME NEW X, NEW seqs \in Seq(Seq(X)), NEW h \in FlattensOf(X, seqs)
    PROVE  FlattenSeq(seqs) = h[Len(seqs)] /\ FlattenSeq(seqs) \in Seq(X)
<1>1. PICK k \in FlattensOf(X, seqs) : FlattenSeq(seqs) = k[Len(seqs)]
  BY FlattenSteps
<1>2. Len(seqs) \in Nat
  OBVIOUS
<1> DEFINE n == Len(seqs)
           P == {i \in 0..n : h[i] = k[i]}
<1>3. /\ h \in [0..n -> Seq(X)] /\ h[0] = <<>> /\ \A i \in 1..n : h[i] = h[i - 1] \o seqs[i]
      /\ k \in [0..n -> Seq(X)] /\ k[0] = <<>> /\ \A i \in 1..n : k[i] = k[i - 1] \o seqs[i]
  BY <1>1 DEF FlattensOf
<1> HIDE DEF n
<1>4. 0 \in P
  BY <1>2, <1>3 DEF n
<1>5. ASSUME NEW i \in 1..n, i - 1 \in P PROVE i \in P
  <2>1. i \in 0..n /\ h[i - 1] = k[i - 1]
    BY <1>2, <1>5 DEF n
  <2> QED BY <1>3, <2>1
<1>6. \A i \in 0..n : i \in P
  <2> HIDE DEF P
  <2> QED BY <1>2, <1>4, <1>5, Climb DEF n
<1>7. n \in 0..n
  BY <1>2 DEF n
<1>8. h[n] = k[n] /\ k[n] \in Seq(X)
  BY <1>3, <1>6, <1>7
<1> QED BY <1>1, <1>8 DEF n

(***************************************************************************)
(* No list flattens to none.                                               *)
(***************************************************************************)
LEMMA FlattenEmpty == FlattenSeq(<<>>) = <<>>
BY DEF FlattenSeq

(***************************************************************************)
(* Lists of lists in a row: their lists are flattened one after the other. *)
(***************************************************************************)
LEMMA FlattenConcat ==
    ASSUME NEW X, NEW s \in Seq(Seq(X)), NEW t \in Seq(Seq(X))
    PROVE  FlattenSeq(s \o t) = FlattenSeq(s) \o FlattenSeq(t)
<1> DEFINE m == Len(s)
           n == Len(t)
           st == s \o t
<1>1. /\ m \in Nat /\ n \in Nat /\ st \in Seq(Seq(X)) /\ Len(st) = m + n
      /\ \A i \in 1..m : st[i] = s[i]
      /\ \A i \in 1..n : st[m + i] = t[i]
      /\ \A i \in 1..n : t[i] \in Seq(X)
  OBVIOUS
<1>2. PICK h \in FlattensOf(X, st) : FlattenSeq(st) = h[Len(st)]
  BY <1>1, FlattenSteps
<1>3. PICK k \in FlattensOf(X, t) : FlattenSeq(t) = k[n]
  BY FlattenSteps
<1> HIDE DEF m, n, st
<1>4. h \in [0..(m + n) -> Seq(X)] /\ h[0] = <<>> /\ \A i \in 1..(m + n) : h[i] = h[i - 1] \o st[i]
  BY <1>1, <1>2 DEF FlattensOf
<1>5. k \in [0..n -> Seq(X)] /\ k[0] = <<>> /\ \A i \in 1..n : k[i] = k[i - 1] \o t[i]
  BY <1>3 DEF FlattensOf, n
<1> DEFINE f == [i \in 0..m |-> h[i]]
<1>6. f \in FlattensOf(X, s)
  <2>1. f \in [0..m -> Seq(X)]
    BY <1>1, <1>4
  <2>2. f[0] = <<>>
    BY <1>1, <1>4
  <2>3. ASSUME NEW i \in 1..m PROVE f[i] = f[i - 1] \o s[i]
    <3>1. i \in 1..(m + n) /\ i \in 0..m /\ i - 1 \in 0..m
      BY <1>1
    <3> QED BY <1>1, <1>4, <3>1
  <2> HIDE DEF f
  <2> QED BY <2>1, <2>2, <2>3 DEF FlattensOf, m
<1>7. FlattenSeq(s) = h[m] /\ h[m] \in Seq(X)
  <2>1. f[m] = h[m]
    BY <1>1
  <2> HIDE DEF f
  <2> QED BY <1>6, <2>1, FlattenIs DEF m
<1> DEFINE P == {i \in 0..n : h[m + i] = h[m] \o k[i]}
<1>8. 0 \in P
  <2>1. m + 0 = m /\ 0 \in 0..n
    BY <1>1
  <2>2. h[m] = h[m] \o <<>>
    BY <1>7
  <2> QED BY <1>5, <2>1, <2>2
<1>9. ASSUME NEW i \in 1..n, i - 1 \in P PROVE i \in P
  <2>1. i - 1 \in 0..n /\ i \in 0..n /\ m + i \in 1..(m + n) /\ (m + i) - 1 = m + (i - 1)
    BY <1>1
  <2>2. h[m + (i - 1)] = h[m] \o k[i - 1]
    BY <1>9
  <2>3. h[m + i] = h[m + (i - 1)] \o t[i]
    BY <1>1, <1>4, <2>1
  <2>4. k[i] = k[i - 1] \o t[i] /\ k[i - 1] \in Seq(X) /\ t[i] \in Seq(X)
    BY <1>1, <1>5, <2>1
  <2>5. (h[m] \o k[i - 1]) \o t[i] = h[m] \o (k[i - 1] \o t[i])
    <3> DEFINE a == h[m]
               b == k[i - 1]
               c == t[i]
    <3>1. a \in Seq(X) /\ b \in Seq(X) /\ c \in Seq(X)
      BY <1>7, <2>4
    <3> HIDE DEF a, b, c
    <3>2. (a \o b) \o c = a \o (b \o c)
      BY <3>1
    <3> QED BY <3>2 DEF a, b, c
  <2>6. h[m + i] = h[m] \o k[i]
    BY <2>2, <2>3, <2>4, <2>5
  <2> QED BY <2>1, <2>6
<1>10. \A i \in 0..n : i \in P
  <2> HIDE DEF P
  <2> QED BY <1>1, <1>8, <1>9, Climb
<1>11. h[m + n] = h[m] \o k[n]
  <2>1. n \in 0..n
    BY <1>1
  <2> QED BY <1>10, <2>1
<1> QED BY <1>1, <1>2, <1>3, <1>7, <1>11 DEF st

(***************************************************************************)
(* One list flattens to itself.                                            *)
(***************************************************************************)
LEMMA FlattenOne ==
    ASSUME NEW X, NEW s \in Seq(X) PROVE FlattenSeq(<<s>>) = s
BY DEF FlattenSeq

-----------------------------------------------------------------------------
(***************************************************************************)
(* What the recursion of a fold over 1..n says of the function it defines, *)
(* as far as its values have a type.                                       *)
(***************************************************************************)
Folds(iter, T, b, n, g) ==
    /\ iter[{}] = b
    /\ \A S \in SUBSET (1..n) :
          S # {} /\ iter[S \ {Max(S)}] \in T => iter[S] = g[Max(S)][iter[S \ {Max(S)}]]

(***************************************************************************)
(* The steps of a rule that end with x.                                    *)
(***************************************************************************)
StepsTo(T, b, n, g, x) == {h \in StepsOf(T, b, n, g) : h[n] = x}

(***************************************************************************)
(* What a fold over a list takes step by step.                             *)
(***************************************************************************)
LEMMA FoldTaken ==
    ASSUME NEW T, NEW b \in T, NEW n \in Nat, NEW g \in [1..n -> [T -> T]],
           NEW iter, Folds(iter, T, b, n, g)
    PROVE  StepsTo(T, b, n, g, iter[1..n]) # {}
<1> DEFINE h == [i \in 0..n |-> iter[1..i]]
           P == {i \in 0..n : iter[1..i] \in T}
<1>1. ASSUME NEW i \in 1..n, i - 1 \in P PROVE i \in P /\ iter[1..i] = g[i][iter[1..(i - 1)]]
  <2>1. i \in Nat \ {0} /\ 1..i \in SUBSET (1..n) /\ i \in 0..n /\ i - 1 \in 0..n
    OBVIOUS
  <2>2. 1..i # {} /\ Max(1..i) = i /\ (1..i) \ {Max(1..i)} = 1..(i - 1)
    BY <2>1, FirstNumbers
  <2>3. iter[1..(i - 1)] \in T
    BY <1>1
  <2>4. iter[1..i] = g[i][iter[1..(i - 1)]]
    BY <2>1, <2>2, <2>3 DEF Folds
  <2>5. iter[1..i] \in T
    BY <2>3, <2>4
  <2> QED BY <2>1, <2>4, <2>5
<1>2. 0 \in P
  BY FirstNumbers DEF Folds
<1>3. \A i \in 0..n : i \in P
  <2>1. \A i \in 1..n : i - 1 \in P => i \in P
    BY <1>1
  <2> HIDE DEF P
  <2> QED BY <1>2, <2>1, Climb
<1>4. h \in [0..n -> T]
  BY <1>3
<1>5. h[0] = b
  BY FirstNumbers DEF Folds
<1>6. \A i \in 1..n : h[i] = g[i][h[i - 1]]
  <2>1. \A i \in 1..n : i \in 0..n /\ i - 1 \in 0..n
    OBVIOUS
  <2>2. \A i \in 1..n : iter[1..i] = g[i][iter[1..(i - 1)]]
    BY <1>1, <1>3, <2>1
  <2> QED BY <2>1, <2>2
<1>7. h[n] = iter[1..n]
  OBVIOUS
<1>8. h \in StepsOf(T, b, n, g)
  <2> HIDE DEF h
  <2> QED BY <1>4, <1>5, <1>6 DEF StepsOf
<1> QED
  <2> HIDE DEF h
  <2> QED BY <1>7, <1>8 DEF StepsTo

(***************************************************************************)
(* Two lists in a row.                                                     *)
(***************************************************************************)
LEMMA InARow ==
    ASSUME NEW X, NEW s \in Seq(X), NEW t \in Seq(X)
    PROVE  /\ s \o t \in Seq(X) /\ Len(s \o t) = Len(s) + Len(t)
           /\ \A i \in 1..Len(s) : (s \o t)[i] = s[i]
           /\ \A i \in 1..Len(t) : (s \o t)[Len(s) + i] = t[i]
           /\ ToSet(s \o t) = ToSet(s) \cup ToSet(t)
<1> DEFINE m == Len(s)
           n == Len(t)
           st == s \o t
<1>1. /\ m \in Nat /\ n \in Nat /\ st \in Seq(X) /\ Len(st) = m + n
      /\ \A i \in 1..m : st[i] = s[i]
      /\ \A i \in 1..n : st[m + i] = t[i]
      /\ DOMAIN s = 1..m /\ DOMAIN t = 1..n /\ DOMAIN st = 1..(m + n)
  OBVIOUS
<1> HIDE DEF m, n, st
<1>2. \A i \in 1..(m + n) : i \in 1..m \/ (i - m \in 1..n /\ m + (i - m) = i)
  BY <1>1
<1>3. \A i \in 1..n : m + i \in 1..(m + n)
  BY <1>1
<1>5. \A i \in 1..m : i \in 1..(m + n)
  BY <1>1
<1>4. ToSet(st) = ToSet(s) \cup ToSet(t)
  <2>1. \A i \in 1..(m + n) : (\E k \in 1..m : st[i] = s[k]) \/ \E k \in 1..n : st[i] = t[k]
    BY <1>1, <1>2
  <2>2. \A k \in 1..m : \E i \in 1..(m + n) : st[i] = s[k]
    BY <1>1, <1>5
  <2>3. \A k \in 1..n : \E i \in 1..(m + n) : st[i] = t[k]
    BY <1>1, <1>3
  <2>4. ToSet(st) = {st[i] : i \in 1..(m + n)} /\ ToSet(s) = {s[i] : i \in 1..m} /\ ToSet(t) = {t[i] : i \in 1..n}
    BY <1>1 DEF ToSet
  <2> QED BY <2>1, <2>2, <2>3, <2>4
<1> QED BY <1>1, <1>4 DEF m, n, st

(***************************************************************************)
(* The list of a finite set of numbers.                                    *)
(***************************************************************************)
LEMMA AscendingIs ==
    ASSUME NEW S \in SUBSET Int, IsFiniteSet(S)
    PROVE  Ascending(S) \in Seq(Int) /\ ToSet(Ascending(S)) = S /\ Increasing(Ascending(S))
<1> DEFINE n == Cardinality(S)
           s == Ascending(S)
<1>1. /\ n \in Nat /\ s \in [1..n -> S] /\ Len(s) = n
      /\ \A x \in S : \E i \in 1..n : s[i] = x
      /\ \A i, j \in 1..n : i < j => s[i] < s[j]
  BY AscendingLists
<1> HIDE DEF n, s
<1>2. s \in [1..n -> Int] /\ DOMAIN s = 1..n
  BY <1>1
<1>3. s \in Seq(Int)
  BY <1>1, <1>2
<1>4. ToSet(s) = S
  BY <1>1, <1>2 DEF ToSet
<1>5. Increasing(s)
  BY <1>1 DEF Increasing
<1> QED BY <1>3, <1>4, <1>5 DEF s

(***************************************************************************)
(* A list has finitely many elements.                                      *)
(***************************************************************************)
LEMMA MembersFinite ==
    \A s \in Seq(Int) : ToSet(s) \in SUBSET Int /\ IsFiniteSet(ToSet(s))
<1> SUFFICES ASSUME NEW s \in Seq(Int) PROVE ToSet(s) \in SUBSET Int /\ IsFiniteSet(ToSet(s))
  OBVIOUS
<1> DEFINE S == 1..Len(s)
           T == ToSet(s)
<1>1. Len(s) \in Nat /\ DOMAIN s = S /\ s \in [S -> Int]
  OBVIOUS
<1>2. T = {s[i] : i \in S} /\ T \in SUBSET Int
  BY <1>1 DEF ToSet
<1>3. IsFiniteSet(S)
  BY <1>1, FS_Interval
<1>4. s \in Surjection(S, T)
  <2>1. s \in [S -> T] /\ \A x \in T : \E i \in S : s[i] = x
    BY <1>1, <1>2
  <2> HIDE DEF T, S
  <2> QED BY <2>1 DEF Surjection
<1>5. IsFiniteSet(T)
  <2> HIDE DEF T, S
  <2> QED BY <1>3, <1>4, FS_Surjection
<1> QED BY <1>2, <1>5

(***************************************************************************)
(* A function that never repeats itself has as many values as arguments.   *)
(***************************************************************************)
LEMMA SameSize ==
    ASSUME NEW S, IsFiniteSet(S), NEW k, DOMAIN k = S, \A x, y \in S : k[x] = k[y] => x = y
    PROVE  Cardinality({k[x] : x \in S}) = Cardinality(S)
<1> DEFINE T == {k[x] : x \in S}
           f == [x \in S |-> k[x]]
<1>1. f \in [S -> T] /\ \A x \in S : f[x] = k[x]
  OBVIOUS
<1>2. \A y \in T : \E x \in S : f[x] = y
  OBVIOUS
<1> HIDE DEF T, f
<1>3. f \in Surjection(S, T)
  BY <1>1, <1>2 DEF Surjection
<1>4. Cardinality(T) <= Cardinality(S) /\ (Cardinality(T) = Cardinality(S) <=> f \in Injection(S, T))
  BY <1>3, FS_Surjection
<1>5. f \in Injection(S, T)
  BY <1>1 DEF Injection, IsInjective
<1> QED BY <1>4, <1>5 DEF T

(***************************************************************************)
(* The positions kept of a list, in its order.                             *)
(***************************************************************************)
LEMMA AtPositionsKeeps ==
    ASSUME NEW X, NEW s \in Seq(X), NEW at \in SUBSET (1..Len(s))
    PROVE  LET t == AtPositions(s, at)
           IN  /\ t \in Seq(X) /\ Len(t) = Cardinality(at) /\ Cardinality(at) \in Nat
               /\ ToSet(t) = {s[i] : i \in at}
               /\ (\A i, j \in 1..Len(s) : s[i] = s[j] => i = j) =>
                     (\A i, j \in 1..Len(t) : t[i] = t[j] => i = j)
               /\ X \subseteq Int /\ Increasing(s) => Increasing(t)
<1> DEFINE m == Len(s)
           n == Cardinality(at)
           A == Ascending(at)
           t == AtPositions(s, at)
<1>1. m \in Nat /\ s \in [1..m -> X]
  OBVIOUS
<1>2. at \in SUBSET Int /\ IsFiniteSet(at)
  <2> HIDE DEF m
  <2>1. IsFiniteSet(1..m)
    BY <1>1, FS_Interval
  <2>2. at \in SUBSET (1..m)
    BY DEF m
  <2>3. at \in SUBSET Int
    BY <1>1, <2>2
  <2>4. IsFiniteSet(at)
    BY <2>1, <2>2, FS_Subset
  <2> QED BY <2>3, <2>4
<1>3. /\ n \in Nat /\ A \in [1..n -> at]
      /\ \A x \in at : \E i \in 1..n : A[i] = x
  BY <1>2, AscendingLists
<1>4. \A i, j \in 1..n : i < j => A[i] < A[j]
  BY <1>2, AscendingLists
<1> HIDE DEF m, n, A
<1>5. t = [i \in 1..n |-> s[A[i]]]
  BY DEF AtPositions, n, A
<1>6. t \in [1..n -> X]
  BY <1>1, <1>3, <1>5 DEF m
<1>7. t \in Seq(X) /\ Len(t) = n /\ DOMAIN t = 1..n
  <2> HIDE DEF t
  <2> QED BY <1>3, <1>6
<1>8. ToSet(t) = {s[i] : i \in at}
  <2>1. ToSet(t) = {s[A[i]] : i \in 1..n}
    <3> HIDE DEF t
    <3> QED BY <1>5, <1>7 DEF ToSet
  <2> QED BY <1>3, <2>1
<1>9. ASSUME \A i, j \in 1..m : s[i] = s[j] => i = j, NEW i \in 1..n, NEW j \in 1..n, t[i] = t[j]
      PROVE  i = j
  <2>1. A[i] \in 1..m /\ A[j] \in 1..m /\ s[A[i]] = s[A[j]]
    <3> HIDE DEF t
    <3> QED BY <1>3, <1>5, <1>9 DEF m
  <2>2. A[i] = A[j]
    BY <1>9, <2>1
  <2>3. ~(i < j) /\ ~(j < i)
    BY <1>1, <1>4, <2>1, <2>2
  <2> QED BY <1>3, <2>3
<1>10. ASSUME X \subseteq Int, Increasing(s) PROVE Increasing(t)
  <2> SUFFICES ASSUME NEW i \in 1..n, NEW j \in 1..n, i < j PROVE t[i] < t[j]
    BY <1>7 DEF Increasing
  <2>1. A[i] \in 1..m /\ A[j] \in 1..m /\ A[i] < A[j]
    BY <1>3, <1>4 DEF m
  <2>2. s[A[i]] < s[A[j]]
    BY <1>10, <2>1 DEF Increasing, m
  <2> HIDE DEF t
  <2> QED BY <1>5, <2>2
<1> QED
  <2> HIDE DEF t
  <2> QED BY <1>3, <1>7, <1>8, <1>9, <1>10 DEF t, m, n

-----------------------------------------------------------------------------
(***************************************************************************)
(* The rule g gives for an element depends on what it has for those less   *)
(* deep only.                                                              *)
(***************************************************************************)
LooksDown(Q, depth, T, g) ==
    \A d, e \in [Q -> T] : \A f \in Q :
        (\A h \in Q : depth[h] < depth[f] => d[h] = e[h]) => g[d][f] = g[e][f]

(***************************************************************************)
(* The functions that satisfy a recursion.                                 *)
(***************************************************************************)
FixedPoints(Q, T, g) == {e \in [Q -> T] : g[e] = e}

(***************************************************************************)
(* A definition by recursion over a depth defines a function.              *)
(***************************************************************************)
LEMMA Recursion ==
    ASSUME NEW Q, NEW depth \in [Q -> Nat], NEW T, T # {},
           NEW g \in [[Q -> T] -> [Q -> T]], LooksDown(Q, depth, T, g)
    PROVE  FixedPoints(Q, T, g) # {}
<1> DEFINE F == [Q -> T]
           b == [f \in Q |-> CHOOSE t \in T : TRUE]
           next == [n \in Nat |-> g]
<1>1. b \in F
  OBVIOUS
<1>2. next \in [Nat -> [F -> F]] /\ \A n \in Nat : next[n] = g
  OBVIOUS
<1>3. PICK s \in [Nat -> F] : s[0] = b /\ \A n \in Nat : s[n + 1] = g[s[n]]
  <2> HIDE DEF next, b, F
  <2>1. IteratesOf(F, b, next) # {}
    BY <1>1, <1>2, Iterates
  <2>2. PICK s \in IteratesOf(F, b, next) : TRUE
    BY <2>1
  <2>3. s \in [Nat -> F] /\ s[0] = b /\ \A n \in Nat : s[n + 1] = next[n][s[n]]
    BY <2>2 DEF IteratesOf
  <2> QED BY <1>2, <2>3
<1> HIDE DEF b, next
<1>4. \A d, e \in F : \A f \in Q :
          (\A h \in Q : depth[h] < depth[f] => d[h] = e[h]) => g[d][f] = g[e][f]
  BY DEF LooksDown
<1>5. \A n \in Nat : s[n] \in F
  BY <1>3
<1> HIDE DEF F
<1> DEFINE Still == {n \in Nat : \A f \in Q : depth[f] < n => s[n + 1][f] = s[n][f]}
<1>6. Still = Nat
  <2>1. 0 \in Still
    OBVIOUS
  <2>2. ASSUME NEW n \in Still PROVE n + 1 \in Still
    <3>1. n \in Nat /\ n + 1 \in Nat
      OBVIOUS
    <3>2. ASSUME NEW f \in Q, depth[f] < n + 1 PROVE s[(n + 1) + 1][f] = s[n + 1][f]
      <4>1. \A h \in Q : depth[h] < depth[f] => s[n + 1][h] = s[n][h]
        <5>1. \A h \in Q : depth[h] < depth[f] => depth[h] < n
          BY <3>1, <3>2
        <5> QED BY <5>1
      <4>2. s[n] \in F /\ s[n + 1] \in F
        BY <1>5, <3>1
      <4>3. g[s[n + 1]][f] = g[s[n]][f]
        <5> HIDE DEF Still
        <5> QED BY <1>4, <4>1, <4>2
      <4>4. s[(n + 1) + 1] = g[s[n + 1]] /\ s[n + 1] = g[s[n]]
        BY <1>3, <3>1
      <4> QED BY <4>3, <4>4
    <3> QED BY <3>1, <3>2
  <2> HIDE DEF Still
  <2>3. Still \in SUBSET Nat
    BY DEF Still
  <2> QED BY <2>1, <2>2, <2>3, NatSetInduction
<1>7. ASSUME NEW f \in Q, NEW m \in Nat, depth[f] < m PROVE s[m][f] = s[depth[f] + 1][f]
  <2> DEFINE low == depth[f] + 1
             Same == {j \in Nat : s[low + j][f] = s[low][f]}
  <2>0. low \in Nat /\ depth[f] < low /\ m - low \in Nat /\ low + (m - low) = m
    BY <1>7
  <2>1. 0 \in Same
    <3>1. low + 0 = low
      BY <2>0
    <3> HIDE DEF low
    <3> QED BY <3>1
  <2>2. ASSUME NEW j \in Same PROVE j + 1 \in Same
    <3>1. low + j \in Nat /\ low + (j + 1) = (low + j) + 1 /\ depth[f] < low + j /\ j + 1 \in Nat
      BY <2>0
    <3> HIDE DEF low
    <3>2. low + j \in Still
      BY <1>6, <3>1
    <3>3. s[(low + j) + 1][f] = s[low + j][f]
      BY <3>1, <3>2
    <3> QED BY <3>1, <3>3
  <2>3. Same = Nat
    <3> HIDE DEF Same
    <3>1. Same \in SUBSET Nat
      BY DEF Same
    <3> QED BY <2>1, <2>2, <3>1, NatSetInduction
  <2>4. m - low \in Same
    <3> HIDE DEF Same
    <3> QED BY <2>0, <2>3
  <2> HIDE DEF low
  <2>5. s[m][f] = s[low][f]
    BY <2>0, <2>4
  <2> QED BY <2>5 DEF low
<1> HIDE DEF Still
<1> DEFINE e == [f \in Q |-> s[depth[f] + 1][f]]
<1>8. e \in F
  <2>1. \A f \in Q : depth[f] + 1 \in Nat
    OBVIOUS
  <2>2. \A f \in Q : s[depth[f] + 1] \in F
    BY <1>5, <2>1
  <2>3. \A f \in Q : s[depth[f] + 1][f] \in T
    BY <2>2 DEF F
  <2> QED BY <2>3 DEF F
<1>9. ASSUME NEW f \in Q PROVE g[e][f] = e[f]
  <2>1. depth[f] \in Nat /\ s[depth[f]] \in F /\ s[depth[f] + 1] = g[s[depth[f]]]
    BY <1>3, <1>5
  <2>2. \A h \in Q : depth[h] < depth[f] => e[h] = s[depth[f]][h]
    BY <1>7, <2>1
  <2>3. e[f] = s[depth[f] + 1][f]
    OBVIOUS
  <2> HIDE DEF e
  <2>4. g[e][f] = g[s[depth[f]]][f]
    BY <1>4, <1>8, <2>1, <2>2
  <2> QED BY <2>1, <2>3, <2>4
<1>10. g[e] = e
  <2> HIDE DEF e
  <2>1. g[e] \in F
    BY <1>8 DEF F
  <2> QED BY <1>8, <1>9, <2>1 DEF F
<1>11. e \in FixedPoints(Q, T, g)
  <2> HIDE DEF e
  <2> QED BY <1>8, <1>10 DEF FixedPoints, F
<1> QED BY <1>11

(***************************************************************************)
(* What holds wherever it holds below, holds everywhere.                   *)
(***************************************************************************)
LEMMA DepthInduction ==
    ASSUME NEW Q, NEW depth \in [Q -> Nat], NEW P \in SUBSET Q,
           \A f \in Q : (\A h \in Q : depth[h] < depth[f] => h \in P) => f \in P
    PROVE  P = Q
<1> DEFINE S == {n \in Nat : \A f \in Q : depth[f] < n => f \in P}
<1>1. 0 \in S
  OBVIOUS
<1>2. ASSUME NEW n \in S PROVE n + 1 \in S
  <2>1. n \in Nat /\ n + 1 \in Nat
    OBVIOUS
  <2>2. ASSUME NEW f \in Q, depth[f] < n + 1 PROVE f \in P
    <3>1. \A h \in Q : depth[h] < depth[f] => depth[h] < n
      BY <2>1, <2>2
    <3> QED BY <2>1, <3>1
  <2> QED BY <2>1, <2>2
<1>3. S = Nat
  <2> HIDE DEF S
  <2>1. S \in SUBSET Nat
    BY DEF S
  <2> QED BY <1>1, <1>2, <2>1, NatSetInduction
<1>4. ASSUME NEW f \in Q PROVE f \in P
  <2>1. depth[f] + 1 \in S
    BY <1>3
  <2>2. depth[f] < depth[f] + 1
    OBVIOUS
  <2> QED BY <2>1, <2>2
<1> QED BY <1>4
=============================================================================
