---------------------------- MODULE FiltersProofs ----------------------------
(***************************************************************************)
(* Proofs about InvertedIndex and Filters, for any pairs, batches and      *)
(* filters, however deep: what the index stores is what was committed, and *)
(* a filter finds what it means.                                           *)
(***************************************************************************)
EXTENDS Filters, Induction

(***************************************************************************)
(* A list that begins with one and goes on with another is their           *)
(* concatenation.                                                          *)
(***************************************************************************)
LEMMA ConcatIs ==
    ASSUME NEW X, NEW s \in Seq(X), NEW t \in Seq(X), NEW u \in Seq(X), Len(u) = Len(s) + Len(t),
           \A i \in 1..Len(s) : u[i] = s[i],
           \A i \in 1..Len(t) : u[Len(s) + i] = t[i]
    PROVE  u = s \o t
<1>1. \A i \in 1..(Len(s) + Len(t)) : i \notin 1..Len(s) => i - Len(s) \in 1..Len(t) /\ Len(s) + (i - Len(s)) = i
  OBVIOUS
<1>2. ASSUME NEW i \in 1..(Len(s) + Len(t)) PROVE u[i] = (s \o t)[i]
  <2>1. CASE i \in 1..Len(s)
    BY <2>1
  <2>2. CASE i \notin 1..Len(s)
    <3>1. u[Len(s) + (i - Len(s))] = t[i - Len(s)]
      BY <1>1, <2>2
    <3>2. (s \o t)[i] = t[i - Len(s)]
      BY <2>2
    <3> QED BY <1>1, <2>2, <3>1, <3>2
  <2> QED BY <2>1, <2>2
<1> DEFINE v == s \o t
           n == Len(s) + Len(t)
<1>3. v \in Seq(X) /\ Len(v) = n /\ n \in Nat
  OBVIOUS
<1>4. u \in Seq(X) /\ Len(u) = n /\ \A i \in 1..n : u[i] = v[i]
  BY <1>2
<1> HIDE DEF v, n
<1>5. u \in [1..n -> X] /\ v \in [1..n -> X]
  BY <1>3, <1>4
<1>6. u = v
  BY <1>4, <1>5
<1> QED BY <1>6 DEF v

(***************************************************************************)
(* A run as the index stores it.                                           *)
(***************************************************************************)
Run == [start : Int, count : Nat]

(***************************************************************************)
(* The indices a run stands for.                                           *)
(***************************************************************************)
Expand(run) == [i \in 1..run.count |-> run.start + i - 1]

(***************************************************************************)
(* They are as many as its count.                                          *)
(***************************************************************************)
LEMMA ExpandType == \A run \in Run : Expand(run) \in Seq(Int) /\ Len(Expand(run)) = run.count
<1> SUFFICES ASSUME NEW run \in Run PROVE Expand(run) \in Seq(Int) /\ Len(Expand(run)) = run.count
  OBVIOUS
<1>1. run.start \in Int /\ run.count \in Nat
  BY DEF Run
<1>2. Expand(run) \in [1..run.count -> Int]
  BY <1>1 DEF Expand
<1> QED BY <1>1, <1>2

(***************************************************************************)
(* Runs in a row are decompressed one after the other.                     *)
(***************************************************************************)
LEMMA DecompressConcat ==
    ASSUME NEW a \in Seq(Run), NEW b \in Seq(Run)
    PROVE  /\ Decompress(a) \in Seq(Int)
           /\ Decompress(a \o b) = Decompress(a) \o Decompress(b)
<1> DEFINE Stretches(s) == [r \in DOMAIN s |-> Expand(s[r])]
<1>0. \A run \in Run : Expand(run) \in Seq(Int)
  BY ExpandType
<1>1. \A s \in Seq(Run) : Stretches(s) \in Seq(Seq(Int)) /\ Decompress(s) = FlattenSeq(Stretches(s))
  <2> SUFFICES ASSUME NEW s \in Seq(Run)
               PROVE  Stretches(s) \in Seq(Seq(Int)) /\ Decompress(s) = FlattenSeq(Stretches(s))
    OBVIOUS
  <2>1. \A run \in Run : Expand(run) \in Seq(Int)
    BY <1>0
  <2>2. DOMAIN s = 1..Len(s) /\ Len(s) \in Nat /\ \A r \in DOMAIN s : s[r] \in Run
    OBVIOUS
  <2>3. Stretches(s) \in Seq(Seq(Int))
    <3>1. \A r \in 1..Len(s) : Expand(s[r]) \in Seq(Int)
      BY <2>1, <2>2
    <3> QED BY <2>2, <3>1
  <2>4. Decompress(s) = FlattenSeq(Stretches(s))
    BY DEF Decompress, Expand
  <2> QED BY <2>3, <2>4
<1>2. Stretches(a \o b) = Stretches(a) \o Stretches(b)
  <2>1. /\ a \o b \in Seq(Run) /\ Len(a \o b) = Len(a) + Len(b)
        /\ \A i \in 1..Len(a) : (a \o b)[i] = a[i]
        /\ \A i \in 1..Len(b) : (a \o b)[Len(a) + i] = b[i]
    OBVIOUS
  <2>2. Stretches(a) \in Seq(Seq(Int)) /\ Stretches(b) \in Seq(Seq(Int)) /\ Stretches(a \o b) \in Seq(Seq(Int))
    BY <1>1, <2>1
  <2>3. \A s \in Seq(Run) : Len(Stretches(s)) = Len(s)
    <3> SUFFICES ASSUME NEW s \in Seq(Run) PROVE Len(Stretches(s)) = Len(s)
      OBVIOUS
    <3>1. DOMAIN Stretches(s) = 1..Len(s) /\ Len(s) \in Nat
      OBVIOUS
    <3>2. Stretches(s) \in Seq(Seq(Int))
      BY <1>1
    <3> HIDE DEF Stretches
    <3> QED BY <3>1, <3>2
  <2>4. \A s \in Seq(Run) : \A i \in 1..Len(s) : Stretches(s)[i] = Expand(s[i])
    OBVIOUS
  <2>5. Stretches(a \o b) \in Seq(Seq(Int)) /\ Len(Stretches(a \o b)) = Len(a) + Len(b)
    BY <2>1, <2>2, <2>3
  <2>6. \A i \in 1..Len(a) : Stretches(a \o b)[i] = Stretches(a)[i]
    <3> SUFFICES ASSUME NEW i \in 1..Len(a) PROVE Stretches(a \o b)[i] = Stretches(a)[i]
      OBVIOUS
    <3>1. i \in 1..Len(a \o b) /\ (a \o b)[i] = a[i]
      BY <2>1
    <3>2. Stretches(a \o b)[i] = Expand((a \o b)[i])
      BY <2>1, <2>4, <3>1
    <3> HIDE DEF Stretches
    <3> QED BY <2>4, <3>1, <3>2
  <2>7. \A i \in 1..Len(b) : Stretches(a \o b)[Len(a) + i] = Stretches(b)[i]
    <3> SUFFICES ASSUME NEW i \in 1..Len(b) PROVE Stretches(a \o b)[Len(a) + i] = Stretches(b)[i]
      OBVIOUS
    <3>1. Len(a) + i \in 1..Len(a \o b) /\ (a \o b)[Len(a) + i] = b[i]
      BY <2>1
    <3>2. Stretches(a \o b)[Len(a) + i] = Expand((a \o b)[Len(a) + i])
      BY <2>1, <2>4, <3>1
    <3> HIDE DEF Stretches
    <3> QED BY <2>4, <3>1, <3>2
  <2> DEFINE pa == Stretches(a)
             pb == Stretches(b)
             pab == Stretches(a \o b)
  <2>8. pa \in Seq(Seq(Int)) /\ pb \in Seq(Seq(Int)) /\ Len(pa) = Len(a) /\ Len(pb) = Len(b)
    BY <2>2, <2>3
  <2>9. pab \in Seq(Seq(Int)) /\ Len(pab) = Len(a) + Len(b)
    BY <2>5
  <2> HIDE DEF pa, pb, pab
  <2>10. pab = pa \o pb
    <3>1. \A i \in 1..Len(pa) : pab[i] = pa[i]
      BY <2>6, <2>8 DEF pab, pa
    <3>2. \A i \in 1..Len(pb) : pab[Len(pa) + i] = pb[i]
      BY <2>7, <2>8 DEF pab, pb
    <3> DEFINE X == Seq(Int)
    <3>3. pa \in Seq(X) /\ pb \in Seq(X) /\ pab \in Seq(X) /\ Len(pab) = Len(pa) + Len(pb)
      BY <2>8, <2>9
    <3> HIDE DEF X
    <3> QED BY <3>1, <3>2, <3>3, ConcatIs
  <2> QED BY <2>10 DEF pa, pb, pab
<1>3. a \o b \in Seq(Run)
  OBVIOUS
<1> HIDE DEF Stretches
<1>4. FlattenSeq(Stretches(a)) \in Seq(Int)
  <2>1. PICK h \in FlattensOf(Int, Stretches(a)) : TRUE
    BY <1>1, FlattenSteps
  <2> QED BY <1>1, <2>1, FlattenIs
<1>5. FlattenSeq(Stretches(a) \o Stretches(b)) = FlattenSeq(Stretches(a)) \o FlattenSeq(Stretches(b))
  BY <1>1, FlattenConcat
<1> QED BY <1>1, <1>2, <1>3, <1>4, <1>5

(***************************************************************************)
(* One run is decompressed to its indices.                                 *)
(***************************************************************************)
LEMMA DecompressOne == ASSUME NEW run \in Run PROVE Decompress(<<run>>) = Expand(run)
<1>1. [r \in DOMAIN <<run>> |-> Expand(<<run>>[r])] = <<Expand(run)>>
  OBVIOUS
<1>2. Expand(run) \in Seq(Int)
  BY ExpandType
<1>3. FlattenSeq(<<Expand(run)>>) = Expand(run)
  BY <1>2, FlattenOne
<1>4. Decompress(<<run>>) = FlattenSeq([r \in DOMAIN <<run>> |-> Expand(<<run>>[r])])
  BY DEF Decompress, Expand
<1> QED BY <1>1, <1>3, <1>4

(***************************************************************************)
(* No runs are decompressed to no indices.                                 *)
(***************************************************************************)
LEMMA DecompressNothing == Decompress(<<>>) = <<>>
<1>1. [r \in DOMAIN <<>> |-> Expand(<<>>[r])] = <<>>
  OBVIOUS
<1>2. Decompress(<<>>) = FlattenSeq([r \in DOMAIN <<>> |-> Expand(<<>>[r])])
  BY DEF Decompress, Expand
<1> QED BY <1>1, <1>2, FlattenEmpty

(***************************************************************************)
(* The runs after each index that compress_indices goes through.           *)
(***************************************************************************)
CompressSteps(s) ==
    {h \in [0..Len(s) -> Seq(Run)] :
        h[0] = <<>> /\ \A i \in 1..Len(s) : h[i] = Lengthen(h[i - 1], s[i])}

(***************************************************************************)
(* A step of compress_indices leaves a list of runs.                       *)
(***************************************************************************)
LEMMA LengthenType == \A runs \in Seq(Run) : \A index \in Int : Lengthen(runs, index) \in Seq(Run)
<1> SUFFICES ASSUME NEW runs \in Seq(Run), NEW index \in Int PROVE Lengthen(runs, index) \in Seq(Run)
  OBVIOUS
<1>1. [start |-> index, count |-> 1] \in Run
  BY DEF Run
<1>2. CASE runs = <<>>
  <2>1. Lengthen(runs, index) = Append(runs, [start |-> index, count |-> 1])
    BY <1>2 DEF Lengthen
  <2> QED BY <1>1, <2>1
<1>3. CASE runs # <<>>
  <2>1. Last(runs) \in Run /\ Front(runs) \in Seq(Run)
    BY <1>3 DEF Last, Front
  <2>2. [Last(runs) EXCEPT !.count = @ + 1] \in Run
    <3> DEFINE last == Last(runs)
    <3>1. last.start \in Int /\ last.count \in Nat /\ last = [start |-> last.start, count |-> last.count]
      BY <2>1 DEF Run
    <3> HIDE DEF last
    <3>2. [last EXCEPT !.count = @ + 1] = [start |-> last.start, count |-> last.count + 1]
      BY <3>1
    <3>3. [start |-> last.start, count |-> last.count + 1] \in Run
      BY <3>1 DEF Run
    <3> QED BY <3>2, <3>3 DEF last
  <2>3. /\ Append(Front(runs), [Last(runs) EXCEPT !.count = @ + 1]) \in Seq(Run)
        /\ Append(runs, [start |-> index, count |-> 1]) \in Seq(Run)
    BY <1>1, <2>1, <2>2
  <2> QED BY <2>3 DEF Lengthen
<1> QED BY <1>2, <1>3

(***************************************************************************)
(* Compress takes the indices one after the other.                         *)
(***************************************************************************)
LEMMA CompressIs ==
    ASSUME NEW s \in Seq(Int)
    PROVE  \E h \in CompressSteps(s) : Compress(s) = h[Len(s)]
<1> DEFINE n == Len(s)
           D == SUBSET (1..n)
           T == Seq(Run)
           g == [i \in 1..n |-> [t \in T |-> Lengthen(t, s[i])]]
           IsFold(f) == f = [S \in D |-> IF S = {} THEN <<>> ELSE Lengthen(f[S \ {Max(S)}], s[Max(S)])]
           iter == CHOOSE f : IsFold(f)
           h == [i \in 0..n |-> iter[1..i]]
<1>1. n \in Nat /\ DOMAIN s = 1..n /\ (\A i \in 1..n : s[i] \in Int) /\ <<>> \in T
  OBVIOUS
<1>2. \A t \in T : \A i \in 1..n : Lengthen(t, s[i]) \in T
  BY <1>1, LengthenType
<1>3. g \in [1..n -> [T -> T]]
  BY <1>2
<1>4. PICK k \in FoldsOf(T, <<>>, n, g) : TRUE
  <2> HIDE DEF n, g, T
  <2> QED BY <1>1, <1>3, FoldExists
<1>5. IsFold(k)
  <2>1. /\ k \in [D -> T]
        /\ k = [S \in D |-> IF S = {} THEN <<>> ELSE g[Max(S)][k[S \ {Max(S)}]]]
    <3> HIDE DEF g, T, n
    <3> QED BY <1>4 DEF FoldsOf
  <2>2. ASSUME NEW S \in D, S # {} PROVE g[Max(S)][k[S \ {Max(S)}]] = Lengthen(k[S \ {Max(S)}], s[Max(S)])
    <3>1. Max(S) \in 1..n
      <4> HIDE DEF n
      <4> QED BY <1>1, <2>2, GreatestOf
    <3>2. k[S \ {Max(S)}] \in T
      BY <2>1
    <3> QED BY <3>1, <3>2
  <2>3. \A S \in D : k[S] = IF S = {} THEN <<>> ELSE g[Max(S)][k[S \ {Max(S)}]]
    <3> HIDE DEF g
    <3> QED BY <2>1
  <2>4. \A S \in D : k[S] = IF S = {} THEN <<>> ELSE Lengthen(k[S \ {Max(S)}], s[Max(S)])
    <3> HIDE DEF g
    <3> QED BY <2>2, <2>3
  <2> HIDE DEF D, g, T
  <2> QED BY <2>1, <2>4
<1>6. IsFold(iter)
  <2> HIDE DEF IsFold
  <2> QED BY <1>5
<1>7. \A S \in D : iter[S] = IF S = {} THEN <<>> ELSE Lengthen(iter[S \ {Max(S)}], s[Max(S)])
  <2> HIDE DEF iter
  <2> QED BY <1>6
<1> HIDE DEF g
<1>8. Compress(s) = iter[1..n]
  BY <1>1 DEF Compress, FoldLeft, MapThenFoldSet
<1> HIDE DEF iter
<1>9. iter[1..0] = <<>>
  BY <1>7, FirstNumbers
<1>10. ASSUME NEW i \in 1..n PROVE iter[1..i] = Lengthen(iter[1..(i - 1)], s[i])
  <2>1. i \in Nat \ {0} /\ 1..i \in D
    BY <1>1
  <2>2. 1..i # {} /\ Max(1..i) = i /\ (1..i) \ {Max(1..i)} = 1..(i - 1)
    BY <2>1, FirstNumbers
  <2> QED BY <1>7, <2>1, <2>2
<1> DEFINE P == {i \in 0..n : iter[1..i] \in T}
<1>11. 0 \in P
  <2>1. 0 \in 0..n
    BY <1>1
  <2>2. iter[1..0] \in T
    BY <1>1, <1>9
  <2> HIDE DEF n, T
  <2> QED BY <2>1, <2>2
<1>12. ASSUME NEW i \in 1..n, i - 1 \in P PROVE i \in P
  <2>1. i \in 0..n
    BY <1>1
  <2>2. iter[1..(i - 1)] \in T
    BY <1>12
  <2> QED BY <1>2, <1>10, <2>1, <2>2
<1>13. \A i \in 0..n : i \in P
  <2> HIDE DEF P, n
  <2> QED BY <1>1, <1>11, <1>12, Climb
<1>14. h \in CompressSteps(s)
  <2>1. h \in [0..n -> T]
    BY <1>13
  <2>2. h[0] = <<>>
    BY <1>1, <1>9
  <2>3. \A i \in 1..n : h[i] = Lengthen(h[i - 1], s[i])
    <3>1. \A i \in 1..n : i \in 0..n /\ i - 1 \in 0..n
      BY <1>1
    <3> QED BY <1>10, <3>1
  <2> HIDE DEF h
  <2> QED BY <2>1, <2>2, <2>3 DEF CompressSteps
<1>15. h[n] = Compress(s)
  BY <1>1, <1>8
<1> QED
  <2> HIDE DEF h
  <2> QED BY <1>14, <1>15

(***************************************************************************)
(* A run has a start and a count.                                          *)
(***************************************************************************)
LEMMA RunShape ==
    \A run \in Run : /\ run.start \in Int /\ run.count \in Nat
                     /\ run = [start |-> run.start, count |-> run.count]
BY DEF Run

(***************************************************************************)
(* A list that is not empty is its front and its last element.             *)
(***************************************************************************)
LEMMA FrontAndLast ==
    ASSUME NEW X, NEW s \in Seq(X), s # <<>>
    PROVE  /\ Len(s) \in Nat \ {0} /\ Front(s) \in Seq(X) /\ Len(Front(s)) = Len(s) - 1
           /\ \A i \in 1..(Len(s) - 1) : Front(s)[i] = s[i]
           /\ Last(s) = s[Len(s)] /\ Last(s) \in X /\ s = Front(s) \o <<Last(s)>>
<1> DEFINE n == Len(s)
           front == Front(s)
           last == Last(s)
<1>1. n \in Nat \ {0} /\ s \in [1..n -> X]
  OBVIOUS
<1>2. front = [i \in 1..(n - 1) |-> s[i]] /\ last = s[n]
  <2>1. front = SubSeq(s, 1, n - 1)
    BY DEF Front
  <2>2. SubSeq(s, 1, n - 1) = [i \in 1..(n - 1) |-> s[i]]
    BY <1>1
  <2> QED BY <2>1, <2>2 DEF Last
<1> HIDE DEF front, last, n
<1>3. front \in [1..(n - 1) -> X] /\ last \in X /\ n - 1 \in Nat
  BY <1>1, <1>2
<1>4. front \in Seq(X) /\ Len(front) = n - 1
  BY <1>3
<1>5. s = front \o <<last>>
  <2>1. <<last>> \in Seq(X) /\ Len(<<last>>) = 1 /\ Len(s) = Len(front) + Len(<<last>>)
    BY <1>1, <1>3, <1>4 DEF n
  <2>2. \A i \in 1..Len(front) : s[i] = front[i]
    BY <1>2, <1>4
  <2>3. \A i \in 1..Len(<<last>>) : s[Len(front) + i] = <<last>>[i]
    <3>1. \A i \in 1..1 : i = 1
      OBVIOUS
    <3>2. s[Len(front) + 1] = last
      BY <1>1, <1>2, <1>4
    <3> QED BY <2>1, <3>1, <3>2
  <2> QED BY <1>4, <2>1, <2>2, <2>3, ConcatIs
<1> QED BY <1>1, <1>2, <1>3, <1>4, <1>5 DEF n, front, last

(***************************************************************************)
(* An index taken adds itself to what the runs stand for.                  *)
(***************************************************************************)
LEMMA LengthenAdds ==
    ASSUME NEW runs \in Seq(Run), NEW index \in Int
    PROVE  Decompress(Lengthen(runs, index)) = Append(Decompress(runs), index)
<1> DEFINE one == [start |-> index, count |-> 1]
<1>1. one \in Run /\ Expand(one) = <<index>>
  <2>1. one \in Run
    BY DEF Run
  <2>2. Expand(one) = [i \in 1..1 |-> index + i - 1]
    BY DEF Expand
  <2>3. \A i \in 1..1 : index + i - 1 = index
    OBVIOUS
  <2>4. Expand(one) = [i \in 1..1 |-> index]
    BY <2>2, <2>3
  <2> QED BY <2>1, <2>4
<1> HIDE DEF one
<1>2. Decompress(runs) \in Seq(Int)
  BY DecompressConcat
<1>3. CASE Lengthen(runs, index) = Append(runs, one)
  <2>1. <<one>> \in Seq(Run) /\ Append(runs, one) = runs \o <<one>>
    BY <1>1
  <2>2. Decompress(runs \o <<one>>) = Decompress(runs) \o Decompress(<<one>>)
    BY <2>1, DecompressConcat
  <2>3. Decompress(<<one>>) = <<index>>
    BY <1>1, DecompressOne
  <2>4. Decompress(runs) \o <<index>> = Append(Decompress(runs), index)
    <3> DEFINE d == Decompress(runs)
    <3>1. d \in Seq(Int)
      BY <1>2
    <3> HIDE DEF d
    <3>2. d \o <<index>> = Append(d, index)
      BY <3>1
    <3> QED BY <3>2 DEF d
  <2> QED BY <1>3, <2>1, <2>2, <2>3, <2>4
<1>4. CASE runs # <<>> /\ index = Last(runs).start + Last(runs).count
  <2> DEFINE front == Front(runs)
             last == Last(runs)
             more == [last EXCEPT !.count = @ + 1]
  <2>1. front \in Seq(Run) /\ last \in Run /\ runs = front \o <<last>>
    BY <1>4, FrontAndLast
  <2>2. Lengthen(runs, index) = Append(front, more)
    BY <1>4 DEF Lengthen
  <2> HIDE DEF front
  <2>3. last.start \in Int /\ last.count \in Nat /\ last = [start |-> last.start, count |-> last.count]
    BY <2>1, RunShape
  <2>4. index = last.start + last.count
    BY <1>4
  <2> HIDE DEF last
  <2>5. more = [start |-> last.start, count |-> last.count + 1]
    BY <2>3
  <2>6. more \in Run
    BY <2>3, <2>5 DEF Run
  <2>7. Expand(more) = Append(Expand(last), index)
    <3> DEFINE e == Expand(last)
    <3>1. e \in Seq(Int) /\ Len(e) = last.count
      BY <2>1, ExpandType
    <3>2. \A i \in 1..last.count : e[i] = last.start + i - 1
      BY DEF Expand
    <3>3. Expand(more) = [i \in 1..(last.count + 1) |-> last.start + i - 1]
      BY <2>5 DEF Expand
    <3> DEFINE c == last.count
               b == last.start
    <3>4. c \in Nat /\ b \in Int /\ index = b + c
      BY <2>3, <2>4
    <3>5. Len(e) = c /\ (\A i \in 1..c : e[i] = b + i - 1) /\ Expand(more) = [i \in 1..(c + 1) |-> b + i - 1]
      BY <3>1, <3>2, <3>3
    <3> HIDE DEF e, c, b
    <3>6. Append(e, index) \in Seq(Int) /\ Len(Append(e, index)) = c + 1
      BY <3>1, <3>5
    <3>7. ASSUME NEW i \in 1..(c + 1) PROVE Append(e, index)[i] = b + i - 1
      <4>1. CASE i \in 1..c
        BY <3>1, <3>5, <4>1
      <4>2. CASE i = c + 1
        <5>1. Append(e, index)[c + 1] = index
          BY <3>1, <3>5
        <5>2. b + (c + 1) - 1 = index
          BY <3>4
        <5> QED BY <4>2, <5>1, <5>2
      <4>3. i \in 1..c \/ i = c + 1
        BY <3>4
      <4> QED BY <4>1, <4>2, <4>3
    <3>8. Append(e, index) = [i \in 1..(c + 1) |-> b + i - 1]
      <4> DEFINE longer == Append(e, index)
      <4>1. longer \in Seq(Int) /\ Len(longer) = c + 1 /\ \A i \in 1..(c + 1) : longer[i] = b + i - 1
        BY <3>6, <3>7
      <4> HIDE DEF longer
      <4>2. longer = [i \in 1..(c + 1) |-> b + i - 1]
        BY <4>1
      <4> QED BY <4>2 DEF longer
    <3> QED BY <3>5, <3>8 DEF e
  <2> HIDE DEF more
  <2>8. /\ Decompress(front) \in Seq(Int)
        /\ Decompress(front \o <<last>>) = Decompress(front) \o Decompress(<<last>>)
    <3>1. <<last>> \in Seq(Run)
      BY <2>1
    <3> QED BY <2>1, <3>1, DecompressConcat
  <2>9. Decompress(front \o <<more>>) = Decompress(front) \o Decompress(<<more>>)
    <3>1. <<more>> \in Seq(Run)
      BY <2>6
    <3> QED BY <2>1, <3>1, DecompressConcat
  <2>10. Append(front, more) = front \o <<more>>
    BY <2>1, <2>6
  <2>11. Decompress(<<last>>) = Expand(last) /\ Decompress(<<more>>) = Expand(more)
    BY <2>1, <2>6, DecompressOne
  <2>12. Expand(last) \in Seq(Int)
    BY <2>1, ExpandType
  <2> DEFINE d == Decompress(front)
             e == Expand(last)
  <2>13. d \o Append(e, index) = Append(d \o e, index)
    <3>1. d \in Seq(Int) /\ e \in Seq(Int)
      BY <2>8, <2>12
    <3> HIDE DEF d, e
    <3> QED BY <3>1
  <2> QED BY <2>1, <2>2, <2>7, <2>8, <2>9, <2>10, <2>11, <2>13
<1> QED BY <1>3, <1>4 DEF Lengthen, one

(***************************************************************************)
(* No run is empty, and none touches or overlaps one that follows.         *)
(***************************************************************************)
Separated(runs) ==
    /\ \A r \in 1..Len(runs) : runs[r].count >= 1
    /\ \A r, q \in 1..Len(runs) : r < q => runs[r].start + runs[r].count < runs[q].start

(***************************************************************************)
(* The last index of the last run.                                         *)
(***************************************************************************)
EndOf(runs) == runs[Len(runs)].start + runs[Len(runs)].count - 1

(***************************************************************************)
(* An index past the end of the last run keeps the runs apart.             *)
(***************************************************************************)
LEMMA LengthenSeparates ==
    ASSUME NEW runs \in Seq(Run), NEW index \in Int, Separated(runs),
           runs # <<>> => index > EndOf(runs)
    PROVE  LET longer == Lengthen(runs, index)
           IN  Separated(longer) /\ longer # <<>> /\ EndOf(longer) = index
<1> DEFINE n == Len(runs)
           longer == Lengthen(runs, index)
           one == [start |-> index, count |-> 1]
<1>1. n \in Nat /\ \A r \in 1..n : runs[r] \in Run /\ runs[r].start \in Int /\ runs[r].count \in Nat
  BY RunShape
<1>2. /\ \A r \in 1..n : runs[r].count >= 1
      /\ \A r, q \in 1..n : r < q => runs[r].start + runs[r].count < runs[q].start
  BY DEF Separated
<1>3. n # 0 => index > runs[n].start + runs[n].count - 1
  BY DEF EndOf
<1>4. runs = <<>> <=> n = 0
  OBVIOUS
<1> HIDE DEF n
<1>5. CASE n = 0
  <2>1. longer = <<one>>
    BY <1>4, <1>5 DEF Lengthen
  <2> HIDE DEF longer
  <2>2. Len(longer) = 1 /\ longer[1].start = index /\ longer[1].count = 1
    BY <2>1
  <2>3. \A r \in 1..1 : r = 1
    OBVIOUS
  <2> QED BY <2>1, <2>2, <2>3 DEF Separated, EndOf, longer
<1>6. CASE n # 0 /\ index = runs[n].start + runs[n].count
  <2> DEFINE more == [runs[n] EXCEPT !.count = @ + 1]
  <2>1. longer = Append(Front(runs), more)
    BY <1>4, <1>6 DEF Lengthen, Last, n
  <2>2. more.start = runs[n].start /\ more.count = runs[n].count + 1
    <3>1. runs[n] \in Run
      BY <1>1, <1>6
    <3> QED BY <3>1 DEF Run
  <2> HIDE DEF more, longer
  <2>3. Len(longer) = n /\ longer[n] = more /\ \A r \in 1..(n - 1) : longer[r] = runs[r]
    <3>1. /\ Front(runs) \in Seq(Run) /\ Len(Front(runs)) = n - 1
          /\ \A i \in 1..(n - 1) : Front(runs)[i] = runs[i]
      BY <1>4, <1>6, FrontAndLast DEF n
    <3> QED BY <1>1, <2>1, <3>1
  <2>4. \A r \in 1..n : longer[r].start = runs[r].start /\ longer[r].count >= 1
    <3> SUFFICES ASSUME NEW r \in 1..n PROVE longer[r].start = runs[r].start /\ longer[r].count >= 1
      OBVIOUS
    <3>1. CASE r = n
      BY <1>1, <1>6, <2>2, <2>3, <3>1
    <3>2. CASE r # n
      <4>1. r \in 1..(n - 1)
        BY <1>1, <3>2
      <4> QED BY <1>2, <2>3, <4>1
    <3> QED BY <3>1, <3>2
  <2>5. \A r, q \in 1..n : r < q => longer[r].start + longer[r].count < longer[q].start
    <3> SUFFICES ASSUME NEW r \in 1..n, NEW q \in 1..n, r < q
                 PROVE  longer[r].start + longer[r].count < longer[q].start
      OBVIOUS
    <3>1. r \in 1..(n - 1)
      BY <1>1
    <3>2. longer[r] = runs[r]
      BY <2>3, <3>1
    <3> QED BY <1>2, <2>4, <3>2
  <2>6. longer[n].start + longer[n].count - 1 = index
    <3>1. n \in 1..n
      BY <1>1, <1>6
    <3>2. runs[n].start \in Int /\ runs[n].count \in Nat
      BY <1>1, <3>1
    <3>3. longer[n].start = runs[n].start /\ longer[n].count = runs[n].count + 1
      BY <2>2, <2>3
    <3> QED BY <1>6, <3>2, <3>3
  <2>7. longer # <<>>
    BY <1>6, <2>3
  <2> QED BY <2>3, <2>4, <2>5, <2>6, <2>7 DEF Separated, EndOf, longer
<1>7. CASE n # 0 /\ index # runs[n].start + runs[n].count
  <2>1. longer = Append(runs, one)
    BY <1>4, <1>7 DEF Lengthen, Last, n
  <2>2. one.start = index /\ one.count = 1
    OBVIOUS
  <2> HIDE DEF longer, one
  <2>3. Len(longer) = n + 1 /\ longer[n + 1] = one /\ \A r \in 1..n : longer[r] = runs[r]
    BY <1>1, <2>1 DEF n
  <2>4. index > runs[n].start + runs[n].count
    <3>1. n \in 1..n
      BY <1>1, <1>7
    <3>2. runs[n].start \in Int /\ runs[n].count \in Nat
      BY <1>1, <3>1
    <3> QED BY <1>3, <1>7, <3>2
  <2>5. \A r \in 1..(n + 1) : r \in 1..n \/ r = n + 1
    BY <1>1
  <2>6. \A r \in 1..(n + 1) : longer[r].count >= 1
    BY <1>1, <1>2, <2>2, <2>3, <2>5
  <2>7. ASSUME NEW r \in 1..(n + 1), NEW q \in 1..(n + 1), r < q
        PROVE  longer[r].start + longer[r].count < longer[q].start
    <3>1. r \in 1..n
      BY <1>1, <2>7
    <3>2. CASE q \in 1..n
      BY <1>2, <2>3, <2>7, <3>1, <3>2
    <3>3. CASE q = n + 1
      <4>1. runs[r].start + runs[r].count < index
        <5>1. CASE r = n
          BY <1>1, <2>4, <5>1, <3>1
        <5>2. CASE r < n
          <6>1. n \in 1..n /\ runs[r].start + runs[r].count < runs[n].start
            BY <1>1, <1>2, <1>7, <3>1, <5>2
          <6>2. runs[n].count \in Nat /\ runs[n].start \in Int /\ runs[r].start \in Int /\ runs[r].count \in Nat
            BY <1>1, <3>1, <6>1
          <6> DEFINE x == runs[n].start
                     y == runs[n].count
                     z == runs[r].start + runs[r].count
          <6>3. x \in Int /\ y \in Nat /\ z \in Int /\ index > x + y /\ z < x
            BY <2>4, <6>1, <6>2
          <6> HIDE DEF x, y, z
          <6>4. z < index
            BY <6>3
          <6> QED BY <6>4 DEF z
        <5> QED BY <1>1, <3>1, <5>1, <5>2
      <4> QED BY <2>2, <2>3, <3>1, <3>3, <4>1
    <3> QED BY <2>5, <3>2, <3>3
  <2>8. longer[n + 1].start + longer[n + 1].count - 1 = index
    BY <2>2, <2>3
  <2>9. longer # <<>>
    BY <1>1, <2>3
  <2> QED BY <2>3, <2>6, <2>7, <2>8, <2>9 DEF Separated, EndOf, longer
<1> QED BY <1>5, <1>6, <1>7

(***************************************************************************)
(* Decompressing undoes compressing, and the runs of an increasing list    *)
(* are as few as they can be.                                              *)
(***************************************************************************)
LEMMA CompressKeeps ==
    ASSUME NEW s \in Seq(Int)
    PROVE  /\ Compress(s) \in Seq(Run) /\ Decompress(Compress(s)) = s
           /\ Increasing(s) => Separated(Compress(s))
<1> DEFINE n == Len(s)
<1>1. n \in Nat /\ s \in [1..n -> Int]
  OBVIOUS
<1>2. PICK h \in CompressSteps(s) : Compress(s) = h[n]
  BY CompressIs
<1> HIDE DEF n
<1>3. h \in [0..n -> Seq(Run)] /\ h[0] = <<>> /\ \A i \in 1..n : h[i] = Lengthen(h[i - 1], s[i])
  BY <1>2 DEF CompressSteps, n
<1> DEFINE d(i) == Decompress(h[i])
           P == {i \in 0..n : d(i) \in Seq(Int) /\ Len(d(i)) = i /\ \A j \in 1..i : d(i)[j] = s[j]}
           Q == {i \in 0..n : Separated(h[i]) /\ (i # 0 => h[i] # <<>> /\ EndOf(h[i]) = s[i])}
<1>4. n \in 0..n /\ 0 \in 0..n
  BY <1>1
<1>5. 0 \in P
  <2>1. d(0) = <<>>
    BY <1>3, DecompressNothing
  <2> HIDE DEF d
  <2>2. d(0) \in Seq(Int) /\ Len(d(0)) = 0
    <3>1. <<>> \in Seq(Int) /\ Len(<<>>) = 0
      OBVIOUS
    <3> QED BY <2>1, <3>1
  <2> QED BY <1>4, <2>2
<1>6. ASSUME NEW i \in 1..n, i - 1 \in P PROVE i \in P
  <2>1. i \in 0..n /\ i - 1 \in 0..n /\ s[i] \in Int
    BY <1>1
  <2>2. h[i - 1] \in Seq(Run)
    BY <1>3, <2>1
  <2>3. d(i) = Append(d(i - 1), s[i])
    BY <1>3, <2>1, <2>2, LengthenAdds
  <2> HIDE DEF d
  <2>4. d(i - 1) \in Seq(Int) /\ Len(d(i - 1)) = i - 1 /\ \A j \in 1..(i - 1) : d(i - 1)[j] = s[j]
    BY <1>6
  <2>5. d(i) \in Seq(Int) /\ Len(d(i)) = i
    BY <2>1, <2>3, <2>4
  <2>6. ASSUME NEW j \in 1..i PROVE d(i)[j] = s[j]
    <3>1. j \in 1..(i - 1) \/ j = i
      OBVIOUS
    <3> QED BY <2>1, <2>3, <2>4, <3>1
  <2> QED BY <2>1, <2>5, <2>6
<1>7. \A i \in 0..n : i \in P
  <2> HIDE DEF P
  <2> QED BY <1>1, <1>5, <1>6, Climb
<1>8. d(n) = s
  <2>1. d(n) \in Seq(Int) /\ Len(d(n)) = n /\ \A j \in 1..n : d(n)[j] = s[j]
    <3> HIDE DEF d
    <3> QED BY <1>4, <1>7
  <2> HIDE DEF d
  <2> QED BY <2>1 DEF n
<1>9. ASSUME Increasing(s) PROVE Separated(h[n])
  <2>1. 0 \in Q
    <3>1. Separated(<<>>)
      BY DEF Separated
    <3> QED BY <1>3, <1>4, <3>1
  <2>2. ASSUME NEW i \in 1..n, i - 1 \in Q PROVE i \in Q
    <3>1. i \in 0..n /\ i - 1 \in 0..n /\ s[i] \in Int
      BY <1>1
    <3>2. h[i - 1] \in Seq(Run) /\ Separated(h[i - 1])
      BY <1>3, <2>2, <3>1
    <3>3. h[i - 1] # <<>> => s[i] > EndOf(h[i - 1])
      <4>1. CASE i = 1
        BY <1>3, <4>1
      <4>2. CASE i # 1
        <5>1. i - 1 \in 1..n /\ i - 1 < i /\ s[i - 1] \in Int
          BY <1>1, <4>2
        <5>2. s[i - 1] < s[i]
          BY <1>9, <5>1 DEF Increasing, n
        <5>3. EndOf(h[i - 1]) = s[i - 1]
          BY <2>2, <5>1
        <5> QED BY <3>1, <5>1, <5>2, <5>3
      <4> QED BY <4>1, <4>2
    <3>4. /\ Separated(Lengthen(h[i - 1], s[i])) /\ Lengthen(h[i - 1], s[i]) # <<>>
          /\ EndOf(Lengthen(h[i - 1], s[i])) = s[i]
      BY <3>1, <3>2, <3>3, LengthenSeparates
    <3> QED BY <1>3, <3>1, <3>4
  <2>3. \A i \in 0..n : i \in Q
    <3> HIDE DEF Q
    <3> QED BY <1>1, <2>1, <2>2, Climb
  <2> QED BY <1>4, <2>3
<1> QED BY <1>2, <1>3, <1>4, <1>8, <1>9 DEF n

-----------------------------------------------------------------------------
(***************************************************************************)
(* A list that ascends, with duplicates or without.                        *)
(***************************************************************************)
NonDecreasing(s) == \A i, j \in 1..Len(s) : i < j => s[i] <= s[j]

(***************************************************************************)
(* Two such lists in a row are one, when a number stands between them.     *)
(***************************************************************************)
LEMMA NonDecreasingInARow ==
    ASSUME NEW s \in Seq(Int), NEW t \in Seq(Int), NonDecreasing(s), NonDecreasing(t),
           NEW b \in Int, \A x \in ToSet(s) : x <= b, \A x \in ToSet(t) : b <= x
    PROVE  NonDecreasing(s \o t)
<1> DEFINE m == Len(s)
           n == Len(t)
           st == s \o t
<1>1. /\ m \in Nat /\ n \in Nat /\ st \in Seq(Int) /\ Len(st) = m + n
      /\ \A i \in 1..m : st[i] = s[i] /\ s[i] <= b /\ s[i] \in Int
      /\ \A i \in 1..n : st[m + i] = t[i] /\ b <= t[i] /\ t[i] \in Int
  <2>1. \A i \in 1..m : s[i] \in ToSet(s)
    BY DEF ToSet
  <2>2. \A i \in 1..n : t[i] \in ToSet(t)
    BY DEF ToSet
  <2> QED BY <2>1, <2>2
<1> HIDE DEF m, n, st
<1>2. \A i \in 1..(m + n) : i \in 1..m \/ (i - m \in 1..n /\ m + (i - m) = i)
  BY <1>1
<1>3. \A i, j \in 1..m : i < j => s[i] <= s[j]
  BY DEF NonDecreasing, m
<1>4. \A i, j \in 1..n : i < j => t[i] <= t[j]
  BY DEF NonDecreasing, n
<1>5. ASSUME NEW i \in 1..(m + n), NEW j \in 1..(m + n), i < j PROVE st[i] <= st[j]
  <2>1. CASE i \in 1..m /\ j \in 1..m
    BY <1>1, <1>3, <1>5, <2>1
  <2>2. CASE i \in 1..m /\ j \notin 1..m
    <3>1. st[j] = t[j - m] /\ b <= t[j - m] /\ t[j - m] \in Int
      BY <1>1, <1>2, <2>2
    <3>2. st[i] = s[i] /\ s[i] <= b /\ s[i] \in Int
      BY <1>1, <2>2
    <3> QED BY <3>1, <3>2
  <2>3. CASE i \notin 1..m
    <3>1. j \notin 1..m /\ i - m < j - m
      BY <1>1, <1>5, <2>3
    <3>2. i - m \in 1..n /\ j - m \in 1..n /\ st[i] = t[i - m] /\ st[j] = t[j - m]
      BY <1>1, <1>2, <2>3, <3>1
    <3> QED BY <1>4, <3>1, <3>2
  <2> QED BY <2>1, <2>2, <2>3
<1> QED BY <1>1, <1>5 DEF NonDecreasing, st

(***************************************************************************)
(* How often a list of pairs repeats a pair.                               *)
(***************************************************************************)
Times(list, p) == Cardinality({j \in DOMAIN list : list[j] = p})

(***************************************************************************)
(* The index of a vector, as often as its list repeats the pair.           *)
(***************************************************************************)
Piece(list, index, p) == [j \in 1..Times(list, p) |-> index]

(***************************************************************************)
(* Of each vector of a batch, from an index on.                            *)
(***************************************************************************)
Pieces(lists, first, p) == [i \in DOMAIN lists |-> Piece(lists[i], first + i - 1, p)]

(***************************************************************************)
(* It ascends, and holds the index if the list holds the pair.             *)
(***************************************************************************)
LEMMA PieceIs ==
    ASSUME NEW list \in Seq(Pair), NEW index \in Int, NEW p
    PROVE  /\ Piece(list, index, p) \in Seq(Int) /\ NonDecreasing(Piece(list, index, p))
           /\ ToSet(Piece(list, index, p)) = IF p \in ToSet(list) THEN {index} ELSE {}
<1> DEFINE at == {j \in DOMAIN list : list[j] = p}
           n == Times(list, p)
           t == Piece(list, index, p)
<1>1. IsFiniteSet(at)
  <2>1. DOMAIN list = 1..Len(list) /\ Len(list) \in Nat
    OBVIOUS
  <2>2. IsFiniteSet(1..Len(list))
    BY <2>1, FS_Interval
  <2>3. at \in SUBSET (1..Len(list))
    BY <2>1
  <2> HIDE DEF at
  <2> QED BY <2>2, <2>3, FS_Subset
<1>2. n \in Nat /\ (n = 0 <=> at = {})
  <2>1. n = Cardinality(at)
    BY DEF Times
  <2> HIDE DEF at
  <2> QED BY <1>1, <2>1, FS_CardinalityType, FS_EmptySet
<1>3. at = {} <=> p \notin ToSet(list)
  BY DEF ToSet
<1> HIDE DEF n
<1>4. t = [j \in 1..n |-> index]
  BY DEF Piece, n
<1>5. t \in Seq(Int) /\ Len(t) = n /\ DOMAIN t = 1..n /\ \A j \in 1..n : t[j] = index
  <2>1. t \in [1..n -> Int]
    BY <1>4
  <2> QED BY <1>2, <1>4, <2>1
<1> HIDE DEF t
<1>6. NonDecreasing(t)
  BY <1>5 DEF NonDecreasing
<1>7. ToSet(t) = {t[j] : j \in 1..n}
  BY <1>5 DEF ToSet
<1>8. CASE n = 0
  <2>1. ToSet(t) = {}
    BY <1>7, <1>8
  <2> QED BY <1>2, <1>3, <1>5, <1>6, <1>8, <2>1 DEF t
<1>9. CASE n # 0
  <2>1. 1 \in 1..n
    BY <1>2, <1>9
  <2>2. ToSet(t) = {index}
    BY <1>5, <1>7, <2>1
  <2> QED BY <1>2, <1>3, <1>5, <1>6, <1>9, <2>2 DEF t
<1> QED BY <1>8, <1>9

(***************************************************************************)
(* The indices of the vectors that carry a pair: in order, and no others.  *)
(***************************************************************************)
LEMMA CarryingIs ==
    ASSUME NEW lists \in Seq(Seq(Pair)), NEW first \in Int, NEW p
    PROVE  LET carrying == Carrying(lists, first, p)
           IN  /\ Pieces(lists, first, p) \in Seq(Seq(Int))
               /\ carrying = FlattenSeq(Pieces(lists, first, p))
               /\ carrying \in Seq(Int) /\ NonDecreasing(carrying)
               /\ ToSet(carrying) = {first + i - 1 : i \in {k \in 1..Len(lists) : p \in ToSet(lists[k])}}
<1> DEFINE n == Len(lists)
           pieces == Pieces(lists, first, p)
           W(k) == {first + i - 1 : i \in {m \in 1..k : p \in ToSet(lists[m])}}
<1>1. n \in Nat /\ DOMAIN lists = 1..n /\ \A i \in 1..n : lists[i] \in Seq(Pair)
  OBVIOUS
<1>2. Carrying(lists, first, p) = FlattenSeq(pieces)
  BY DEF Carrying, Pieces, Piece, Times
<1> HIDE DEF n
<1>3. \A i \in 1..n : pieces[i] = Piece(lists[i], first + i - 1, p)
  BY <1>1 DEF Pieces
<1>4. \A i \in 1..n : /\ pieces[i] \in Seq(Int) /\ NonDecreasing(pieces[i])
                      /\ ToSet(pieces[i]) = IF p \in ToSet(lists[i]) THEN {first + i - 1} ELSE {}
  <2> SUFFICES ASSUME NEW i \in 1..n
               PROVE  /\ pieces[i] \in Seq(Int) /\ NonDecreasing(pieces[i])
                      /\ ToSet(pieces[i]) = IF p \in ToSet(lists[i]) THEN {first + i - 1} ELSE {}
    OBVIOUS
  <2>1. lists[i] \in Seq(Pair) /\ first + i - 1 \in Int
    BY <1>1
  <2> HIDE DEF pieces
  <2> QED BY <1>3, <2>1, PieceIs
<1>5. DOMAIN pieces = 1..n
  BY <1>1 DEF Pieces
<1>6. pieces \in Seq(Seq(Int)) /\ Len(pieces) = n
  <2>1. pieces = [i \in 1..n |-> pieces[i]]
    BY <1>1 DEF Pieces
  <2> HIDE DEF pieces
  <2>2. pieces \in [1..n -> Seq(Int)]
    BY <1>4, <2>1
  <2> QED BY <1>1, <2>2
<1> HIDE DEF pieces
<1>7. PICK h \in FlattensOf(Int, pieces) : FlattenSeq(pieces) = h[Len(pieces)]
  BY <1>6, FlattenSteps
<1>8. h \in [0..n -> Seq(Int)] /\ h[0] = <<>> /\ \A i \in 1..n : h[i] = h[i - 1] \o pieces[i]
  BY <1>6, <1>7 DEF FlattensOf
<1> DEFINE P == {k \in 0..n : NonDecreasing(h[k]) /\ ToSet(h[k]) = W(k)}
<1>9. 0 \in P
  <2>1. NonDecreasing(<<>>) /\ ToSet(<<>>) = {}
    BY DEF NonDecreasing, ToSet
  <2>2. W(0) = {} /\ 0 \in 0..n
    BY <1>1
  <2> HIDE DEF W
  <2> QED BY <1>8, <2>1, <2>2
<1>10. ASSUME NEW k \in 1..n, k - 1 \in P PROVE k \in P
  <2>1. k \in 0..n /\ k - 1 \in 0..n
    BY <1>1
  <2>2. h[k - 1] \in Seq(Int) /\ NonDecreasing(h[k - 1]) /\ ToSet(h[k - 1]) = W(k - 1)
    BY <1>8, <1>10, <2>1
  <2>3. h[k] = h[k - 1] \o pieces[k]
    BY <1>8
  <2>4. \A x \in W(k - 1) : x <= first + k - 1
    OBVIOUS
  <2>5. W(k) = W(k - 1) \cup (IF p \in ToSet(lists[k]) THEN {first + k - 1} ELSE {})
    <3>1. \A i : i \in 1..k <=> i \in 1..(k - 1) \/ i = k
      BY <1>1
    <3> QED BY <3>1
  <2> HIDE DEF W, P
  <2>6. pieces[k] \in Seq(Int) /\ NonDecreasing(pieces[k]) /\ ToSet(pieces[k]) = IF p \in ToSet(lists[k]) THEN {first + k - 1} ELSE {}
    BY <1>4
  <2>7. ToSet(h[k]) = W(k)
    BY <2>2, <2>3, <2>5, <2>6, InARow
  <2>8. NonDecreasing(h[k])
    <3>1. first + k - 1 \in Int
      OBVIOUS
    <3>2. \A x \in ToSet(pieces[k]) : first + k - 1 <= x
      BY <2>6
    <3> QED BY <2>2, <2>3, <2>4, <2>6, <3>1, <3>2, NonDecreasingInARow
  <2> QED BY <2>1, <2>7, <2>8 DEF P
<1>11. \A k \in 0..n : k \in P
  <2> HIDE DEF P
  <2> QED BY <1>1, <1>9, <1>10, Climb
<1>12. n \in 0..n
  BY <1>1
<1>13. h[n] \in Seq(Int) /\ NonDecreasing(h[n]) /\ ToSet(h[n]) = W(n)
  BY <1>8, <1>11, <1>12
<1>14. Carrying(lists, first, p) = h[n]
  BY <1>2, <1>6, <1>7
<1> QED BY <1>2, <1>6, <1>13, <1>14 DEF pieces, n

(***************************************************************************)
(* Batches in a row carry a pair one after the other.                      *)
(***************************************************************************)
LEMMA CarryingInARow ==
    ASSUME NEW a \in Seq(Seq(Pair)), NEW b \in Seq(Seq(Pair)), NEW p
    PROVE  Carrying(a \o b, 1, p) = Carrying(a, 1, p) \o Carrying(b, Len(a) + 1, p)
<1> DEFINE ab == a \o b
           pa == Pieces(a, 1, p)
           pb == Pieces(b, Len(a) + 1, p)
           pab == Pieces(ab, 1, p)
<1>1. /\ ab \in Seq(Seq(Pair)) /\ Len(ab) = Len(a) + Len(b) /\ Len(a) \in Nat /\ Len(b) \in Nat
      /\ \A i \in 1..Len(a) : ab[i] = a[i]
      /\ \A i \in 1..Len(b) : ab[Len(a) + i] = b[i]
      /\ DOMAIN a = 1..Len(a) /\ DOMAIN b = 1..Len(b) /\ DOMAIN ab = 1..(Len(a) + Len(b))
  OBVIOUS
<1> HIDE DEF ab
<1>2. pa \in Seq(Seq(Int)) /\ pb \in Seq(Seq(Int)) /\ pab \in Seq(Seq(Int))
  BY <1>1, CarryingIs
<1>3. DOMAIN pa = 1..Len(a) /\ DOMAIN pb = 1..Len(b) /\ DOMAIN pab = 1..(Len(a) + Len(b))
  BY <1>1 DEF Pieces
<1>4. \A i \in 1..Len(a) : pab[i] = pa[i]
  <2> SUFFICES ASSUME NEW i \in 1..Len(a) PROVE pab[i] = pa[i]
    OBVIOUS
  <2>1. i \in 1..(Len(a) + Len(b))
    BY <1>1
  <2> QED BY <1>1, <2>1 DEF Pieces
<1>5. \A i \in 1..Len(b) : pab[Len(a) + i] = pb[i]
  <2> SUFFICES ASSUME NEW i \in 1..Len(b) PROVE pab[Len(a) + i] = pb[i]
    OBVIOUS
  <2>1. Len(a) + i \in 1..(Len(a) + Len(b)) /\ 1 + (Len(a) + i) - 1 = (Len(a) + 1) + i - 1
    BY <1>1
  <2>2. pab[Len(a) + i] = Piece(ab[Len(a) + i], 1 + (Len(a) + i) - 1, p)
    BY <1>1, <2>1 DEF Pieces
  <2>3. pb[i] = Piece(b[i], (Len(a) + 1) + i - 1, p)
    BY <1>1 DEF Pieces
  <2> QED BY <1>1, <2>1, <2>2, <2>3
<1> HIDE DEF pa, pb, pab
<1>6. Len(pa) = Len(a) /\ Len(pb) = Len(b) /\ Len(pab) = Len(a) + Len(b)
  BY <1>1, <1>2, <1>3
<1>7. pab = pa \o pb
  <2> DEFINE X == Seq(Int)
  <2>1. pa \in Seq(X) /\ pb \in Seq(X) /\ pab \in Seq(X) /\ Len(pab) = Len(pa) + Len(pb)
    BY <1>2, <1>6
  <2>2. /\ \A i \in 1..Len(pa) : pab[i] = pa[i]
        /\ \A i \in 1..Len(pb) : pab[Len(pa) + i] = pb[i]
    BY <1>4, <1>5, <1>6
  <2> HIDE DEF X
  <2> QED BY <2>1, <2>2, ConcatIs
<1>8. FlattenSeq(pa \o pb) = FlattenSeq(pa) \o FlattenSeq(pb)
  BY <1>2, FlattenConcat
<1>9. Carrying(ab, 1, p) = FlattenSeq(pab)
  BY <1>1, CarryingIs DEF pab
<1>10. Carrying(a, 1, p) = FlattenSeq(pa)
  BY <1>1, CarryingIs DEF pa
<1>11. Carrying(b, Len(a) + 1, p) = FlattenSeq(pb)
  BY <1>1, CarryingIs DEF pb
<1> QED BY <1>7, <1>8, <1>9, <1>10, <1>11 DEF ab

(***************************************************************************)
(* Entries are runs and ids, and vectors come with lists of pairs.         *)
(***************************************************************************)
IndexType ==
    /\ carried \in Seq(KvLists)
    /\ items \in [Pair -> [runs : Seq(Run), ids : Seq(Int)]]

(***************************************************************************)
(* The runs of a pair that no vector repeats are those of the vectors that *)
(* carry it, compressed afresh.                                            *)
(***************************************************************************)
RunsCompressed == \A p \in Pair : Single(p) => items[p].runs = Compress(Carrying(carried, 1, p))

(***************************************************************************)
(* The inductive invariant of the index.                                   *)
(***************************************************************************)
IndexInv == IndexType /\ IdsAligned /\ RunsCompressed

(***************************************************************************)
(* The ids of vectors at indices.                                          *)
(***************************************************************************)
Ids(indices) == [i \in DOMAIN indices |-> IdOf(indices[i])]

(***************************************************************************)
(* The ids of indices in a row.                                            *)
(***************************************************************************)
LEMMA IdsInARow ==
    ASSUME NEW s \in Seq(Int), NEW t \in Seq(Int)
    PROVE  Ids(s) \in Seq(Int) /\ Ids(s \o t) = Ids(s) \o Ids(t)
<1>1. \A u \in Seq(Int) : Ids(u) \in Seq(Int) /\ Len(Ids(u)) = Len(u) /\ \A i \in 1..Len(u) : Ids(u)[i] = IdOf(u[i])
  <2> SUFFICES ASSUME NEW u \in Seq(Int)
               PROVE  Ids(u) \in Seq(Int) /\ Len(Ids(u)) = Len(u) /\ \A i \in 1..Len(u) : Ids(u)[i] = IdOf(u[i])
    OBVIOUS
  <2>1. Len(u) \in Nat /\ DOMAIN u = 1..Len(u) /\ \A i \in 1..Len(u) : u[i] \in Int
    OBVIOUS
  <2>2. Ids(u) = [i \in 1..Len(u) |-> 0 - u[i]]
    BY <2>1 DEF Ids, IdOf
  <2>3. Ids(u) \in [1..Len(u) -> Int]
    BY <2>1, <2>2
  <2> QED BY <2>1, <2>2, <2>3 DEF IdOf
<1> DEFINE st == s \o t
           ids == Ids(st)
           is == Ids(s)
           it == Ids(t)
<1>2. /\ st \in Seq(Int) /\ Len(st) = Len(s) + Len(t) /\ \A i \in 1..Len(s) : st[i] = s[i]
      /\ \A i \in 1..Len(t) : st[Len(s) + i] = t[i]
  BY InARow
<1>3. Len(s) \in Nat /\ Len(t) \in Nat
  OBVIOUS
<1>4. ids \in Seq(Int) /\ Len(ids) = Len(s) + Len(t) /\ \A i \in 1..(Len(s) + Len(t)) : ids[i] = IdOf(st[i])
  <2> HIDE DEF st
  <2> QED BY <1>1, <1>2
<1>5. /\ is \in Seq(Int) /\ Len(is) = Len(s) /\ \A i \in 1..Len(s) : is[i] = IdOf(s[i])
      /\ it \in Seq(Int) /\ Len(it) = Len(t) /\ \A i \in 1..Len(t) : it[i] = IdOf(t[i])
  BY <1>1
<1> HIDE DEF st, ids, is, it
<1>6. \A i \in 1..Len(is) : ids[i] = is[i]
  <2>1. \A i \in 1..Len(s) : i \in 1..(Len(s) + Len(t))
    BY <1>3
  <2> QED BY <1>2, <1>4, <1>5, <2>1
<1>7. \A i \in 1..Len(it) : ids[Len(is) + i] = it[i]
  <2>1. \A i \in 1..Len(t) : Len(s) + i \in 1..(Len(s) + Len(t))
    BY <1>3
  <2> QED BY <1>2, <1>4, <1>5, <2>1
<1>8. ids = is \o it
  <2>1. Len(ids) = Len(is) + Len(it)
    BY <1>4, <1>5
  <2> QED BY <1>4, <1>5, <1>6, <1>7, <2>1, ConcatIs
<1> QED BY <1>5, <1>8 DEF ids, is, it, st

(***************************************************************************)
(* A list that ascends and repeats nothing ascends strictly.               *)
(***************************************************************************)
LEMMA InjectiveIncreases ==
    ASSUME NEW s \in Seq(Int), NonDecreasing(s), IsInjective(s)
    PROVE  Increasing(s)
<1>1. Len(s) \in Nat /\ DOMAIN s = 1..Len(s) /\ \A i \in 1..Len(s) : s[i] \in Int
  OBVIOUS
<1>2. \A i, j \in 1..Len(s) : s[i] = s[j] => i = j
  BY <1>1 DEF IsInjective
<1> SUFFICES ASSUME NEW i \in 1..Len(s), NEW j \in 1..Len(s), i < j PROVE s[i] < s[j]
  BY DEF Increasing
<1>3. s[i] <= s[j] /\ s[i] # s[j]
  BY <1>1, <1>2 DEF NonDecreasing
<1> QED BY <1>1, <1>3

(***************************************************************************)
(* What insert_append does to the entry of a pair: the ids come after the  *)
(* earlier ones, and the indices are those of before and of the batch.     *)
(***************************************************************************)
LEMMA AppendedEntry ==
    ASSUME NEW entry \in [runs : Seq(Run), ids : Seq(Int)],
           NEW before \in Seq(Int), NEW indices \in Seq(Int), indices # <<>>,
           entry.ids = Ids(before), ToSet(Decompress(entry.runs)) = ToSet(before)
    PROVE  LET item == InsertAppend(entry, indices, Ids(indices))
               after == before \o indices
           IN  /\ item \in [runs : Seq(Run), ids : Seq(Int)]
               /\ item.ids = Ids(after)
               /\ ToSet(Decompress(item.runs)) = ToSet(after)
               /\ IsInjective(after) /\ NonDecreasing(after) => item.runs = Compress(after)
<1> DEFINE item == InsertAppend(entry, indices, Ids(indices))
           after == before \o indices
           merged == Merge(Decompress(entry.runs), indices)
<1>0. entry.runs \in Seq(Run) /\ entry.ids \in Seq(Int)
  OBVIOUS
<1>1. after \in Seq(Int) /\ ToSet(after) = ToSet(before) \cup ToSet(indices)
  BY InARow
<1>2. Ids(indices) \in Seq(Int) /\ Ids(after) = Ids(before) \o Ids(indices) /\ Ids(after) \in Seq(Int)
  BY <1>1, IdsInARow
<1> HIDE DEF after
<1>3. CASE entry = NoItem
  <2>1. before = <<>>
    <3>1. DOMAIN Ids(before) = DOMAIN before
      BY DEF Ids
    <3>2. Ids(before) = <<>>
      BY <1>3 DEF NoItem
    <3>3. DOMAIN before = {}
      BY <3>1, <3>2
    <3> QED BY <3>3
  <2>2. after = indices
    BY <2>1 DEF after
  <2>3. item = [runs |-> Compress(indices), ids |-> Ids(indices)]
    BY <1>3 DEF InsertAppend
  <2>4. Compress(indices) \in Seq(Run) /\ Decompress(Compress(indices)) = indices
    BY CompressKeeps
  <2>5. item \in [runs : Seq(Run), ids : Seq(Int)] /\ item.ids = Ids(indices) /\ item.runs = Compress(indices)
    BY <1>2, <2>3, <2>4
  <2> HIDE DEF item
  <2> QED BY <2>2, <2>4, <2>5 DEF item, after
<1>4. CASE entry # NoItem
  <2>1. item = [runs |-> Compress(merged), ids |-> entry.ids \o Ids(indices)]
    BY <1>4 DEF InsertAppend
  <2>2. merged = Ascending(ToSet(after))
    BY <1>1 DEF Merge
  <2>3. ToSet(after) \in SUBSET Int /\ IsFiniteSet(ToSet(after))
    <3>1. Len(after) \in Nat /\ after \in [1..Len(after) -> Int] /\ DOMAIN after = 1..Len(after)
      BY <1>1
    <3>2. ToSet(after) = {after[i] : i \in 1..Len(after)}
      BY <3>1 DEF ToSet
    <3>3. IsFiniteSet(1..Len(after))
      BY <3>1, FS_Interval
    <3>4. IsFiniteSet({after[i] : i \in 1..Len(after)})
      <4> DEFINE S == 1..Len(after)
                 T == {after[i] : i \in S}
                 f == [i \in S |-> after[i]]
      <4>1. f \in Surjection(S, T)
        <5>1. f \in [S -> T] /\ \A x \in T : \E i \in S : f[i] = x
          OBVIOUS
        <5> HIDE DEF f, T, S
        <5> QED BY <5>1 DEF Surjection
      <4> HIDE DEF f, T, S
      <4>2. IsFiniteSet(T)
        BY <3>3, <4>1, FS_Surjection DEF S
      <4> QED BY <4>2 DEF S, T
    <3> QED BY <3>1, <3>2, <3>4
  <2> HIDE DEF merged, item
  <2>4. merged \in Seq(Int) /\ ToSet(merged) = ToSet(after)
    <3> DEFINE S == ToSet(after)
               n == Cardinality(S)
    <3>1. /\ n \in Nat /\ merged \in [1..n -> S]
          /\ \A x \in S : \E i \in 1..n : merged[i] = x
      BY <2>2, <2>3, AscendingLists
    <3>2. S \in SUBSET Int
      BY <2>3
    <3> HIDE DEF S, n
    <3>3. merged \in [1..n -> Int] /\ DOMAIN merged = 1..n
      BY <3>1, <3>2
    <3>4. merged \in Seq(Int)
      BY <3>1, <3>3
    <3>5. ToSet(merged) = S
      BY <3>1, <3>3 DEF ToSet
    <3> QED BY <3>4, <3>5 DEF S
  <2>5. Compress(merged) \in Seq(Run) /\ Decompress(Compress(merged)) = merged
    BY <2>4, CompressKeeps
  <2>6. item.runs = Compress(merged) /\ item.ids = Ids(after) /\ item \in [runs : Seq(Run), ids : Seq(Int)]
    <3>1. entry.ids \o Ids(indices) = Ids(after)
      BY <1>2
    <3> QED BY <1>2, <2>1, <2>5, <3>1
  <2>7. ASSUME IsInjective(after), NonDecreasing(after) PROVE merged = after
    <3>1. Increasing(after)
      BY <1>1, <2>7, InjectiveIncreases
    <3> QED BY <1>1, <2>2, <3>1, AscendingOfIncreasing
  <2> QED BY <2>4, <2>5, <2>6, <2>7 DEF item, after
<1> QED BY <1>3, <1>4

(***************************************************************************)
(* A batch: every pair keeps what it had, and gains what the batch carries.*)
(***************************************************************************)
LEMMA BatchStep ==
    ASSUME IndexInv, NEW lists \in Seq(KvLists), CommitBatch(lists)
    PROVE  IndexInv'
<1>1. /\ carried \in Seq(KvLists) /\ carried \in Seq(Seq(Pair)) /\ lists \in Seq(Seq(Pair))
      /\ carried' = carried \o lists
  BY IndexAssumption DEF IndexInv, IndexType, CommitBatch
<1>2. carried' \in Seq(KvLists) /\ carried' \in Seq(Seq(Pair))
  BY <1>1
<1> DEFINE before(p) == Carrying(carried, 1, p)
           more(p) == Carrying(lists, Len(carried) + 1, p)
           after(p) == Carrying(carried', 1, p)
           shape == [runs : Seq(Run), ids : Seq(Int)]
<1>3. \A p : /\ before(p) \in Seq(Int) /\ more(p) \in Seq(Int) /\ after(p) \in Seq(Int)
             /\ NonDecreasing(after(p)) /\ after(p) = before(p) \o more(p)
  <2> SUFFICES ASSUME NEW p
               PROVE  /\ before(p) \in Seq(Int) /\ more(p) \in Seq(Int) /\ after(p) \in Seq(Int)
                      /\ NonDecreasing(after(p)) /\ after(p) = before(p) \o more(p)
    OBVIOUS
  <2>1. before(p) \in Seq(Int)
    BY <1>1, CarryingIs
  <2>2. Len(carried) + 1 \in Int
    BY <1>1
  <2>3. more(p) \in Seq(Int)
    BY <1>1, <2>2, CarryingIs
  <2>4. after(p) \in Seq(Int) /\ NonDecreasing(after(p))
    BY <1>2, CarryingIs
  <2>5. after(p) = before(p) \o more(p)
    BY <1>1, CarryingInARow
  <2> QED BY <2>1, <2>3, <2>4, <2>5
<1>4. \A p \in Pair : items'[p] = IF more(p) = <<>> THEN items[p]
                                ELSE InsertAppend(items[p], more(p), Ids(more(p)))
  BY DEF CommitBatch, Ids
<1>5. DOMAIN items' = Pair /\ items' = [p \in Pair |-> items'[p]]
  BY DEF CommitBatch
<1>6. \A p \in Pair : /\ items[p] \in shape /\ items[p].ids = Ids(before(p))
                      /\ ToSet(Decompress(items[p].runs)) = ToSet(before(p))
                      /\ IsInjective(before(p)) => items[p].runs = Compress(before(p))
  BY DEF IndexInv, IndexType, IdsAligned, RunsCompressed, Single, Ids
<1> HIDE DEF before, more, after
<1>7. ASSUME NEW p \in Pair
      PROVE  /\ items'[p] \in shape /\ items'[p].ids = Ids(after(p))
             /\ ToSet(Decompress(items'[p].runs)) = ToSet(after(p))
             /\ IsInjective(after(p)) => items'[p].runs = Compress(after(p))
  <2>1. CASE more(p) = <<>>
    <3>1. after(p) = before(p)
      <4> DEFINE b == before(p)
      <4>1. b \in Seq(Int) /\ after(p) = b \o <<>>
        BY <1>3, <2>1
      <4> HIDE DEF b
      <4>2. b \o <<>> = b
        BY <4>1
      <4> QED BY <4>1, <4>2 DEF b
    <3> QED BY <1>4, <1>6, <2>1, <3>1
  <2>2. CASE more(p) # <<>>
    <3>1. items'[p] = InsertAppend(items[p], more(p), Ids(more(p)))
      BY <1>4, <2>2
    <3> DEFINE entry == items[p]
               b == before(p)
               m == more(p)
    <3>2. entry \in shape /\ entry.ids = Ids(b) /\ ToSet(Decompress(entry.runs)) = ToSet(b)
      BY <1>6
    <3>3. b \in Seq(Int) /\ m \in Seq(Int) /\ m # <<>>
      BY <1>3, <2>2
    <3>4. after(p) = b \o m /\ NonDecreasing(b \o m)
      BY <1>3
    <3>5. items'[p] = InsertAppend(entry, m, Ids(m))
      BY <3>1
    <3> HIDE DEF entry, b, m
    <3>6. LET item == InsertAppend(entry, m, Ids(m))
          IN  /\ item \in shape
              /\ item.ids = Ids(b \o m)
              /\ ToSet(Decompress(item.runs)) = ToSet(b \o m)
              /\ IsInjective(b \o m) /\ NonDecreasing(b \o m) => item.runs = Compress(b \o m)
      BY <3>2, <3>3, AppendedEntry
    <3> QED BY <3>4, <3>5, <3>6
  <2> QED BY <2>1, <2>2
<1>8. items' \in [Pair -> shape]
  <2> HIDE DEF shape
  <2> QED BY <1>5, <1>7
<1>9. ASSUME NEW p \in Pair, IsInjective(after(p)) PROVE Decompress(items'[p].runs) = after(p)
  <2>1. Decompress(Compress(after(p))) = after(p)
    BY <1>3, CompressKeeps
  <2> QED BY <1>7, <1>9, <2>1
<1>10. IdsAligned'
  BY <1>7, <1>9 DEF IdsAligned, Single, after, Ids
<1>11. RunsCompressed'
  BY <1>7 DEF RunsCompressed, Single, after
<1> QED BY <1>2, <1>8, <1>10, <1>11 DEF IndexInv, IndexType

(***************************************************************************)
(* An index without entries satisfies it.                                  *)
(***************************************************************************)
LEMMA IndexInit == Init => IndexInv
<1> SUFFICES ASSUME Init PROVE IndexInv
  OBVIOUS
<1>1. carried = <<>> /\ items = [p \in Pair |-> NoItem]
  BY DEF Init
<1>2. \A p : Carrying(carried, 1, p) = <<>>
  <2> SUFFICES ASSUME NEW p PROVE Carrying(<<>>, 1, p) = <<>>
    BY <1>1
  <2>1. <<>> \in Seq(Seq(Pair)) /\ 1 \in Int
    OBVIOUS
  <2>2. Carrying(<<>>, 1, p) = FlattenSeq(Pieces(<<>>, 1, p))
    BY <2>1, CarryingIs
  <2>3. Pieces(<<>>, 1, p) = <<>>
    BY DEF Pieces
  <2> QED BY <2>2, <2>3, FlattenEmpty
<1>3. NoItem \in [runs : Seq(Run), ids : Seq(Int)] /\ NoItem.runs = <<>> /\ NoItem.ids = <<>>
  BY DEF NoItem
<1>4. Compress(<<>>) = <<>> /\ Decompress(<<>>) = <<>>
  <2>1. <<>> \in Seq(Int) /\ Len(<<>>) = 0
    OBVIOUS
  <2>2. PICK h \in CompressSteps(<<>>) : Compress(<<>>) = h[0]
    BY <2>1, CompressIs
  <2> QED BY <2>2, DecompressNothing DEF CompressSteps
<1>5. [i \in DOMAIN <<>> |-> IdOf(<<>>[i])] = <<>>
  OBVIOUS
<1>6. IndexType
  BY <1>1, <1>3 DEF IndexType
<1>7. IdsAligned
  BY <1>1, <1>2, <1>3, <1>4, <1>5 DEF IdsAligned
<1>8. RunsCompressed
  BY <1>1, <1>2, <1>3, <1>4 DEF RunsCompressed
<1> QED BY <1>6, <1>7, <1>8 DEF IndexInv

(***************************************************************************)
(* So it always holds.                                                     *)
(***************************************************************************)
LEMMA IndexInvariant == Spec => []IndexInv
<1>1. Init => IndexInv
  BY IndexInit
<1>2. IndexInv /\ [Next]_ivars => IndexInv'
  <2> SUFFICES ASSUME IndexInv, [Next]_ivars PROVE IndexInv'
    OBVIOUS
  <2>1. CASE Next
    <3>0. PICK n \in 1..MaxBatch : \E lists \in [1..n -> KvLists] : CommitBatch(lists)
      BY <2>1 DEF Next
    <3>1. PICK lists \in [1..n -> KvLists] : CommitBatch(lists)
      BY <3>0
    <3>2. n \in Nat
      BY IndexAssumption
    <3>3. lists \in Seq(KvLists)
      BY <3>1, <3>2
    <3> QED BY <3>1, <3>3, BatchStep
  <2>2. CASE UNCHANGED ivars
    BY <2>2 DEF ivars, IndexInv, IndexType, IdsAligned, RunsCompressed, Single
  <2> QED BY <2>1, <2>2
<1> QED BY <1>1, <1>2, PTL DEF Spec

(***************************************************************************)
(* The entry of a pair lists each vector that carries it and its id, in    *)
(* step.                                                                   *)
(***************************************************************************)
THEOREM IdsStayAligned == Spec => []IdsAligned
<1>1. IndexInv => IdsAligned
  BY DEF IndexInv
<1> QED BY <1>1, IndexInvariant, PTL

(***************************************************************************)
(* No two runs of an entry touch.                                          *)
(***************************************************************************)
THEOREM RunsStayMaximal == Spec => []RunsAreMaximal
<1>1. IndexInv => RunsAreMaximal
  <2> SUFFICES ASSUME IndexInv, NEW p \in Pair, Single(p)
               PROVE  \A r, q \in DOMAIN items[p].runs :
                         r < q => items[p].runs[r].start + items[p].runs[r].count < items[p].runs[q].start
    BY DEF RunsAreMaximal
  <2> DEFINE c == Carrying(carried, 1, p)
             runs == items[p].runs
  <2>1. runs = Compress(c) /\ runs \in Seq(Run)
    BY DEF IndexInv, RunsCompressed, IndexType
  <2>2. c \in Seq(Int) /\ NonDecreasing(c)
    <3>1. carried \in Seq(Seq(Pair))
      BY IndexAssumption DEF IndexInv, IndexType
    <3> QED BY <3>1, CarryingIs
  <2>3. IsInjective(c)
    BY DEF Single
  <2> HIDE DEF c, runs
  <2>4. Increasing(c)
    BY <2>2, <2>3, InjectiveIncreases
  <2>5. Separated(runs)
    BY <2>1, <2>2, <2>4, CompressKeeps
  <2>6. DOMAIN runs = 1..Len(runs)
    BY <2>1
  <2> QED BY <2>5, <2>6 DEF Separated, runs
<1> QED BY <1>1, IndexInvariant, PTL

-----------------------------------------------------------------------------
(***************************************************************************)
(* What a filter finds: a list of indices and one of ids.                  *)
(***************************************************************************)
Hits == [indices : Seq(Int), ids : Seq(Int)]

(***************************************************************************)
(* The two lists.                                                          *)
(***************************************************************************)
LEMMA HitsParts == \A h \in Hits : h.indices \in Seq(Int) /\ h.ids \in Seq(Int)
BY DEF Hits

(***************************************************************************)
(* A union finds what either finds, both its lists in order.               *)
(***************************************************************************)
LEMMA UnionIs ==
    ASSUME NEW a \in Hits, NEW b \in Hits
    PROVE  LET u == Union(a, b)
           IN  /\ u \in Hits /\ Increasing(u.indices) /\ Increasing(u.ids)
               /\ ToSet(u.indices) = ToSet(a.indices) \cup ToSet(b.indices)
               /\ ToSet(u.ids) = ToSet(a.ids) \cup ToSet(b.ids)
<1> DEFINE I == ToSet(a.indices) \cup ToSet(b.indices)
           J == ToSet(a.ids) \cup ToSet(b.ids)
<1>1. I \in SUBSET Int /\ IsFiniteSet(I) /\ J \in SUBSET Int /\ IsFiniteSet(J)
  <2>1. a.indices \in Seq(Int) /\ a.ids \in Seq(Int) /\ b.indices \in Seq(Int) /\ b.ids \in Seq(Int)
    BY HitsParts
  <2> QED BY <2>1, MembersFinite, FS_Union
<1>2. Union(a, b) = [indices |-> Ascending(I), ids |-> Ascending(J)]
  BY DEF Union
<1> HIDE DEF I, J
<1>3. Ascending(I) \in Seq(Int) /\ ToSet(Ascending(I)) = I /\ Increasing(Ascending(I))
  BY <1>1, AscendingIs
<1>4. Ascending(J) \in Seq(Int) /\ ToSet(Ascending(J)) = J /\ Increasing(Ascending(J))
  BY <1>1, AscendingIs
<1> DEFINE u == Union(a, b)
<1>5. u.indices = Ascending(I) /\ u.ids = Ascending(J) /\ u = [indices |-> Ascending(I), ids |-> Ascending(J)]
  BY <1>2
<1>6. u \in Hits
  BY <1>3, <1>4, <1>5 DEF Hits
<1> HIDE DEF u
<1>7. Increasing(u.indices) /\ Increasing(u.ids) /\ ToSet(u.indices) = I /\ ToSet(u.ids) = J
  BY <1>3, <1>4, <1>5
<1> QED BY <1>6, <1>7 DEF I, J, u

(***************************************************************************)
(* What an Or has found after each of its filters.                         *)
(***************************************************************************)
UnionSteps(s) == {h \in [0..Len(s) -> Hits] : h[0] = NoHits /\ \A i \in 1..Len(s) : h[i] = Union(h[i - 1], s[i])}

(***************************************************************************)
(* Or and In take what they are given one after the other.                 *)
(***************************************************************************)
LEMMA AnyOfIs ==
    ASSUME NEW s \in Seq(Hits)
    PROVE  \E h \in UnionSteps(s) : AnyOf(s) = h[Len(s)]
<1> DEFINE n == Len(s)
           D == SUBSET (1..n)
           g == [i \in 1..n |-> [t \in Hits |-> Union(t, s[i])]]
           IsFold(f) == f = [S \in D |-> IF S = {} THEN NoHits ELSE Union(f[S \ {Max(S)}], s[Max(S)])]
           iter == CHOOSE f : IsFold(f)
<1>1. n \in Nat /\ DOMAIN s = 1..n /\ (\A i \in 1..n : s[i] \in Hits) /\ NoHits \in Hits
  <2>1. <<>> \in Seq(Int)
    OBVIOUS
  <2>2. NoHits \in Hits
    BY <2>1 DEF NoHits, Hits
  <2> QED BY <2>2
<1>2. \A t \in Hits : \A i \in 1..n : Union(t, s[i]) \in Hits
  BY <1>1, UnionIs
<1>3. g \in [1..n -> [Hits -> Hits]]
  BY <1>2
<1> HIDE DEF n
<1>4. \A S \in D : S # {} => Max(S) \in 1..n
  BY <1>1, GreatestOf
<1>5. \E f : IsFold(f)
  <2>1. PICK k \in FoldsOf(Hits, NoHits, n, g) : TRUE
    <3> HIDE DEF g
    <3> QED BY <1>1, <1>3, FoldExists
  <2>2. k \in [D -> Hits] /\ \A S \in D : k[S] = IF S = {} THEN NoHits ELSE g[Max(S)][k[S \ {Max(S)}]]
    <3> HIDE DEF g
    <3> QED BY <2>1 DEF FoldsOf
  <2>3. \A S \in D : k[S] = IF S = {} THEN NoHits ELSE Union(k[S \ {Max(S)}], s[Max(S)])
    <3> SUFFICES ASSUME NEW S \in D, S # {} PROVE k[S] = Union(k[S \ {Max(S)}], s[Max(S)])
      BY <2>2
    <3>1. Max(S) \in 1..n /\ k[S \ {Max(S)}] \in Hits
      BY <1>4, <2>2
    <3> QED BY <2>2, <3>1
  <2>4. IsFold(k)
    <3> HIDE DEF D, g
    <3> QED BY <2>2, <2>3
  <2> QED BY <2>4
<1>6. IsFold(iter)
  <2> HIDE DEF IsFold
  <2> QED BY <1>5
<1>7. AnyOf(s) = iter[1..n]
  <2> HIDE DEF g
  <2> QED BY <1>1 DEF AnyOf, FoldLeft, MapThenFoldSet
<1> HIDE DEF iter
<1>8. iter[{}] = NoHits
  BY <1>6
<1>9. Folds(iter, Hits, NoHits, n, g)
  <2>1. \A S \in SUBSET (1..n) :
            S # {} /\ iter[S \ {Max(S)}] \in Hits => iter[S] = g[Max(S)][iter[S \ {Max(S)}]]
    BY <1>4, <1>6
  <2> HIDE DEF g, IsFold
  <2> QED BY <1>8, <2>1 DEF Folds
<1>10. PICK h \in StepsOf(Hits, NoHits, n, g) : h[n] = iter[1..n]
  <2> HIDE DEF g, IsFold
  <2>1. StepsTo(Hits, NoHits, n, g, iter[1..n]) # {}
    BY <1>1, <1>3, <1>9, FoldTaken
  <2>2. PICK k \in StepsTo(Hits, NoHits, n, g, iter[1..n]) : TRUE
    BY <2>1
  <2>3. k \in StepsOf(Hits, NoHits, n, g) /\ k[n] = iter[1..n]
    BY <2>2 DEF StepsTo
  <2> QED BY <2>3
<1>11. h \in [0..n -> Hits] /\ h[0] = NoHits /\ \A i \in 1..n : h[i] = g[i][h[i - 1]]
  <2> HIDE DEF g
  <2> QED BY <1>10 DEF StepsOf
<1>12. \A i \in 1..n : h[i] = Union(h[i - 1], s[i])
  <2>1. \A i \in 1..n : h[i - 1] \in Hits
    <3> SUFFICES ASSUME NEW i \in 1..n PROVE h[i - 1] \in Hits
      OBVIOUS
    <3>1. i - 1 \in 0..n
      BY <1>1
    <3> HIDE DEF g
    <3> QED BY <1>11, <3>1
  <2>2. \A i \in 1..n : \A t \in Hits : g[i][t] = Union(t, s[i])
    OBVIOUS
  <2> HIDE DEF g
  <2> QED BY <1>11, <2>1, <2>2
<1>13. h \in UnionSteps(s)
  BY <1>11, <1>12 DEF UnionSteps, n
<1> QED BY <1>7, <1>10, <1>13 DEF n

(***************************************************************************)
(* A list without duplicates.                                              *)
(***************************************************************************)
Distinct(s) == \A i, j \in 1..Len(s) : s[i] = s[j] => i = j

(***************************************************************************)
(* Indices that ascend, ids without duplicates: what a filter finds of     *)
(* pairs that no vector repeats.                                           *)
(***************************************************************************)
Tidy(hits) == Increasing(hits.indices) /\ Distinct(hits.ids)

(***************************************************************************)
(* The two lists name the same vectors.                                    *)
(***************************************************************************)
InStep(hits) == ToSet(hits.ids) = {IdOf(i) : i \in ToSet(hits.indices)}

(***************************************************************************)
(* An empty result is tidy, its lists in step.                             *)
(***************************************************************************)
LEMMA NothingFound == NoHits \in Hits /\ Tidy(NoHits) /\ InStep(NoHits) /\ ToSet(NoHits.indices) = {} /\ ToSet(NoHits.ids) = {}
<1>1. <<>> \in Seq(Int) /\ ToSet(<<>>) = {} /\ Increasing(<<>>) /\ Distinct(<<>>)
  BY DEF ToSet, Increasing, Distinct
<1>2. NoHits.indices = <<>> /\ NoHits.ids = <<>>
  BY DEF NoHits
<1>3. NoHits \in Hits
  BY <1>1 DEF NoHits, Hits
<1>4. {IdOf(i) : i \in ToSet(NoHits.indices)} = {}
  BY <1>1, <1>2
<1> QED BY <1>1, <1>2, <1>3, <1>4 DEF Tidy, InStep

(***************************************************************************)
(* Two lists have in common what both hold, in the order of the first.     *)
(***************************************************************************)
LEMMA CommonIs ==
    ASSUME NEW s \in Seq(Int), NEW t \in Seq(Int)
    PROVE  /\ Common(s, t) \in Seq(Int) /\ ToSet(Common(s, t)) = ToSet(s) \cap ToSet(t)
           /\ Increasing(s) => Increasing(Common(s, t))
           /\ Distinct(s) => Distinct(Common(s, t))
<1> DEFINE at == {i \in DOMAIN s : s[i] \in ToSet(t)}
           u == AtPositions(s, at)
<1>1. DOMAIN s = 1..Len(s)
  OBVIOUS
<1>2. at \in SUBSET (1..Len(s)) /\ Common(s, t) = u
  BY <1>1 DEF Common
<1>3. {s[i] : i \in at} = ToSet(s) \cap ToSet(t)
  BY DEF ToSet
<1> HIDE DEF at, u
<1>4. /\ u \in Seq(Int) /\ ToSet(u) = {s[i] : i \in at}
      /\ (\A i, j \in 1..Len(s) : s[i] = s[j] => i = j) => (\A i, j \in 1..Len(u) : u[i] = u[j] => i = j)
      /\ Increasing(s) => Increasing(u)
  <2>1. Int \subseteq Int
    OBVIOUS
  <2> QED BY <1>2, <2>1, AtPositionsKeeps DEF u
<1> QED BY <1>2, <1>3, <1>4 DEF Distinct

(***************************************************************************)
(* An intersection finds what both find, and keeps lists tidy and in step. *)
(***************************************************************************)
LEMMA IntersectionIs ==
    ASSUME NEW a \in Hits, NEW b \in Hits
    PROVE  LET c == Intersection(a, b)
           IN  /\ c \in Hits /\ ToSet(c.indices) = ToSet(a.indices) \cap ToSet(b.indices)
               /\ InStep(a) /\ InStep(b) => InStep(c)
               /\ Tidy(a) => Tidy(c)
<1> DEFINE I == Common(a.indices, b.indices)
           J == Common(a.ids, b.ids)
           c == Intersection(a, b)
<1>1. a.indices \in Seq(Int) /\ a.ids \in Seq(Int) /\ b.indices \in Seq(Int) /\ b.ids \in Seq(Int)
  BY HitsParts
<1>2. c = [indices |-> I, ids |-> J]
  BY DEF Intersection
<1>3. /\ I \in Seq(Int) /\ ToSet(I) = ToSet(a.indices) \cap ToSet(b.indices)
      /\ Increasing(a.indices) => Increasing(I)
  BY <1>1, CommonIs
<1>4. /\ J \in Seq(Int) /\ ToSet(J) = ToSet(a.ids) \cap ToSet(b.ids)
      /\ Distinct(a.ids) => Distinct(J)
  BY <1>1, CommonIs
<1> HIDE DEF I, J
<1>5. c.indices = I /\ c.ids = J /\ c \in Hits
  BY <1>2, <1>3, <1>4 DEF Hits
<1> HIDE DEF c
<1>6. ASSUME InStep(a), InStep(b) PROVE InStep(c)
  <2> DEFINE A == ToSet(a.indices)
             B == ToSet(b.indices)
  <2>1. \A x \in A \cup B : x \in Int
    BY <1>1, MembersFinite
  <2>2. ToSet(a.ids) = {IdOf(x) : x \in A} /\ ToSet(b.ids) = {IdOf(x) : x \in B}
    BY <1>6 DEF InStep
  <2>3. ToSet(I) = A \cap B /\ ToSet(J) = ToSet(a.ids) \cap ToSet(b.ids)
    BY <1>3, <1>4
  <2> HIDE DEF A, B
  <2>4. \A x, y \in A \cup B : IdOf(x) = IdOf(y) => x = y
    BY <2>1 DEF IdOf
  <2>5. {IdOf(x) : x \in A} \cap {IdOf(x) : x \in B} = {IdOf(x) : x \in A \cap B}
    BY <2>4
  <2> QED BY <1>5, <2>2, <2>3, <2>5 DEF InStep
<1> QED BY <1>3, <1>4, <1>5, <1>6 DEF Tidy, c

(***************************************************************************)
(* A step of And finds lists.                                              *)
(***************************************************************************)
LEMMA AndStepType == \A a, b \in Hits : AndStep(a, b) \in Hits
BY IntersectionIs DEF AndStep

(***************************************************************************)
(* What an And has found after each of its filters.                        *)
(***************************************************************************)
AndSteps(s) == {h \in [0..Len(s) -> Hits] : h[0] = NoHits /\ \A i \in 1..Len(s) : h[i] = AndStep(h[i - 1], s[i])}

(***************************************************************************)
(* And takes what it is given one after the other.                         *)
(***************************************************************************)
LEMMA AllOfIs ==
    ASSUME NEW s \in Seq(Hits)
    PROVE  \E h \in AndSteps(s) : AllOf(s) = h[Len(s)]
<1> DEFINE n == Len(s)
           D == SUBSET (1..n)
           g == [i \in 1..n |-> [t \in Hits |-> AndStep(t, s[i])]]
           IsFold(f) == f = [S \in D |-> IF S = {} THEN NoHits ELSE AndStep(f[S \ {Max(S)}], s[Max(S)])]
           iter == CHOOSE f : IsFold(f)
<1>1. n \in Nat /\ DOMAIN s = 1..n /\ (\A i \in 1..n : s[i] \in Hits) /\ NoHits \in Hits
  <2>1. <<>> \in Seq(Int)
    OBVIOUS
  <2>2. NoHits \in Hits
    BY <2>1 DEF NoHits, Hits
  <2> QED BY <2>2
<1>2. \A t \in Hits : \A i \in 1..n : AndStep(t, s[i]) \in Hits
  BY <1>1, AndStepType
<1>3. g \in [1..n -> [Hits -> Hits]]
  BY <1>2
<1> HIDE DEF n
<1>4. \A S \in D : S # {} => Max(S) \in 1..n
  BY <1>1, GreatestOf
<1>5. \E f : IsFold(f)
  <2>1. PICK k \in FoldsOf(Hits, NoHits, n, g) : TRUE
    <3> HIDE DEF g
    <3> QED BY <1>1, <1>3, FoldExists
  <2>2. k \in [D -> Hits] /\ \A S \in D : k[S] = IF S = {} THEN NoHits ELSE g[Max(S)][k[S \ {Max(S)}]]
    <3> HIDE DEF g
    <3> QED BY <2>1 DEF FoldsOf
  <2>3. \A S \in D : k[S] = IF S = {} THEN NoHits ELSE AndStep(k[S \ {Max(S)}], s[Max(S)])
    <3> SUFFICES ASSUME NEW S \in D, S # {} PROVE k[S] = AndStep(k[S \ {Max(S)}], s[Max(S)])
      BY <2>2
    <3>1. Max(S) \in 1..n /\ k[S \ {Max(S)}] \in Hits
      BY <1>4, <2>2
    <3> QED BY <2>2, <3>1
  <2>4. IsFold(k)
    <3> HIDE DEF D, g
    <3> QED BY <2>2, <2>3
  <2> QED BY <2>4
<1>6. IsFold(iter)
  <2> HIDE DEF IsFold
  <2> QED BY <1>5
<1>7. AllOf(s) = iter[1..n]
  <2> HIDE DEF g
  <2> QED BY <1>1 DEF AllOf, FoldLeft, MapThenFoldSet
<1> HIDE DEF iter
<1>8. iter[{}] = NoHits
  BY <1>6
<1>9. Folds(iter, Hits, NoHits, n, g)
  <2>1. \A S \in SUBSET (1..n) :
            S # {} /\ iter[S \ {Max(S)}] \in Hits => iter[S] = g[Max(S)][iter[S \ {Max(S)}]]
    BY <1>4, <1>6
  <2> HIDE DEF g, IsFold
  <2> QED BY <1>8, <2>1 DEF Folds
<1>10. PICK h \in StepsOf(Hits, NoHits, n, g) : h[n] = iter[1..n]
  <2> HIDE DEF g, IsFold
  <2>1. StepsTo(Hits, NoHits, n, g, iter[1..n]) # {}
    BY <1>1, <1>3, <1>9, FoldTaken
  <2>2. PICK k \in StepsTo(Hits, NoHits, n, g, iter[1..n]) : TRUE
    BY <2>1
  <2>3. k \in StepsOf(Hits, NoHits, n, g) /\ k[n] = iter[1..n]
    BY <2>2 DEF StepsTo
  <2> QED BY <2>3
<1>11. h \in [0..n -> Hits] /\ h[0] = NoHits /\ \A i \in 1..n : h[i] = g[i][h[i - 1]]
  <2> HIDE DEF g
  <2> QED BY <1>10 DEF StepsOf
<1>12. \A i \in 1..n : h[i] = AndStep(h[i - 1], s[i])
  <2>1. \A i \in 1..n : h[i - 1] \in Hits
    <3> SUFFICES ASSUME NEW i \in 1..n PROVE h[i - 1] \in Hits
      OBVIOUS
    <3>1. i - 1 \in 0..n
      BY <1>1
    <3> HIDE DEF g
    <3> QED BY <1>11, <3>1
  <2>2. \A i \in 1..n : \A t \in Hits : g[i][t] = AndStep(t, s[i])
    OBVIOUS
  <2> HIDE DEF g
  <2> QED BY <1>11, <2>1, <2>2
<1>13. h \in AndSteps(s)
  BY <1>11, <1>12 DEF AndSteps, n
<1> QED BY <1>7, <1>10, <1>13 DEF n

(***************************************************************************)
(* All that the first k results hold.                                      *)
(***************************************************************************)
Found(s, k) == UNION {ToSet(s[i].indices) : i \in 1..k}

(***************************************************************************)
(* All the ids that they hold.                                             *)
(***************************************************************************)
FoundIds(s, k) == UNION {ToSet(s[i].ids) : i \in 1..k}

(***************************************************************************)
(* Or and In find what any of their parts finds.                           *)
(***************************************************************************)
LEMMA AnyOfFinds ==
    ASSUME NEW s \in Seq(Hits)
    PROVE  /\ AnyOf(s) \in Hits /\ Tidy(AnyOf(s))
           /\ ToSet(AnyOf(s).indices) = Found(s, Len(s))
           /\ (\A i \in 1..Len(s) : InStep(s[i])) => InStep(AnyOf(s))
<1> DEFINE n == Len(s)
<1>1. n \in Nat /\ \A i \in 1..n : s[i] \in Hits
  OBVIOUS
<1>2. PICK h \in UnionSteps(s) : AnyOf(s) = h[n]
  BY AnyOfIs
<1> HIDE DEF n
<1>3. h \in [0..n -> Hits] /\ h[0] = NoHits /\ \A i \in 1..n : h[i] = Union(h[i - 1], s[i])
  BY <1>2 DEF UnionSteps, n
<1> DEFINE P == {k \in 0..n : /\ Increasing(h[k].indices) /\ Increasing(h[k].ids)
                              /\ ToSet(h[k].indices) = Found(s, k) /\ ToSet(h[k].ids) = FoundIds(s, k)}
<1>4. 0 \in P
  <2>1. Found(s, 0) = {} /\ FoundIds(s, 0) = {} /\ 0 \in 0..n
    BY <1>1 DEF Found, FoundIds
  <2>2. Increasing(NoHits.indices) /\ Increasing(NoHits.ids)
    BY DEF NoHits, Increasing
  <2> QED BY <1>3, <2>1, <2>2, NothingFound
<1>5. ASSUME NEW k \in 1..n, k - 1 \in P PROVE k \in P
  <2>1. k \in 0..n /\ k - 1 \in 0..n /\ \A i : i \in 1..k <=> i \in 1..(k - 1) \/ i = k
    BY <1>1
  <2>2. h[k - 1] \in Hits /\ s[k] \in Hits /\ h[k] = Union(h[k - 1], s[k])
    BY <1>1, <1>3, <2>1
  <2>3. ToSet(h[k - 1].indices) = Found(s, k - 1) /\ ToSet(h[k - 1].ids) = FoundIds(s, k - 1)
    BY <1>5
  <2>4. /\ Found(s, k) = Found(s, k - 1) \cup ToSet(s[k].indices)
        /\ FoundIds(s, k) = FoundIds(s, k - 1) \cup ToSet(s[k].ids)
    BY <2>1 DEF Found, FoundIds
  <2>5. /\ Increasing(h[k].indices) /\ Increasing(h[k].ids)
        /\ ToSet(h[k].indices) = ToSet(h[k - 1].indices) \cup ToSet(s[k].indices)
        /\ ToSet(h[k].ids) = ToSet(h[k - 1].ids) \cup ToSet(s[k].ids)
    BY <2>2, UnionIs
  <2> QED BY <2>1, <2>3, <2>4, <2>5
<1>6. \A k \in 0..n : k \in P
  <2> HIDE DEF P
  <2> QED BY <1>1, <1>4, <1>5, Climb
<1>7. n \in 0..n
  BY <1>1
<1> DEFINE u == AnyOf(s)
<1>8. /\ u \in Hits /\ Increasing(u.indices) /\ Increasing(u.ids)
      /\ ToSet(u.indices) = Found(s, n) /\ ToSet(u.ids) = FoundIds(s, n)
  BY <1>2, <1>3, <1>6, <1>7
<1> HIDE DEF u
<1>9. Tidy(u)
  <2> DEFINE ids == u.ids
  <2>1. ids \in Seq(Int) /\ Increasing(ids)
    BY <1>8, HitsParts
  <2> HIDE DEF ids
  <2>2. ASSUME NEW i \in 1..Len(ids), NEW j \in 1..Len(ids), ids[i] = ids[j] PROVE i = j
    <3>1. Len(ids) \in Nat /\ ids[i] \in Int /\ ids[j] \in Int
      BY <2>1
    <3>2. ~(i < j) /\ ~(j < i)
      BY <2>1, <2>2, <3>1 DEF Increasing
    <3> QED BY <3>1, <3>2
  <2>3. Distinct(ids)
    BY <2>2 DEF Distinct
  <2> QED BY <1>8, <2>3 DEF Tidy, ids
<1>10. ASSUME \A i \in 1..n : InStep(s[i]) PROVE InStep(u)
  <2>1. \A i \in 1..n : ToSet(s[i].ids) = {IdOf(x) : x \in ToSet(s[i].indices)}
    BY <1>10 DEF InStep
  <2>2. FoundIds(s, n) = {IdOf(x) : x \in Found(s, n)}
    <3>1. \A y : y \in FoundIds(s, n) <=> \E i \in 1..n : y \in ToSet(s[i].ids)
      BY DEF FoundIds
    <3>2. \A x : x \in Found(s, n) <=> \E i \in 1..n : x \in ToSet(s[i].indices)
      BY DEF Found
    <3>3. \A i \in 1..n : \A y : y \in ToSet(s[i].ids) <=> \E x \in ToSet(s[i].indices) : y = IdOf(x)
      BY <2>1
    <3>4. ASSUME NEW y \in FoundIds(s, n) PROVE \E x \in Found(s, n) : y = IdOf(x)
      <4>1. PICK i \in 1..n : y \in ToSet(s[i].ids)
        BY <3>1
      <4>2. PICK x \in ToSet(s[i].indices) : y = IdOf(x)
        BY <3>3, <4>1
      <4> QED BY <3>2, <4>2
    <3>5. ASSUME NEW x \in Found(s, n) PROVE IdOf(x) \in FoundIds(s, n)
      <4>1. PICK i \in 1..n : x \in ToSet(s[i].indices)
        BY <3>2
      <4>2. IdOf(x) \in ToSet(s[i].ids)
        BY <3>3, <4>1
      <4> QED BY <3>1, <4>2
    <3> QED BY <3>4, <3>5
  <2> QED BY <1>8, <2>2 DEF InStep
<1> QED BY <1>8, <1>9, <1>10 DEF u, n

(***************************************************************************)
(* What the first k results all hold.                                      *)
(***************************************************************************)
Meet(s, k) == {x \in Int : \A i \in 1..k : x \in ToSet(s[i].indices)}

(***************************************************************************)
(* What And finds: all that its parts have in common, nothing but what the *)
(* last of them finds, and, when it had found something before each part   *)
(* that follows another, nothing but what they have in common.             *)
(***************************************************************************)
LEMMA AllOfFinds ==
    ASSUME NEW s \in Seq(Hits)
    PROVE  LET u == AllOf(s)
               n == Len(s)
           IN  /\ u \in Hits
               /\ n = 0 => u = NoHits
               /\ n # 0 => Meet(s, n) \subseteq ToSet(u.indices)
               /\ n # 0 => ToSet(u.indices) \subseteq ToSet(s[n].indices)
               /\ (n # 0 /\ \A k \in 1..(n - 1) : Meet(s, k) # {}) => ToSet(u.indices) \subseteq Meet(s, n)
               /\ (\A i \in 1..n : InStep(s[i])) => InStep(u)
               /\ (\A i \in 1..n : Tidy(s[i])) => Tidy(u)
<1> DEFINE n == Len(s)
           found(i) == ToSet(s[i].indices)
<1>1. n \in Nat /\ \A i \in 1..n : s[i] \in Hits
  OBVIOUS
<1>2. PICK h \in AndSteps(s) : AllOf(s) = h[n]
  BY AllOfIs
<1> HIDE DEF n
<1>3. h \in [0..n -> Hits] /\ h[0] = NoHits /\ \A i \in 1..n : h[i] = AndStep(h[i - 1], s[i])
  BY <1>2 DEF AndSteps, n
<1> DEFINE straight == \A k \in 1..(n - 1) : Meet(s, k) # {}
           inStep == \A i \in 1..n : InStep(s[i])
           tidy == \A i \in 1..n : Tidy(s[i])
           all(k) == ToSet(h[k].indices)
           P == {k \in 0..n : /\ k # 0 => Meet(s, k) \subseteq all(k) /\ all(k) \subseteq found(k)
                              /\ k # 0 /\ straight => all(k) \subseteq Meet(s, k)
                              /\ inStep => InStep(h[k])
                              /\ tidy => Tidy(h[k])}
<1>4. 0 \in P
  BY <1>1, <1>3, NothingFound
<1>5. ASSUME NEW k \in 1..n, k - 1 \in P PROVE k \in P
  <2>1. k \in 0..n /\ k - 1 \in 0..n /\ \A i : i \in 1..k <=> i \in 1..(k - 1) \/ i = k
    BY <1>1
  <2>2. h[k - 1] \in Hits /\ s[k] \in Hits /\ h[k] = AndStep(h[k - 1], s[k])
    BY <1>1, <1>3, <2>1
  <2>3. /\ k - 1 # 0 => Meet(s, k - 1) \subseteq all(k - 1)
        /\ k - 1 # 0 /\ straight => all(k - 1) \subseteq Meet(s, k - 1)
        /\ inStep => InStep(h[k - 1])
        /\ tidy => Tidy(h[k - 1])
    BY <1>5
  <2>4. Meet(s, k) = {x \in Meet(s, k - 1) : x \in found(k)}
    BY <2>1 DEF Meet
  <2>5. found(k) \in SUBSET Int
    BY <2>2, HitsParts, MembersFinite
  <2>6. Meet(s, 0) = Int
    BY DEF Meet
  <2> HIDE DEF straight, inStep, tidy, found
  <2>7. CASE h[k - 1] = NoHits
    <3>1. h[k] = s[k] /\ all(k) = found(k) /\ all(k - 1) = {}
      BY <2>2, <2>7, NothingFound DEF AndStep, found
    <3>2. straight /\ k - 1 # 0 => Meet(s, k - 1) # {}
      <4>1. k - 1 # 0 => k - 1 \in 1..(n - 1)
        BY <1>1
      <4> QED BY <4>1 DEF straight
    <3>3. straight => k - 1 = 0
      BY <2>3, <3>1, <3>2
    <3>4. k - 1 = 0 => Meet(s, k) = found(k)
      BY <2>4, <2>5, <2>6
    <3>5. Meet(s, k) \subseteq all(k) /\ all(k) \subseteq found(k) /\ (straight => all(k) \subseteq Meet(s, k))
      BY <2>4, <3>1, <3>3, <3>4
    <3>6. (inStep => InStep(h[k])) /\ (tidy => Tidy(h[k]))
      BY <3>1 DEF inStep, tidy
    <3> HIDE DEF all
    <3> QED BY <2>1, <3>5, <3>6
  <2>8. CASE h[k - 1] # NoHits
    <3>1. h[k] = Intersection(h[k - 1], s[k])
      BY <2>2, <2>8 DEF AndStep
    <3>2. /\ all(k) = all(k - 1) \cap found(k)
          /\ InStep(h[k - 1]) /\ InStep(s[k]) => InStep(h[k])
          /\ Tidy(h[k - 1]) => Tidy(h[k])
      BY <2>2, <3>1, IntersectionIs DEF found
    <3>3. k # 1
      BY <1>3, <2>8
    <3>4. Meet(s, k) \subseteq all(k) /\ all(k) \subseteq found(k) /\ (straight => all(k) \subseteq Meet(s, k))
      BY <2>3, <2>4, <3>2, <3>3
    <3>5. inStep => InStep(s[k])
      BY DEF inStep
    <3> HIDE DEF all
    <3> QED BY <2>1, <2>3, <3>2, <3>4, <3>5
  <2> QED BY <2>7, <2>8
<1>6. \A k \in 0..n : k \in P
  <2> HIDE DEF P
  <2> QED BY <1>1, <1>4, <1>5, Climb
<1>7. n \in 0..n
  BY <1>1
<1>8. n \in P
  <2> HIDE DEF P
  <2> QED BY <1>6, <1>7
<1>9. h[n] \in Hits /\ (n = 0 => h[n] = NoHits)
  BY <1>3, <1>7
<1> QED BY <1>2, <1>8, <1>9 DEF n

-----------------------------------------------------------------------------
(***************************************************************************)
(* A filter is one of four, and the parts of an And or Or are less deep.   *)
(***************************************************************************)
LEMMA Shapes ==
    ASSUME NEW f \in Queries
    PROVE  /\ f.type \in {"Eq", "In", "And", "Or"}
           /\ f.type = "Eq" => f.pair \in Pair
           /\ f.type = "In" => f.pairs \in Seq(Pair)
           /\ f.type \in {"And", "Or"} =>
                 /\ f.args \in Seq(Queries) /\ Len(f.args) \in Nat /\ DOMAIN f.args = 1..Len(f.args)
                 /\ \A i \in 1..Len(f.args) : f.args[i] \in Queries /\ Depth[f.args[i]] < Depth[f]
                 /\ \A g \in ToSet(f.args) : g \in Queries /\ Depth[g] < Depth[f]
<1> DEFINE below == {g \in Queries : Depth[g] < Depth[f]}
<1>1. f \in [type : {"Eq"}, pair : Pair] \cup [type : {"In"}, pairs : Seq(Pair)]
                  \cup [type : {"And", "Or"}, args : Seq(below)]
  BY FilterAssumption
<1> HIDE DEF below
<1>2. CASE f \in [type : {"Eq"}, pair : Pair]
  BY <1>2
<1>3. CASE f \in [type : {"In"}, pairs : Seq(Pair)]
  BY <1>3
<1>4. CASE f \in [type : {"And", "Or"}, args : Seq(below)]
  <2> DEFINE args == f.args
  <2>1. args \in Seq(below) /\ f.type \in {"And", "Or"}
    BY <1>4
  <2> HIDE DEF args
  <2>2. Len(args) \in Nat /\ DOMAIN args = 1..Len(args) /\ \A i \in 1..Len(args) : args[i] \in below
    BY <2>1
  <2>3. \A g \in ToSet(args) : g \in below
    BY <2>2 DEF ToSet
  <2>4. \A g \in below : g \in Queries /\ Depth[g] < Depth[f]
    BY DEF below
  <2>5. args \in Seq(Queries)
    <3>1. \A i \in 1..Len(args) : args[i] \in Queries
      BY <2>2, <2>4
    <3>2. args \in [1..Len(args) -> Queries]
      BY <2>1, <2>2, <3>1
    <3> QED BY <2>2, <3>2
  <2> QED BY <2>1, <2>2, <2>3, <2>4, <2>5 DEF args
<1> QED BY <1>1, <1>2, <1>3, <1>4

(***************************************************************************)
(* The entry of a pair holds lists.                                        *)
(***************************************************************************)
LEMMA FromIndexType ==
    ASSUME IndexType, NEW p \in Pair
    PROVE  FromIndex(p) \in Hits
<1>1. items[p] \in [runs : Seq(Run), ids : Seq(Int)]
  BY DEF IndexType
<1>2. items[p].runs \in Seq(Run) /\ items[p].ids \in Seq(Int)
  BY <1>1
<1>3. Decompress(items[p].runs) \in Seq(Int)
  BY <1>2, DecompressConcat
<1> QED BY <1>2, <1>3 DEF FromIndex, Hits

(***************************************************************************)
(* The entries that an In looks up.                                        *)
(***************************************************************************)
PairsHits(pairs) == [i \in DOMAIN pairs |-> FromIndex(pairs[i])]

(***************************************************************************)
(* What the parts of a filter find.                                        *)
(***************************************************************************)
ArgsHits(e, args) == [i \in DOMAIN args |-> e[args[i]]]

(***************************************************************************)
(* They are results, one for each pair.                                    *)
(***************************************************************************)
LEMMA PairsHitsType ==
    ASSUME IndexType, NEW pairs \in Seq(Pair)
    PROVE  PairsHits(pairs) \in Seq(Hits) /\ Len(PairsHits(pairs)) = Len(pairs)
<1>1. Len(pairs) \in Nat /\ DOMAIN pairs = 1..Len(pairs) /\ \A i \in 1..Len(pairs) : FromIndex(pairs[i]) \in Hits
  BY FromIndexType
<1>2. PairsHits(pairs) \in [1..Len(pairs) -> Hits]
  BY <1>1 DEF PairsHits
<1> QED BY <1>1, <1>2

(***************************************************************************)
(* They are results, one for each part, if those less deep are.            *)
(***************************************************************************)
LEMMA ArgsHitsType ==
    ASSUME NEW f \in Queries, f.type \in {"And", "Or"},
           NEW e, \A g \in Queries : Depth[g] < Depth[f] => e[g] \in Hits
    PROVE  ArgsHits(e, f.args) \in Seq(Hits) /\ Len(ArgsHits(e, f.args)) = Len(f.args)
<1>1. Len(f.args) \in Nat /\ DOMAIN f.args = 1..Len(f.args) /\ \A i \in 1..Len(f.args) : e[f.args[i]] \in Hits
  BY Shapes
<1>2. ArgsHits(e, f.args) \in [1..Len(f.args) -> Hits]
  BY <1>1 DEF ArgsHits
<1> QED BY <1>1, <1>2

(***************************************************************************)
(* What a filter finds, from what its parts find.                          *)
(***************************************************************************)
LEMMA EvaluateIs ==
    ASSUME IndexType
    PROVE  /\ Evaluate \in [Queries -> Hits]
           /\ \A f \in Queries :
                 /\ f.type = "Eq" => Evaluate[f] = FromIndex(f.pair)
                 /\ f.type = "In" => Evaluate[f] = AnyOf(PairsHits(f.pairs))
                 /\ f.type = "Or" => Evaluate[f] = AnyOf(ArgsHits(Evaluate, f.args))
                 /\ f.type = "And" => Evaluate[f] = AllOf(ArgsHits(Evaluate, f.args))
<1> DEFINE rule(e, f) == IF f.type \in {"Eq", "In"} THEN Lookup(f) ELSE Combine(f, ArgsHits(e, f.args))
           F == [Queries -> Hits]
           g == [e \in F |-> [f \in Queries |-> rule(e, f)]]
           IsRule(e) == e = [f \in Queries |-> rule(e, f)]
<1>0. \A e : \A f \in Queries :
          /\ f.type = "Eq" => rule(e, f) = FromIndex(f.pair)
          /\ f.type = "In" => rule(e, f) = AnyOf(PairsHits(f.pairs))
          /\ f.type = "Or" => rule(e, f) = AnyOf(ArgsHits(e, f.args))
          /\ f.type = "And" => rule(e, f) = AllOf(ArgsHits(e, f.args))
  BY DEF Lookup, Combine, PairsHits
<1>8. Evaluate = CHOOSE e : IsRule(e)
  BY DEF Evaluate, ArgsHits
<1>1. \A e : \A f \in Queries : (\A h \in Queries : Depth[h] < Depth[f] => e[h] \in Hits) => rule(e, f) \in Hits
  <2> SUFFICES ASSUME NEW e, NEW f \in Queries, \A h \in Queries : Depth[h] < Depth[f] => e[h] \in Hits
               PROVE  rule(e, f) \in Hits
    OBVIOUS
  <2> HIDE DEF rule
  <2>1. f.type \in {"Eq", "In", "And", "Or"}
    BY Shapes
  <2>2. CASE f.type = "Eq"
    <3>1. f.pair \in Pair
      BY <2>2, Shapes
    <3> QED BY <1>0, <2>2, <3>1, FromIndexType
  <2>3. CASE f.type = "In"
    <3>1. f.pairs \in Seq(Pair)
      BY <2>3, Shapes
    <3>2. AnyOf(PairsHits(f.pairs)) \in Hits
      BY <3>1, PairsHitsType, AnyOfFinds
    <3> QED BY <1>0, <2>3, <3>2
  <2>4. CASE f.type = "Or"
    <3>1. AnyOf(ArgsHits(e, f.args)) \in Hits
      BY <2>4, ArgsHitsType, AnyOfFinds
    <3> QED BY <1>0, <2>4, <3>1
  <2>5. CASE f.type = "And"
    <3>1. AllOf(ArgsHits(e, f.args)) \in Hits
      BY <2>5, ArgsHitsType, AllOfFinds
    <3> QED BY <1>0, <2>5, <3>1
  <2> QED BY <2>1, <2>2, <2>3, <2>4, <2>5
<1>2. \A d, e : \A f \in Queries :
          (\A h \in Queries : Depth[h] < Depth[f] => d[h] = e[h]) => rule(d, f) = rule(e, f)
  <2> SUFFICES ASSUME NEW d, NEW e, NEW f \in Queries, \A h \in Queries : Depth[h] < Depth[f] => d[h] = e[h]
               PROVE  rule(d, f) = rule(e, f)
    OBVIOUS
  <2>1. CASE f.type \in {"And", "Or"}
    <3>1. ArgsHits(d, f.args) = ArgsHits(e, f.args)
      BY <2>1, Shapes DEF ArgsHits
    <3> QED BY <3>1
  <2>2. CASE f.type \notin {"And", "Or"}
    <3>1. f.type \in {"Eq", "In"}
      BY <2>2, Shapes
    <3> QED BY <3>1
  <2> QED BY <2>1, <2>2
<1> HIDE DEF rule
<1>3. Depth \in [Queries -> Nat]
  BY FilterAssumption
<1>4. \E e : IsRule(e)
  <2>1. \A e \in F : \A f \in Queries : rule(e, f) \in Hits
    BY <1>1
  <2>2. g \in [F -> F]
    BY <2>1
  <2>3. \A d, e \in F : \A f \in Queries :
          (\A h \in Queries : Depth[h] < Depth[f] => d[h] = e[h]) => g[d][f] = g[e][f]
    BY <1>2
  <2>4. LooksDown(Queries, Depth, Hits, g)
    <3> HIDE DEF g
    <3> QED BY <2>3 DEF LooksDown
  <2>5. Hits # {}
    BY NothingFound
  <2>6. FixedPoints(Queries, Hits, g) # {}
    <3> HIDE DEF g
    <3> QED BY <1>3, <2>2, <2>4, <2>5, Recursion
  <2>7. PICK e \in FixedPoints(Queries, Hits, g) : TRUE
    BY <2>6
  <2>8. e \in F /\ g[e] = e
    <3> HIDE DEF g
    <3> QED BY <2>7 DEF FixedPoints
  <2> QED BY <2>8
<1>5. IsRule(Evaluate)
  <2> HIDE DEF IsRule
  <2> QED BY <1>4, <1>8
<1>6. \A f \in Queries : Evaluate[f] = rule(Evaluate, f)
  BY <1>5
<1> DEFINE P == {f \in Queries : Evaluate[f] \in Hits}
<1>7. P = Queries
  <2>1. \A f \in Queries : (\A h \in Queries : Depth[h] < Depth[f] => h \in P) => f \in P
    BY <1>1, <1>6
  <2> HIDE DEF P
  <2>2. P \in SUBSET Queries
    BY DEF P
  <2> QED BY <1>3, <2>1, <2>2, DepthInduction
<1>9. Evaluate \in [Queries -> Hits]
  BY <1>5, <1>7
<1> QED BY <1>0, <1>6, <1>9

(***************************************************************************)
(* The parts of a filter are filters less deep.                            *)
(***************************************************************************)
LEMMA PartsBelow == \A f \in Queries : \A g \in Parts(f) : g \in Queries /\ Depth[g] < Depth[f]
BY Shapes DEF Parts

(***************************************************************************)
(* The meaning of filters satisfies the recursion that defines it,         *)
(***************************************************************************)
LEMMA MeaningIs == Meaning = [f \in Queries |-> {i \in DOMAIN carried :
               \/ f.type = "Eq" /\ i \in With(f.pair)
               \/ f.type = "In" /\ \E p \in ToSet(f.pairs) : i \in With(p)
               \/ f.type = "Or" /\ \E h \in ToSet(f.args) : i \in Meaning[h]
               \/ f.type = "And" /\ f.args # <<>> /\ \A h \in ToSet(f.args) : i \in Meaning[h]}]
<1> DEFINE rule(e, f) == {i \in DOMAIN carried :
               \/ f.type = "Eq" /\ i \in With(f.pair)
               \/ f.type = "In" /\ \E p \in ToSet(f.pairs) : i \in With(p)
               \/ f.type = "Or" /\ \E h \in ToSet(f.args) : i \in e[h]
               \/ f.type = "And" /\ f.args # <<>> /\ \A h \in ToSet(f.args) : i \in e[h]}
           T == SUBSET DOMAIN carried
           F == [Queries -> T]
           g == [e \in F |-> [f \in Queries |-> rule(e, f)]]
           IsRule(e) == e = [f \in Queries |-> rule(e, f)]
<1>1. \A e \in F : \A f \in Queries : rule(e, f) \in T
  BY PartsBelow
<1>2. ASSUME NEW d \in F, NEW e \in F, NEW f \in Queries,
             \A h \in Queries : Depth[h] < Depth[f] => d[h] = e[h]
      PROVE  rule(d, f) = rule(e, f)
  <2>1. \A h \in Parts(f) : d[h] = e[h]
    BY <1>2, PartsBelow
  <2> QED BY <2>1 DEF Parts
<1>3. Meaning = CHOOSE e : IsRule(e)
  BY DEF Meaning
<1>4. Depth \in [Queries -> Nat]
  BY FilterAssumption
<1> HIDE DEF rule
<1>5. \E e : IsRule(e)
  <2>1. g \in [F -> F]
    <3> HIDE DEF T
    <3> QED BY <1>1
  <2>2. \A d, e \in F : \A f \in Queries :
          (\A h \in Queries : Depth[h] < Depth[f] => d[h] = e[h]) => g[d][f] = g[e][f]
    <3> HIDE DEF T
    <3> QED BY <1>2
  <2> HIDE DEF T
  <2>3. LooksDown(Queries, Depth, T, g)
    <3> HIDE DEF g
    <3> QED BY <2>2 DEF LooksDown
  <2>4. T # {}
    BY DEF T
  <2>5. FixedPoints(Queries, T, g) # {}
    <3> HIDE DEF g
    <3> QED BY <1>4, <2>1, <2>3, <2>4, Recursion
  <2>6. PICK e \in FixedPoints(Queries, T, g) : TRUE
    BY <2>5
  <2>7. e \in F /\ g[e] = e
    <3> HIDE DEF g
    <3> QED BY <2>6 DEF FixedPoints
  <2> QED BY <2>7
<1>6. IsRule(Meaning)
  <2> HIDE DEF IsRule
  <2> QED BY <1>3, <1>5
<1> QED BY <1>6 DEF rule

(***************************************************************************)
(* as do the Ands in them that forget,                                     *)
(***************************************************************************)
LEMMA ForgetfulIs == Forgetful = [f \in Queries |-> {h \in {f} : Forgets(h)} \cup UNION {Forgetful[h] : h \in Parts(f)}]
<1> DEFINE rule(e, f) == {h \in {f} : Forgets(h)} \cup UNION {e[h] : h \in Parts(f)}
           T == SUBSET Queries
           F == [Queries -> T]
           g == [e \in F |-> [f \in Queries |-> rule(e, f)]]
           IsRule(e) == e = [f \in Queries |-> rule(e, f)]
<1>1. \A e \in F : \A f \in Queries : rule(e, f) \in T
  BY PartsBelow
<1>2. ASSUME NEW d \in F, NEW e \in F, NEW f \in Queries,
             \A h \in Queries : Depth[h] < Depth[f] => d[h] = e[h]
      PROVE  rule(d, f) = rule(e, f)
  <2>1. \A h \in Parts(f) : d[h] = e[h]
    BY <1>2, PartsBelow
  <2> QED BY <2>1
<1>3. Forgetful = CHOOSE e : IsRule(e)
  BY DEF Forgetful
<1>4. Depth \in [Queries -> Nat]
  BY FilterAssumption
<1> HIDE DEF rule
<1>5. \E e : IsRule(e)
  <2>1. g \in [F -> F]
    <3> HIDE DEF T
    <3> QED BY <1>1
  <2>2. \A d, e \in F : \A f \in Queries :
          (\A h \in Queries : Depth[h] < Depth[f] => d[h] = e[h]) => g[d][f] = g[e][f]
    <3> HIDE DEF T
    <3> QED BY <1>2
  <2> HIDE DEF T
  <2>3. LooksDown(Queries, Depth, T, g)
    <3> HIDE DEF g
    <3> QED BY <2>2 DEF LooksDown
  <2>4. T # {}
    BY DEF T
  <2>5. FixedPoints(Queries, T, g) # {}
    <3> HIDE DEF g
    <3> QED BY <1>4, <2>1, <2>3, <2>4, Recursion
  <2>6. PICK e \in FixedPoints(Queries, T, g) : TRUE
    BY <2>5
  <2>7. e \in F /\ g[e] = e
    <3> HIDE DEF g
    <3> QED BY <2>6 DEF FixedPoints
  <2> QED BY <2>7
<1>6. IsRule(Forgetful)
  <2> HIDE DEF IsRule
  <2> QED BY <1>3, <1>5
<1> QED BY <1>6 DEF rule

(***************************************************************************)
(* and the pairs they name.                                                *)
(***************************************************************************)
LEMMA AtomsIs == Atoms = [f \in Queries |-> Named(f) \cup UNION {Atoms[h] : h \in Parts(f)}]
<1> DEFINE rule(e, f) == Named(f) \cup UNION {e[h] : h \in Parts(f)}
           T == SUBSET Pair
           F == [Queries -> T]
           g == [e \in F |-> [f \in Queries |-> rule(e, f)]]
           IsRule(e) == e = [f \in Queries |-> rule(e, f)]
<1>1. \A e \in F : \A f \in Queries : rule(e, f) \in T
  BY PartsBelow DEF Named
<1>2. ASSUME NEW d \in F, NEW e \in F, NEW f \in Queries,
             \A h \in Queries : Depth[h] < Depth[f] => d[h] = e[h]
      PROVE  rule(d, f) = rule(e, f)
  <2>1. \A h \in Parts(f) : d[h] = e[h]
    BY <1>2, PartsBelow
  <2> QED BY <2>1
<1>3. Atoms = CHOOSE e : IsRule(e)
  BY DEF Atoms
<1>4. Depth \in [Queries -> Nat]
  BY FilterAssumption
<1> HIDE DEF rule
<1>5. \E e : IsRule(e)
  <2>1. g \in [F -> F]
    <3> HIDE DEF T
    <3> QED BY <1>1
  <2>2. \A d, e \in F : \A f \in Queries :
          (\A h \in Queries : Depth[h] < Depth[f] => d[h] = e[h]) => g[d][f] = g[e][f]
    <3> HIDE DEF T
    <3> QED BY <1>2
  <2> HIDE DEF T
  <2>3. LooksDown(Queries, Depth, T, g)
    <3> HIDE DEF g
    <3> QED BY <2>2 DEF LooksDown
  <2>4. T # {}
    BY DEF T
  <2>5. FixedPoints(Queries, T, g) # {}
    <3> HIDE DEF g
    <3> QED BY <1>4, <2>1, <2>3, <2>4, Recursion
  <2>6. PICK e \in FixedPoints(Queries, T, g) : TRUE
    BY <2>5
  <2>7. e \in F /\ g[e] = e
    <3> HIDE DEF g
    <3> QED BY <2>6 DEF FixedPoints
  <2> QED BY <2>7
<1>6. IsRule(Atoms)
  <2> HIDE DEF IsRule
  <2> QED BY <1>3, <1>5
<1> QED BY <1>6 DEF rule

-----------------------------------------------------------------------------
(***************************************************************************)
(* What a pair alone finds: the vectors that carry it.                     *)
(***************************************************************************)
LEMMA PairFinds ==
    ASSUME IndexInv, NEW p \in Pair
    PROVE  LET h == FromIndex(p)
           IN  /\ h \in Hits /\ ToSet(h.indices) = With(p) /\ InStep(h)
               /\ Single(p) => Tidy(h)
<1> DEFINE h == FromIndex(p)
           c == Carrying(carried, 1, p)
<1>1. IndexType /\ IdsAligned /\ carried \in Seq(Seq(Pair))
  BY IndexAssumption DEF IndexInv, IndexType
<1>2. h \in Hits
  BY <1>1, FromIndexType
<1>3. h.indices = Decompress(items[p].runs) /\ h.ids = items[p].ids
  BY DEF FromIndex
<1>4. /\ h.ids = Ids(c) /\ ToSet(h.indices) = ToSet(c)
      /\ Single(p) => h.indices = c
  BY <1>1, <1>3 DEF IdsAligned, Ids
<1>5. /\ c \in Seq(Int) /\ NonDecreasing(c)
      /\ ToSet(c) = {1 + i - 1 : i \in {k \in 1..Len(carried) : p \in ToSet(carried[k])}}
  BY <1>1, CarryingIs
<1>6. ToSet(c) = With(p)
  <2>1. DOMAIN carried = 1..Len(carried) /\ Len(carried) \in Nat
    BY <1>1
  <2>2. \A i \in 1..Len(carried) : 1 + i - 1 = i
    BY <2>1
  <2>3. With(p) = {k \in 1..Len(carried) : p \in ToSet(carried[k])}
    BY <2>1 DEF With
  <2> HIDE DEF c
  <2>4. {1 + i - 1 : i \in {k \in 1..Len(carried) : p \in ToSet(carried[k])}} = {k \in 1..Len(carried) : p \in ToSet(carried[k])}
    BY <2>2
  <2> QED BY <1>5, <2>3, <2>4
<1>7. Single(p) <=> IsInjective(c)
  BY DEF Single
<1> HIDE DEF c, h
<1>8. DOMAIN c = 1..Len(c) /\ Len(c) \in Nat /\ \A i \in 1..Len(c) : c[i] \in Int
  BY <1>5
<1>9. DOMAIN Ids(c) = 1..Len(c) /\ Len(Ids(c)) = Len(c) /\ \A i \in 1..Len(c) : Ids(c)[i] = IdOf(c[i])
  BY <1>8 DEF Ids
<1>10. ToSet(Ids(c)) = {IdOf(x) : x \in ToSet(c)}
  BY <1>8, <1>9 DEF ToSet
<1>11. InStep(h)
  BY <1>4, <1>10 DEF InStep
<1>12. ASSUME Single(p) PROVE Tidy(h)
  <2>1. IsInjective(c)
    BY <1>7, <1>12
  <2>2. Increasing(c)
    BY <1>5, <2>1, InjectiveIncreases
  <2>3. \A i, j \in 1..Len(c) : IdOf(c[i]) = IdOf(c[j]) => c[i] = c[j]
    BY <1>8 DEF IdOf
  <2>4. \A i, j \in 1..Len(c) : c[i] = c[j] => i = j
    BY <1>8, <2>1 DEF IsInjective
  <2>5. Distinct(Ids(c))
    BY <1>9, <2>3, <2>4 DEF Distinct
  <2> QED BY <1>4, <1>12, <2>2, <2>5 DEF Tidy
<1> QED BY <1>2, <1>4, <1>6, <1>11, <1>12 DEF h

(***************************************************************************)
(* What each filter is to find, and in which shape.                        *)
(***************************************************************************)
FindsAll(f, h) == Meaning[f] \subseteq ToSet(h.indices)

(***************************************************************************)
(* What a filter finds satisfies it, if no And in it forgets.              *)
(***************************************************************************)
FindsOnly(f, h) == Forgetful[f] = {} => ToSet(h.indices) \subseteq Meaning[f]

(***************************************************************************)
(* What the properties say of a filter, in a form that its parts hand on.  *)
(***************************************************************************)
Right(f, h) ==
    /\ h \in Hits /\ InStep(h) /\ FindsAll(f, h) /\ FindsOnly(f, h)
    /\ (\A p \in Atoms[f] : Single(p)) => Tidy(h)

(***************************************************************************)
(* An Eq is right.                                                         *)
(***************************************************************************)
LEMMA EqRight ==
    ASSUME IndexInv, NEW f \in Queries, f.type = "Eq"
    PROVE  Right(f, Evaluate[f])
<1>1. f.pair \in Pair /\ Evaluate[f] = FromIndex(f.pair)
  BY Shapes, EvaluateIs DEF IndexInv
<1>2. Meaning[f] = {i \in DOMAIN carried : i \in With(f.pair)}
  BY MeaningIs
<1>3. Meaning[f] = With(f.pair)
  BY <1>2 DEF With
<1>4. f.pair \in Atoms[f]
  <2>1. f.pair \in Named(f)
    BY <1>1 DEF Named
  <2>2. Atoms[f] = Named(f) \cup UNION {Atoms[h] : h \in Parts(f)}
    BY AtomsIs
  <2> QED BY <2>1, <2>2
<1> DEFINE h == Evaluate[f]
<1>5. h \in Hits /\ ToSet(h.indices) = With(f.pair) /\ InStep(h) /\ (Single(f.pair) => Tidy(h))
  BY <1>1, PairFinds
<1> HIDE DEF h
<1> QED BY <1>3, <1>4, <1>5 DEF Right, FindsAll, FindsOnly, h

(***************************************************************************)
(* An In is right.                                                         *)
(***************************************************************************)
LEMMA InRight ==
    ASSUME IndexInv, NEW f \in Queries, f.type = "In"
    PROVE  Right(f, Evaluate[f])
<1> DEFINE pairs == f.pairs
           s == PairsHits(f.pairs)
           h == Evaluate[f]
<1>1. pairs \in Seq(Pair) /\ IndexType
  BY Shapes DEF IndexInv
<1>2. h = AnyOf(s) /\ s \in Seq(Hits) /\ Len(s) = Len(pairs)
  BY <1>1, EvaluateIs, PairsHitsType
<1>3. /\ Len(pairs) \in Nat /\ DOMAIN pairs = 1..Len(pairs)
      /\ \A i \in 1..Len(pairs) : pairs[i] \in Pair /\ s[i] = FromIndex(pairs[i])
  BY <1>1 DEF PairsHits
<1>4. Meaning[f] = {i \in DOMAIN carried : \E p \in ToSet(pairs) : i \in With(p)}
  BY MeaningIs
<1> HIDE DEF pairs, s, h
<1>5. \A i \in 1..Len(s) : ToSet(s[i].indices) = With(pairs[i]) /\ InStep(s[i])
  BY <1>2, <1>3, PairFinds
<1>6. /\ h \in Hits /\ Tidy(h) /\ ToSet(h.indices) = Found(s, Len(s))
      /\ (\A i \in 1..Len(s) : InStep(s[i])) => InStep(h)
  BY <1>2, AnyOfFinds
<1>7. Meaning[f] = UNION {With(pairs[i]) : i \in 1..Len(pairs)}
  <2>1. \A p : With(p) \subseteq DOMAIN carried
    BY DEF With
  <2>2. ToSet(pairs) = {pairs[i] : i \in 1..Len(pairs)}
    BY <1>3 DEF ToSet
  <2> QED BY <1>4, <2>1, <2>2
<1>8. Found(s, Len(s)) = Meaning[f]
  BY <1>2, <1>5, <1>7 DEF Found
<1> QED BY <1>5, <1>6, <1>8 DEF Right, FindsAll, FindsOnly, h

(***************************************************************************)
(* The parts of an Or or And, and what they pass on to it.                 *)
(***************************************************************************)
LEMMA PartsPass ==
    ASSUME IndexInv, NEW f \in Queries, f.type \in {"And", "Or"}
    PROVE  LET args == f.args
               s == ArgsHits(Evaluate, args)
           IN  /\ s \in Seq(Hits) /\ Len(s) \in Nat /\ Len(args) = Len(s) /\ ToSet(args) = {args[i] : i \in 1..Len(s)}
               /\ \A i \in 1..Len(s) :
                     /\ s[i] = Evaluate[args[i]] /\ args[i] \in Queries /\ Depth[args[i]] < Depth[f]
                     /\ Forgetful[args[i]] \subseteq Forgetful[f]
                     /\ Atoms[args[i]] \subseteq Atoms[f]
                     /\ Meaning[args[i]] \subseteq DOMAIN carried
<1> DEFINE args == f.args
           s == ArgsHits(Evaluate, args)
<1>1. \A g \in Queries : Evaluate[g] \in Hits
  BY EvaluateIs DEF IndexInv
<1>2. /\ args \in Seq(Queries) /\ Len(args) \in Nat /\ DOMAIN args = 1..Len(args)
      /\ \A i \in 1..Len(args) : args[i] \in Queries /\ Depth[args[i]] < Depth[f]
  BY Shapes
<1>3. s \in Seq(Hits) /\ Len(s) = Len(args)
  BY <1>1, ArgsHitsType
<1>4. Parts(f) = ToSet(args) /\ ToSet(args) = {args[i] : i \in 1..Len(args)}
  BY <1>2 DEF Parts, ToSet
<1>5. \A i \in 1..Len(args) : s[i] = Evaluate[args[i]]
  BY <1>2 DEF ArgsHits
<1> HIDE DEF args, s
<1>6. ASSUME NEW i \in 1..Len(args)
      PROVE  /\ Forgetful[args[i]] \subseteq Forgetful[f]
             /\ Atoms[args[i]] \subseteq Atoms[f]
             /\ Meaning[args[i]] \subseteq DOMAIN carried
  <2> DEFINE g == args[i]
  <2>1. g \in Parts(f) /\ g \in Queries
    BY <1>2, <1>4
  <2> HIDE DEF g
  <2>2. Forgetful[f] = {h \in {f} : Forgets(h)} \cup UNION {Forgetful[h] : h \in Parts(f)}
    BY ForgetfulIs
  <2>3. Atoms[f] = Named(f) \cup UNION {Atoms[h] : h \in Parts(f)}
    BY AtomsIs
  <2>4. Meaning[g] \subseteq DOMAIN carried
    BY <2>1, MeaningIs
  <2>5. Forgetful[g] \subseteq Forgetful[f]
    BY <2>1, <2>2
  <2>6. Atoms[g] \subseteq Atoms[f]
    BY <2>1, <2>3
  <2> QED BY <2>4, <2>5, <2>6 DEF g
<1> QED BY <1>2, <1>3, <1>4, <1>5, <1>6 DEF args, s

(***************************************************************************)
(* An Or is right if its parts are.                                        *)
(***************************************************************************)
LEMMA OrRight ==
    ASSUME IndexInv, NEW f \in Queries, f.type = "Or",
           \A g \in Queries : Depth[g] < Depth[f] => Right(g, Evaluate[g])
    PROVE  Right(f, Evaluate[f])
<1> DEFINE args == f.args
           s == ArgsHits(Evaluate, f.args)
           h == Evaluate[f]
           n == Len(s)
<1>1. /\ s \in Seq(Hits) /\ n \in Nat /\ ToSet(args) = {args[i] : i \in 1..n}
      /\ \A i \in 1..n : /\ s[i] = Evaluate[args[i]] /\ args[i] \in Queries /\ Depth[args[i]] < Depth[f]
                         /\ Forgetful[args[i]] \subseteq Forgetful[f]
                         /\ Meaning[args[i]] \subseteq DOMAIN carried
  BY PartsPass
<1>2. h = AnyOf(s)
  BY EvaluateIs DEF IndexInv
<1>3. Meaning[f] = {i \in DOMAIN carried : \E g \in ToSet(args) : i \in Meaning[g]}
  BY MeaningIs
<1> HIDE DEF args, s, h
<1>4. /\ h \in Hits /\ Tidy(h) /\ ToSet(h.indices) = Found(s, n)
      /\ (\A i \in 1..n : InStep(s[i])) => InStep(h)
  BY <1>1, <1>2, AnyOfFinds
<1> HIDE DEF n
<1>5. \A i \in 1..n : Right(args[i], s[i])
  BY <1>1
<1>6. \A i \in 1..n : InStep(s[i])
  BY <1>5 DEF Right
<1>7. \A x : x \in Meaning[f] <=> \E i \in 1..n : x \in Meaning[args[i]]
  BY <1>1, <1>3
<1>8. \A x : x \in ToSet(h.indices) <=> \E i \in 1..n : x \in ToSet(s[i].indices)
  BY <1>4 DEF Found
<1>9. FindsAll(f, h)
  <2>1. \A i \in 1..n : Meaning[args[i]] \subseteq ToSet(s[i].indices)
    BY <1>5 DEF Right, FindsAll
  <2> QED BY <1>7, <1>8, <2>1 DEF FindsAll
<1>10. FindsOnly(f, h)
  <2> SUFFICES ASSUME Forgetful[f] = {} PROVE ToSet(h.indices) \subseteq Meaning[f]
    BY DEF FindsOnly
  <2>1. \A i \in 1..n : Forgetful[args[i]] = {}
    BY <1>1
  <2>2. \A i \in 1..n : ToSet(s[i].indices) \subseteq Meaning[args[i]]
    BY <1>5, <2>1 DEF Right, FindsOnly
  <2> QED BY <1>7, <1>8, <2>2
<1> QED BY <1>4, <1>6, <1>9, <1>10 DEF Right, h

(***************************************************************************)
(* An And is right if its parts are.                                       *)
(***************************************************************************)
LEMMA AndRight ==
    ASSUME IndexInv, NEW f \in Queries, f.type = "And",
           \A g \in Queries : Depth[g] < Depth[f] => Right(g, Evaluate[g])
    PROVE  Right(f, Evaluate[f])
<1> DEFINE args == f.args
           s == ArgsHits(Evaluate, f.args)
           h == Evaluate[f]
           n == Len(s)
<1>1. /\ s \in Seq(Hits) /\ n \in Nat /\ Len(args) = n /\ ToSet(args) = {args[i] : i \in 1..n}
      /\ \A i \in 1..n : /\ s[i] = Evaluate[args[i]] /\ args[i] \in Queries /\ Depth[args[i]] < Depth[f]
                         /\ Forgetful[args[i]] \subseteq Forgetful[f]
                         /\ Atoms[args[i]] \subseteq Atoms[f]
                         /\ Meaning[args[i]] \subseteq DOMAIN carried
  BY PartsPass
<1>2. h = AllOf(s)
  BY EvaluateIs DEF IndexInv
<1>3. Meaning[f] = {i \in DOMAIN carried : args # <<>> /\ \A g \in ToSet(args) : i \in Meaning[g]}
  BY MeaningIs
<1>4. Forgets(f) <=> \E k \in 1..(n - 1) : \A i \in DOMAIN carried : \E j \in 1..k : i \notin Meaning[args[j]]
  BY <1>1 DEF Forgets
<1>5. Forgetful[f] = {} => ~Forgets(f)
  <2>1. Forgetful[f] = {g \in {f} : Forgets(g)} \cup UNION {Forgetful[g] : g \in Parts(f)}
    BY ForgetfulIs
  <2> QED BY <2>1
<1>6. args # <<>> <=> n # 0
  <2>1. args \in Seq(Queries)
    BY Shapes
  <2> HIDE DEF args, s
  <2> QED BY <1>1, <2>1
<1>7. \A i \in DOMAIN carried : i \in Int
  BY IndexAssumption DEF IndexInv, IndexType
<1> HIDE DEF args, s, h
<1>8. /\ h \in Hits
      /\ n = 0 => h = NoHits
      /\ n # 0 => Meet(s, n) \subseteq ToSet(h.indices)
      /\ n # 0 => ToSet(h.indices) \subseteq ToSet(s[n].indices)
      /\ (n # 0 /\ \A k \in 1..(n - 1) : Meet(s, k) # {}) => ToSet(h.indices) \subseteq Meet(s, n)
      /\ (\A i \in 1..n : InStep(s[i])) => InStep(h)
      /\ (\A i \in 1..n : Tidy(s[i])) => Tidy(h)
  BY <1>1, <1>2, AllOfFinds
<1> HIDE DEF n
<1>9. \A i \in 1..n : Right(args[i], s[i])
  BY <1>1
<1>10. \A i \in 1..n : InStep(s[i]) /\ Meaning[args[i]] \subseteq ToSet(s[i].indices)
  BY <1>9 DEF Right, FindsAll
<1>11. \A x : x \in Meaning[f] <=> x \in DOMAIN carried /\ n # 0 /\ \A i \in 1..n : x \in Meaning[args[i]]
  BY <1>1, <1>3, <1>6
<1>12. FindsAll(f, h)
  <2>1. \A x \in Meaning[f] : x \in Meet(s, n) /\ n # 0
    BY <1>7, <1>10, <1>11 DEF Meet
  <2> QED BY <1>8, <2>1 DEF FindsAll
<1>13. FindsOnly(f, h)
  <2> SUFFICES ASSUME Forgetful[f] = {}, n # 0 PROVE ToSet(h.indices) \subseteq Meaning[f]
    <3>1. n = 0 => ToSet(h.indices) = {}
      BY <1>8, NothingFound
    <3> QED BY <3>1 DEF FindsOnly
  <2>1. \A i \in 1..n : Forgetful[args[i]] = {}
    BY <1>1
  <2>2. \A i \in 1..n : ToSet(s[i].indices) \subseteq Meaning[args[i]]
    BY <1>9, <2>1 DEF Right, FindsOnly
  <2>3. ASSUME NEW k \in 1..(n - 1) PROVE Meet(s, k) # {}
    <3>1. PICK x \in DOMAIN carried : \A j \in 1..k : x \in Meaning[args[j]]
      BY <1>4, <1>5
    <3>2. \A j \in 1..k : j \in 1..n
      BY <1>1
    <3>3. x \in Meet(s, k)
      BY <1>7, <1>10, <3>1, <3>2 DEF Meet
    <3> QED BY <3>3
  <2>4. ToSet(h.indices) \subseteq Meet(s, n)
    BY <1>8, <2>3
  <2>5. \A x \in Meet(s, n) : \A i \in 1..n : x \in Meaning[args[i]]
    BY <2>2 DEF Meet
  <2>6. 1 \in 1..n
    BY <1>1
  <2>7. \A x \in Meet(s, n) : x \in DOMAIN carried
    BY <1>1, <2>5, <2>6
  <2> QED BY <1>11, <2>4, <2>5, <2>7
<1>14. ASSUME \A p \in Atoms[f] : Single(p) PROVE Tidy(h)
  <2>1. \A i \in 1..n : \A p \in Atoms[args[i]] : Single(p)
    BY <1>1, <1>14
  <2>2. \A i \in 1..n : Tidy(s[i])
    BY <1>9, <2>1 DEF Right
  <2> QED BY <1>8, <2>2
<1> QED BY <1>8, <1>10, <1>12, <1>13, <1>14 DEF Right, h

(***************************************************************************)
(* However it is nested, a filter finds what it is to find.                *)
(***************************************************************************)
LEMMA EveryRight == IndexInv => \A f \in Queries : Right(f, Evaluate[f])
<1> SUFFICES ASSUME IndexInv PROVE \A f \in Queries : Right(f, Evaluate[f])
  OBVIOUS
<1> DEFINE P == {f \in Queries : Right(f, Evaluate[f])}
<1>1. ASSUME NEW f \in Queries, \A g \in Queries : Depth[g] < Depth[f] => g \in P PROVE f \in P
  <2>1. \A g \in Queries : Depth[g] < Depth[f] => Right(g, Evaluate[g])
    BY <1>1
  <2>2. f.type \in {"Eq", "In", "And", "Or"}
    BY Shapes
  <2>3. Right(f, Evaluate[f])
    BY <2>1, <2>2, EqRight, InRight, OrRight, AndRight
  <2> QED BY <2>3
<1>2. P \in SUBSET Queries /\ Depth \in [Queries -> Nat]
  BY FilterAssumption
<1>3. P = Queries
  <2> HIDE DEF P
  <2> QED BY <1>1, <1>2, DepthInduction
<1> QED BY <1>3

(***************************************************************************)
(* A filter finds every vector that satisfies it: Spec => []NothingMissed  *)
(***************************************************************************)
THEOREM FiltersMissNothing == Spec => []NothingMissed
<1>1. IndexInv => NothingMissed
  BY EveryRight DEF Right, FindsAll, NothingMissed
<1> QED BY <1>1, IndexInvariant, PTL

(***************************************************************************)
(* A filter finds nothing but the vectors that satisfy it, unless some And *)
(* in it forgets: filters.rs, evaluate.                                    *)
(***************************************************************************)
THEOREM FiltersHitWhatIsMeant == Spec => []HitsAreMeant
<1>1. IndexInv => HitsAreMeant
  BY EveryRight DEF Right, FindsOnly, HitsAreMeant
<1> QED BY <1>1, IndexInvariant, PTL

(***************************************************************************)
(* All that an And finds is found by its last filter, whatever the others  *)
(* forget: filters.rs, evaluate.                                           *)
(***************************************************************************)
THEOREM LastConjunctAlwaysHolds == Spec => []LastConjunctHolds
<1>1. ASSUME IndexInv, NEW f \in Queries, f.type = "And", f.args # <<>>
      PROVE  ToSet(Evaluate[f].indices) \subseteq ToSet(Evaluate[Last(f.args)].indices)
  <2> DEFINE args == f.args
             s == ArgsHits(Evaluate, args)
             n == Len(s)
  <2>1. /\ s \in Seq(Hits) /\ n \in Nat /\ Len(args) = n
        /\ \A i \in 1..n : s[i] = Evaluate[args[i]]
    BY <1>1, PartsPass
  <2>2. Evaluate[f] = AllOf(s)
    BY <1>1, EvaluateIs DEF IndexInv
  <2>3. args \in Seq(Queries)
    BY <1>1, Shapes
  <2>4. n # 0 /\ Last(args) = args[n]
    <3> HIDE DEF args, s
    <3>1. args # <<>>
      BY <1>1 DEF args
    <3> QED BY <2>1, <2>3, <3>1 DEF Last
  <2>5. n # 0 => ToSet(AllOf(s).indices) \subseteq ToSet(s[n].indices)
    <3> HIDE DEF s
    <3> QED BY <2>1, AllOfFinds
  <2>6. s[n] = Evaluate[args[n]]
    <3> HIDE DEF args, s
    <3>1. n \in 1..n
      BY <2>1, <2>4
    <3> QED BY <2>1, <3>1
  <2> HIDE DEF s, n
  <2> QED BY <2>2, <2>4, <2>5, <2>6
<1>2. IndexInv => LastConjunctHolds
  BY <1>1 DEF LastConjunctHolds
<1> QED BY <1>2, IndexInvariant, PTL

(***************************************************************************)
(* The two lists that a filter finds name the same vectors, and its        *)
(* indices ascend without duplicates unless a vector repeats a pair:       *)
(* filters.rs, evaluate, intersection and union.                           *)
(***************************************************************************)
THEOREM ListsAlwaysAgree == Spec => []ListsAgree
<1>1. ASSUME IndexInv, NEW f \in Queries
      PROVE  LET hits == Evaluate[f]
             IN  /\ ToSet(hits.ids) = {IdOf(i) : i \in ToSet(hits.indices)}
                 /\ (\A p \in Atoms[f] : Single(p)) =>
                       /\ hits.indices = Ascending(ToSet(hits.indices))
                       /\ Len(hits.ids) = Len(hits.indices)
  <2> DEFINE h == Evaluate[f]
             I == h.indices
             J == h.ids
  <2>1. h \in Hits /\ InStep(h) /\ ((\A p \in Atoms[f] : Single(p)) => Tidy(h))
    BY <1>1, EveryRight DEF Right
  <2>2. I \in Seq(Int) /\ J \in Seq(Int)
    BY <2>1, HitsParts
  <2>3. ToSet(J) = {IdOf(i) : i \in ToSet(I)}
    BY <2>1 DEF InStep
  <2>4. ASSUME Tidy(h) PROVE I = Ascending(ToSet(I)) /\ Len(J) = Len(I)
    <3>1. Increasing(I) /\ Distinct(J)
      BY <2>4 DEF Tidy
    <3> HIDE DEF I, J, h
    <3>2. IsFiniteSet(ToSet(I)) /\ Cardinality(ToSet(I)) = Len(I) /\ Ascending(ToSet(I)) = I
      BY <2>2, <3>1, AscendingOfIncreasing
    <3>3. Cardinality(ToSet(J)) = Len(J)
      <4>1. Len(J) \in Nat /\ DOMAIN J = 1..Len(J)
        BY <2>2
      <4>2. ToSet(J) = {J[i] : i \in 1..Len(J)}
        BY <4>1 DEF ToSet
      <4>3. IsFiniteSet(1..Len(J)) /\ Cardinality(1..Len(J)) = Len(J)
        <5> DEFINE n == Len(J)
        <5>1. n \in Nat
          BY <4>1
        <5> HIDE DEF n
        <5>2. IsFiniteSet(1..n) /\ Cardinality(1..n) = n
          BY <5>1, FS_Interval
        <5> QED BY <5>2 DEF n
      <4> DEFINE S == 1..Len(J)
                 k == [i \in S |-> J[i]]
      <4>4. \A i, j \in S : k[i] = k[j] => i = j
        <5>1. \A i, j \in S : J[i] = J[j] => i = j
          BY <3>1 DEF Distinct
        <5> HIDE DEF S
        <5> QED BY <5>1
      <4>5. {k[i] : i \in S} = ToSet(J)
        BY <4>2
      <4>6. DOMAIN k = S
        OBVIOUS
      <4> HIDE DEF S, k
      <4>7. Cardinality({k[i] : i \in S}) = Cardinality(S)
        <5>1. IsFiniteSet(S)
          BY <4>3 DEF S
        <5> QED BY <4>4, <4>6, <5>1, SameSize
      <4> QED BY <4>3, <4>5, <4>7 DEF S
    <3>4. Cardinality(ToSet(I)) = Cardinality(ToSet(J))
      <4> DEFINE S == ToSet(I)
                 k == [x \in S |-> IdOf(x)]
      <4>1. \A x \in S : x \in Int
        BY <2>2, MembersFinite
      <4>2. ToSet(J) = {IdOf(x) : x \in S}
        BY <2>3
      <4>3. IsFiniteSet(S)
        BY <3>2
      <4> HIDE DEF S
      <4>4. \A x, y \in S : k[x] = k[y] => x = y
        BY <4>1 DEF IdOf
      <4>5. {k[x] : x \in S} = ToSet(J)
        BY <4>2
      <4>6. DOMAIN k = S
        OBVIOUS
      <4> HIDE DEF k
      <4>7. Cardinality({k[x] : x \in S}) = Cardinality(S)
        BY <4>3, <4>4, <4>6, SameSize
      <4> QED BY <4>5, <4>7 DEF S
    <3> QED BY <3>2, <3>3, <3>4
  <2> QED BY <2>1, <2>3, <2>4
<1>2. IndexInv => ListsAgree
  BY <1>1 DEF ListsAgree
<1> QED BY <1>2, IndexInvariant, PTL
=============================================================================
