------------------------------- MODULE Filters -------------------------------
(***************************************************************************)
(* structures/filters.rs: what a filter of a query finds in the inverted   *)
(* index.  A filter is Eq of a pair, In of a list of pairs with one key,   *)
(* or And or Or of a list of filters; what it finds is a list of indices   *)
(* and a list of ids, which each step treats separately.                   *)
(***************************************************************************)
EXTENDS InvertedIndex

CONSTANTS
    Queries,    \* the filters looked at, with all their parts
    Depth       \* how deep each is nested

Eq(p) == [type |-> "Eq", pair |-> p]
In(pairs) == [type |-> "In", pairs |-> pairs]
And(args) == [type |-> "And", args |-> args]
Or(args) == [type |-> "Or", args |-> args]

(***************************************************************************)
(* A filter holds its parts by value (filters.rs:9-14): its nesting ends.  *)
(***************************************************************************)
ASSUME FilterAssumption ==
    /\ Depth \in [Queries -> Nat]
    /\ \A f \in Queries :
          f \in [type : {"Eq"}, pair : Pair] \cup [type : {"In"}, pairs : Seq(Pair)]
                  \cup [type : {"And", "Or"}, args : Seq({g \in Queries : Depth[g] < Depth[f]})]

NoHits == [indices |-> <<>>, ids |-> <<>>]

-----------------------------------------------------------------------------
(***************************************************************************)
(* intersection keeps the order of the first, and of repeats.              *)
(***************************************************************************)
Common(s, t) == AtPositions(s, {i \in DOMAIN s : s[i] \in ToSet(t)})

IntersectionOfIds(a, b) ==          \* a mutant: the indices are left as they are
    [a EXCEPT !.ids = Common(a.ids, b.ids)]

Intersection(a, b) ==
    [indices |-> Common(a.indices, b.indices), ids |-> Common(a.ids, b.ids)]

(***************************************************************************)
(* union sorts each list and frees it of duplicates.                       *)
(***************************************************************************)
UnionAppending(a, b) ==             \* a mutant: without the sort
    [indices |-> a.indices \o b.indices, ids |-> a.ids \o b.ids]

UnionOverwriting(a, b) ==           \* a mutant: what was found before is dropped
    [indices |-> Ascending(ToSet(b.indices)), ids |-> Ascending(ToSet(b.ids))]

Union(a, b) ==
    [indices |-> Ascending(ToSet(a.indices) \cup ToSet(b.indices)),
     ids |-> Ascending(ToSet(a.ids) \cup ToSet(b.ids))]

(***************************************************************************)
(* from_index: the entry of the pair, its indices decompressed.            *)
(***************************************************************************)
FromIndexCompressed(p) ==           \* a mutant: the indices left compressed
    [indices |-> FlattenSeq([r \in DOMAIN items[p].runs |->
                                <<items[p].runs[r].start, items[p].runs[r].count>>]),
     ids |-> items[p].ids]

FromIndex(p) == [indices |-> Decompress(items[p].runs), ids |-> items[p].ids]

AndStep(result, current) ==
    IF result = NoHits THEN current ELSE Intersection(result, current)

(***************************************************************************)
(* Or, of what its filters find, and In, of what its pairs find.           *)
(***************************************************************************)
AnyOf(hits) == FoldLeft(Union, NoHits, hits)

(***************************************************************************)
(* And takes the first filter, and any filter that follows an empty        *)
(* result, for what it has found so far.                                   *)
(***************************************************************************)
AllOf(hits) == FoldLeft(AndStep, NoHits, hits)

Lookup(f) ==
    CASE f.type = "Eq" -> FromIndex(f.pair)
      [] f.type = "In" -> AnyOf([i \in DOMAIN f.pairs |-> FromIndex(f.pairs[i])])

Combine(f, parts) ==
    CASE f.type = "Or" -> AnyOf(parts)
      [] f.type = "And" -> AllOf(parts)

(***************************************************************************)
(* evaluate: the parts first, one after the other.                         *)
(***************************************************************************)
Evaluate[f \in Queries] ==
    IF f.type \in {"Eq", "In"}
    THEN Lookup(f)
    ELSE Combine(f, [i \in DOMAIN f.args |-> Evaluate[f.args[i]]])

-----------------------------------------------------------------------------
(***************************************************************************)
(* What a filter means: the vectors whose lists satisfy it.  An empty And  *)
(* is meant to find nothing (tests/filters.rs, test_empty_query).          *)
(***************************************************************************)
With(p) == {i \in DOMAIN carried : p \in ToSet(carried[i])}

Meaning[f \in Queries] ==
    {i \in DOMAIN carried :
        \/ f.type = "Eq" /\ i \in With(f.pair)
        \/ f.type = "In" /\ \E p \in ToSet(f.pairs) : i \in With(p)
        \/ f.type = "Or" /\ \E g \in ToSet(f.args) : i \in Meaning[g]
        \/ f.type = "And" /\ f.args # <<>> /\ \A g \in ToSet(f.args) : i \in Meaning[g]}

Parts(f) == IF f.type \in {"And", "Or"} THEN ToSet(f.args) ELSE {}

(***************************************************************************)
(* The Ands in a filter that forget what they found: their first arguments *)
(* have no vector in common, and another follows.                          *)
(***************************************************************************)
Forgets(f) ==
    /\ f.type = "And"
    /\ \E n \in 1..(Len(f.args) - 1) :
          \A i \in DOMAIN carried : \E j \in 1..n : i \notin Meaning[f.args[j]]

Forgetful[f \in Queries] ==
    {h \in {f} : Forgets(h)} \cup UNION {Forgetful[g] : g \in Parts(f)}

(***************************************************************************)
(* The pairs a filter names.                                               *)
(***************************************************************************)
Named(f) ==
    {p \in Pair : (f.type = "Eq" /\ p = f.pair) \/ (f.type = "In" /\ p \in ToSet(f.pairs))}

Atoms[f \in Queries] == Named(f) \cup UNION {Atoms[g] : g \in Parts(f)}

(***************************************************************************)
(* A filter finds every vector that satisfies it, however it is nested and *)
(* whatever batches its pairs came in.                                     *)
(***************************************************************************)
NothingMissed ==
    \A f \in Queries : Meaning[f] \subseteq ToSet(Evaluate[f].indices)

(***************************************************************************)
(* It finds nothing else, unless some And in it forgets what it found      *)
(* (And(none, x) is x).                                                    *)
(***************************************************************************)
HitsAreMeant ==
    \A f \in Queries : Forgetful[f] = {} => ToSet(Evaluate[f].indices) \subseteq Meaning[f]

(***************************************************************************)
(* Even then, all that an And finds is found by its last argument.         *)
(***************************************************************************)
LastConjunctHolds ==
    \A f \in Queries :
        f.type = "And" /\ f.args # <<>> =>
            ToSet(Evaluate[f].indices) \subseteq ToSet(Evaluate[Last(f.args)].indices)

(***************************************************************************)
(* The two lists name the same vectors, and unless a vector repeats a      *)
(* pair, the indices ascend without duplicates, as compress_indices needs  *)
(* them for the runs the query then reads, and there are as many ids.      *)
(***************************************************************************)
ListsAgree ==
    \A f \in Queries :
        LET hits == Evaluate[f]
        IN  /\ ToSet(hits.ids) = {IdOf(i) : i \in ToSet(hits.indices)}
            /\ (\A p \in Atoms[f] : Single(p)) =>
                  /\ hits.indices = Ascending(ToSet(hits.indices))
                  /\ Len(hits.ids) = Len(hits.indices)
=============================================================================
