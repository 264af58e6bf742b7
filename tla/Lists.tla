-------------------------------- MODULE Lists --------------------------------
(***************************************************************************)
(* What the index and the query do to their lists: they sort them, free    *)
(* them of duplicates, and keep some of their elements as they stand.      *)
(***************************************************************************)
EXTENDS Integers, FiniteSets, SequencesExt

(***************************************************************************)
(* sort_unstable and dedup, of a list of numbers: its set, ascending.      *)
(***************************************************************************)
Ascending(S) ==
    [i \in 1..Cardinality(S) |-> CHOOSE x \in S : Cardinality({y \in S : y <= x}) = i]

(***************************************************************************)
(* filter: the elements at some positions, in the order of the list.       *)
(***************************************************************************)
AtPositions(s, at) == [n \in 1..Cardinality(at) |-> s[Ascending(at)[n]]]

(***************************************************************************)
(* sort: each element takes the place that the number of those before it   *)
(* leaves, where before is a total order of the list's positions.          *)
(***************************************************************************)
Arranged(s, before) ==
    LET place(i) == Cardinality({j \in DOMAIN s : <<j, i>> \in before}) + 1
    IN  [n \in DOMAIN s |-> s[CHOOSE i \in DOMAIN s : place(i) = n]]
=============================================================================
