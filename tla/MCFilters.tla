----------------------------- MODULE MCFilters ------------------------------
(***************************************************************************)
(* Small instances of Filters.                                             *)
(***************************************************************************)
EXTENDS Filters

CONSTANTS a, b, c

MCPair == {a, b, c}

(***************************************************************************)
(* A vector with no pair, with one, with two, or with one twice.           *)
(***************************************************************************)
MCKvLists == {<<>>} \cup {<<p>> : p \in Pair} \cup {<<a, b>>, <<b, c>>, <<c, a>>}
                \cup {<<p, p>> : p \in Pair}

(***************************************************************************)
(* A filter of every shape up to two levels.  The vectors carry any of the *)
(* pairs, so one naming of the pairs in a filter stands for all.           *)
(***************************************************************************)
BothPairs == And(<<Eq(a), Eq(b)>>)

AnyPair == In(<<a, b>>)

Simple == {Eq(a), Eq(b), Eq(c), AnyPair, In(<<b, c>>), In(<<>>), And(<<>>)}

Nested ==
    {BothPairs, Or(<<Eq(a), Eq(b)>>), And(<<Eq(a), Eq(b), Eq(c)>>)}
        \cup {And(<<Eq(c), AnyPair>>), And(<<AnyPair, Eq(c)>>), And(<<AnyPair, In(<<b, c>>)>>)}

NestedTwice ==
    {And(<<BothPairs, Eq(c)>>), And(<<Eq(c), BothPairs>>), Or(<<Eq(a), BothPairs, Eq(c)>>)}
        \cup {And(<<Eq(c), Or(<<Eq(a), Eq(b)>>)>>)}

MCQueries == Simple \cup Nested \cup NestedTwice

MCDepth ==
    [f \in MCQueries |-> IF f \in NestedTwice THEN 2 ELSE IF f \in Nested THEN 1 ELSE 0]
=============================================================================
