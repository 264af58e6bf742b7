----------------------------- MODULE OrderedMap -----------------------------
(***************************************************************************)
(* What a namespace expects of each of its trees: a dictionary whose keys  *)
(* are put one at a time, a later value replacing an earlier one.          *)
(***************************************************************************)
CONSTANTS Key, Value, None

VARIABLE map

Init == map = [k \in Key |-> None]

Put(k, v) == map' = [map EXCEPT ![k] = v]

Next == \E k \in Key, v \in Value : Put(k, v)

Spec == Init /\ [][Next]_map
=============================================================================
