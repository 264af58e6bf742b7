----------------------------- MODULE MCMmapTree -----------------------------
(***************************************************************************)
(* Small instances of MmapTree: nodes of at most three keys.               *)
(***************************************************************************)
EXTENDS MmapTree

CONSTANTS
    First,      \* the value a key is given first
    Second,     \* the value it is given again
    Bulk,       \* the value keys are given in batches
    MaxRewrites \* bound: keys given a second value

(***************************************************************************)
(* Key ranges.  Ascending runs use every other key, and look up the ones   *)
(* between too.                                                            *)
(***************************************************************************)
MCKeySmall == 1..6
MCKey == 1..8
MCKeyDeep == 1..25

MCNoBatches == {}

(***************************************************************************)
(* All the keys, and ranges whose ends are keys or between two.            *)
(***************************************************************************)
MCNoRanges == {}
MCRanges == {<<0, 26>>, <<4, 9>>, <<5, 12>>, <<8, 26>>, <<11, 13>>, <<3, 3>>}

(***************************************************************************)
(* Every sorted batch of one to five of the keys.                          *)
(***************************************************************************)
MCBatches ==
    {[i \in 1..Cardinality(S) |-> <<SetToSortSeq(S, <)[i], Bulk>>] :
        S \in {T \in SUBSET MCKey : Cardinality(T) \in 1..5}}

(***************************************************************************)
(* Batches of one to five keys that leave one key between any two.         *)
(***************************************************************************)
MCBatchesNext ==
    {[i \in 1..n |-> <<k + 2 * (i - 1), Bulk>>] : k \in {j \in Key : j % 2 = 0}, n \in 1..5}
        \cap Seq(Key \X Value)

Latest == IF \E k \in Key : Known(k) THEN Max({k \in Key : Known(k)}) ELSE 0

Rewritten == {k \in Key : Second \in allowed[k]}

(***************************************************************************)
(* InsertAscending up to a renaming of the keys, of which the code only    *)
(* compares the order: a new key leaves one absent key below it.  The      *)
(* latest may be given a second value, as a second with several commits    *)
(* is in the log.                                                          *)
(***************************************************************************)
InsertNext ==
    \E k \in Key, v \in Value :
        /\ AscendingKey(k)
        /\ \/ k = Latest + 2 /\ v = First
           \/ k = Latest /\ v = Second /\ Cardinality(Rewritten) < MaxRewrites
        /\ Insert(k, v)

(***************************************************************************)
(* BatchAscending, up to the same renaming.                                *)
(***************************************************************************)
BatchNext ==
    \E entries \in Batches :
        /\ \A i \in DOMAIN entries : AscendingKey(entries[i][1])
        /\ entries[1][1] = Latest + 2
        /\ BatchInsert(entries)

(***************************************************************************)
(* A tree is filled one way or the other: log and postings by insert,      *)
(* metadata by batch_insert.                                               *)
(***************************************************************************)
Single == \A k \in Key : Bulk \notin allowed[k]

Batched == \A k \in Key : Known(k) => Bulk \in allowed[k]

(***************************************************************************)
(* A process that dies anywhere but in the middle of a root's split: once, *)
(* and not in a history that gives second values too.                      *)
(***************************************************************************)
CutShort == {k \in Key : Cardinality(allowed[k]) > 1}

UntornCrash == /\ pc \notin Torn
               /\ Rewritten = {}
               /\ Cardinality(CutShort) = 1
               /\ Crash

SingleNext == Single /\ (InsertNext \/ UntornCrash)

NextSpec == Init /\ [][SingleNext \/ (Batched /\ BatchNext) \/ Store]_vars

(***************************************************************************)
(* Keys in any order, a few of them given a second value, and once a       *)
(* process that dies as above.                                             *)
(***************************************************************************)
InsertRewriting ==
    \E k \in Key, v \in Value :
        /\ v = IF Known(k) THEN Second ELSE First
        /\ FreshKey(k) \/ Cardinality(Rewritten \cup {k}) <= MaxRewrites
        /\ Insert(k, v)

RewritingSpec == Init /\ [][InsertRewriting \/ UntornCrash \/ Store]_vars
=============================================================================
