------------------------------- MODULE Ranking -------------------------------
(***************************************************************************)
(* How services/query.rs ranks the hits of a run: rayon cuts the run into  *)
(* chunks as it likes, each chunk keeps at most k entries, and the chunks  *)
(* are then merged.  An entry is an id with a distance; ids are compared   *)
(* as the numbers drawn for them, in no relation to their places.          *)
(***************************************************************************)
EXTENDS Lists

Entry(id, distance) == [id |-> id, distance |-> distance]

ById(e, f) == e.id < f.id \/ (e.id = f.id /\ e.distance < f.distance)

(***************************************************************************)
(* Equal entries cannot be told apart: they may stay as they stand.        *)
(***************************************************************************)
SortedById(s) ==
    LET before(i, j) == ById(s[i], s[j]) \/ (s[i] = s[j] /\ i < j)
    IN  Arranged(s, {pair \in (DOMAIN s) \X (DOMAIN s) : before(pair[1], pair[2])})

(***************************************************************************)
(* Within a chunk entries are kept in order of their ids, and a new one    *)
(* that finds no room replaces the one with the greatest id, if it is      *)
(* closer than that.                                                       *)
(***************************************************************************)
KeepAlways(kept, e, k) ==           \* a mutant: whether it is closer or not
    IF Len(kept) < k THEN SortedById(Append(kept, e))
    ELSE SortedById(Append(Front(kept), e))

Keep(kept, e, k) ==
    IF Len(kept) < k THEN SortedById(Append(kept, e))
    ELSE IF e.distance < Last(kept).distance THEN SortedById(Append(Front(kept), e))
    ELSE kept

KeepAll(chunk, k) == FoldLeft(LAMBDA kept, e : Keep(kept, e, k), <<>>, chunk)

(***************************************************************************)
(* Chunks are merged in order of distance, equal ones as they stood.       *)
(***************************************************************************)
ByDistance(s) ==
    LET before(i, j) ==
            \/ s[i].distance < s[j].distance
            \/ s[i].distance = s[j].distance /\ i < j
    IN  Arranged(s, {pair \in (DOMAIN s) \X (DOMAIN s) : before(pair[1], pair[2])})

MergeChunks(left, right, k) ==
    LET all == ByDistance(left \o right)
    IN  SubSeq(all, 1, IF k < Len(all) THEN k ELSE Len(all))

(***************************************************************************)
(* The chunks a run may be cut into, each cut given by its ends.           *)
(***************************************************************************)
Chunks(run, cuts) ==
    LET ends == Ascending(cuts \cup {Len(run)})
    IN  [i \in DOMAIN ends |->
            SubSeq(run, IF i = 1 THEN 1 ELSE ends[i - 1] + 1, ends[i])]

(***************************************************************************)
(* What may be left of a run.                                              *)
(***************************************************************************)
Rankings(run, k) ==
    {FoldLeft(LAMBDA best, chunk : MergeChunks(best, KeepAll(chunk, k), k),
              <<>>, Chunks(run, cuts)) :
        cuts \in SUBSET (1..(Len(run) - 1))}
=============================================================================
