--------------------------- MODULE WalCommitProofs --------------------------
(***************************************************************************)
(* Proofs about WalCommit, for any number of commits, pairs, seconds and   *)
(* crashes and, but for AckedIsLogged, any number of handlers.             *)
(***************************************************************************)
EXTENDS WalCommit, TLAPS, FiniteSetTheorems, SequenceTheorems

-----------------------------------------------------------------------------
(***************************************************************************)
(* Lemmas on sequences.  How often a hash is logged is a number, and not   *)
(* zero if it is logged at all.                                            *)
(***************************************************************************)
LEMMA OccurrencesType ==
    ASSUME NEW s \in Seq(Hash), NEW h
    PROVE  /\ Occurrences(s, h) \in Nat
           /\ (\E i \in DOMAIN s : s[i] = h) => Occurrences(s, h) > 0
<1> DEFINE S == {i \in 1..Len(s) : s[i] = h}
<1>1. DOMAIN s = 1..Len(s) /\ Len(s) \in Nat
  OBVIOUS
<1>2. IsFiniteSet(S)
  <2>1. IsFiniteSet(1..Len(s))
    BY <1>1, FS_Interval
  <2> QED BY <2>1, FS_Subset
<1>3. Cardinality(S) \in Nat
  BY <1>2, FS_CardinalityType
<1>4. S # {} => Cardinality(S) > 0
  BY <1>2, <1>3, FS_EmptySet
<1>5. Occurrences(s, h) = Cardinality(S)
  BY <1>1 DEF Occurrences
<1> QED BY <1>1, <1>3, <1>4, <1>5

(***************************************************************************)
(* The parts of a log entry that Collect takes and leaves.                 *)
(***************************************************************************)
LEMMA HeadTail ==
    ASSUME NEW s \in Seq(Hash), s # <<>>
    PROVE  Head(s) \in Hash /\ Tail(s) \in Seq(Hash)
OBVIOUS

(***************************************************************************)
(* What concatenation, which the log and vectors.bin grow by, does to the  *)
(* entries.                                                                *)
(***************************************************************************)
LEMMA ConcatEntries ==
    ASSUME NEW s \in Seq(Hash), NEW t \in Seq(Hash)
    PROVE  /\ DOMAIN s = 1..Len(s) /\ DOMAIN t = 1..Len(t)
           /\ Len(s) \in Nat /\ Len(t) \in Nat
           /\ s \o t \in Seq(Hash)
           /\ DOMAIN (s \o t) = 1..(Len(s) + Len(t))
           /\ \A i \in 1..Len(s) : (s \o t)[i] = s[i]
           /\ \A i \in 1..Len(t) : (s \o t)[Len(s) + i] = t[i]
           /\ \A i \in 1..(Len(s) + Len(t)) :
                 i \in 1..Len(s) \/ \E j \in 1..Len(t) : i = Len(s) + j
           /\ \A i \in 1..Len(s) : i \in 1..(Len(s) + Len(t))
           /\ \A i \in 1..Len(t) : Len(s) + i \in 1..(Len(s) + Len(t))
<1>1. /\ DOMAIN s = 1..Len(s) /\ DOMAIN t = 1..Len(t)
      /\ Len(s) \in Nat /\ Len(t) \in Nat
      /\ s \o t \in Seq(Hash)
      /\ DOMAIN (s \o t) = 1..(Len(s) + Len(t))
  OBVIOUS
<1>2. \A i \in 1..Len(s) : (s \o t)[i] = s[i]
  OBVIOUS
<1>3. \A i \in 1..Len(t) : (s \o t)[Len(s) + i] = t[i]
  OBVIOUS
<1>4. \A i \in 1..(Len(s) + Len(t)) :
         i \in 1..Len(s) \/ \E j \in 1..Len(t) : i = Len(s) + j
  <2> SUFFICES ASSUME NEW i \in 1..(Len(s) + Len(t)), i \notin 1..Len(s)
               PROVE  \E j \in 1..Len(t) : i = Len(s) + j
    OBVIOUS
  <2>1. i - Len(s) \in 1..Len(t) /\ i = Len(s) + (i - Len(s))
    BY <1>1
  <2> QED BY <2>1
<1>5. \A i \in 1..Len(t) : Len(s) + i \in 1..(Len(s) + Len(t))
  BY <1>1
<1>6. \A i \in 1..Len(s) : i \in 1..(Len(s) + Len(t))
  BY <1>1
<1> QED BY <1>1, <1>2, <1>3, <1>4, <1>5, <1>6

(***************************************************************************)
(* The same, for one entry of either part.                                 *)
(***************************************************************************)
LEMMA LeftEntry ==
    ASSUME NEW s \in Seq(Hash), NEW t \in Seq(Hash), NEW i \in 1..Len(s)
    PROVE  i \in DOMAIN s /\ (s \o t)[i] = s[i]
OBVIOUS

LEMMA RightEntry ==
    ASSUME NEW s \in Seq(Hash), NEW t \in Seq(Hash), NEW j \in 1..Len(t)
    PROVE  j \in DOMAIN t /\ (s \o t)[Len(s) + j] = t[j]
OBVIOUS

(***************************************************************************)
(* What concatenation does to the set of entries.                          *)
(***************************************************************************)
LEMMA ConcatElements ==
    ASSUME NEW s \in Seq(Hash), NEW t \in Seq(Hash)
    PROVE  Elements(s \o t) = Elements(s) \cup Elements(t)
<1>1. Elements(s \o t) \subseteq Elements(s) \cup Elements(t)
  <2> SUFFICES ASSUME NEW i \in DOMAIN (s \o t)
               PROVE  (s \o t)[i] \in Elements(s) \cup Elements(t)
    BY DEF Elements
  <2>1. CASE i \in 1..Len(s)
    <3>1. (s \o t)[i] = s[i] /\ i \in DOMAIN s
      BY <2>1, LeftEntry
    <3> QED BY <3>1 DEF Elements
  <2>2. CASE i \notin 1..Len(s)
    <3>1. PICK j \in 1..Len(t) : i = Len(s) + j
      BY <2>2, ConcatEntries
    <3>2. (s \o t)[i] = t[j] /\ j \in DOMAIN t
      BY <3>1, RightEntry
    <3> QED BY <3>2 DEF Elements
  <2> QED BY <2>1, <2>2
<1>2. Elements(s) \subseteq Elements(s \o t)
  <2>1. ASSUME NEW i \in DOMAIN s
        PROVE  i \in DOMAIN (s \o t) /\ (s \o t)[i] = s[i]
    BY ConcatEntries
  <2> QED BY <2>1 DEF Elements
<1>3. Elements(t) \subseteq Elements(s \o t)
  <2>1. ASSUME NEW i \in DOMAIN t
        PROVE  Len(s) + i \in DOMAIN (s \o t) /\ (s \o t)[Len(s) + i] = t[i]
    BY ConcatEntries
  <2> QED BY <2>1 DEF Elements
<1> QED BY <1>1, <1>2, <1>3

(***************************************************************************)
(* The log of a fresh namespace is a log.                                  *)
(***************************************************************************)
LEMMA EmptyLogType == EmptyLog \in [Time -> Seq(Hash)] /\ 0 \in Time
<1>1. <<>> \in Seq(Hash)
  OBVIOUS
<1> QED BY <1>1, WalAssumption DEF EmptyLog, Time

-----------------------------------------------------------------------------
(***************************************************************************)
(* Type correctness: every step of handlers, worker and environment keeps  *)
(* files and locals of their types.                                        *)
(***************************************************************************)
THEOREM TypeCorrect == Spec => []TypeOK
<1>1. Init => TypeOK
  <2> SUFFICES ASSUME Init PROVE TypeOK
    OBVIOUS
  <2>1. <<>> \in Seq(Hash) /\ DOMAIN <<>> = {} /\ Len(<<>>) = 0
    OBVIOUS
  <2>2. DiskOK
    BY <2>1, EmptyLogType DEF Init, DiskOK
  <2>3. HandlersOK
    BY <2>1, EmptyLogType DEF Init, IdleHandlers, HandlersOK, HandlerStages
  <2>4. WorkerOK
    <3>1. 0 \in 0..Len(vectors)
      BY <2>1 DEF Init
    <3> QED BY <2>1, <3>1, EmptyLogType DEF Init, IdleWorker, WorkerOK, WorkerStages
  <2>5. EnvOK
    BY EmptyLogType DEF Init, EnvOK
  <2> QED BY <2>2, <2>3, <2>4, <2>5 DEF TypeOK
<1>2. TypeOK /\ [Next]_vars => TypeOK'
  <2> SUFFICES ASSUME TypeOK, [Next]_vars PROVE TypeOK'
    OBVIOUS
  <2>0. DiskOK /\ HandlersOK /\ WorkerOK /\ EnvOK
    BY DEF TypeOK
  <2>a. UNCHANGED disk => DiskOK'
    BY <2>0 DEF DiskOK, disk
  <2>b. UNCHANGED handlerVars => HandlersOK'
    BY <2>0 DEF HandlersOK, handlerVars
  <2>c. UNCHANGED <<spawned, workerVars, vectors>> => WorkerOK'
    BY <2>0 DEF WorkerOK, workerVars
  <2>d. UNCHANGED envVars => EnvOK'
    BY <2>0 DEF EnvOK, envVars
  <2>1. ASSUME NEW c \in Handler, NEW hashes \in Requests, Receive(c, hashes)
        PROVE  TypeOK'
    <3>1. hashes \in Seq(Hash) /\ hashes # <<>>
      BY WalAssumption
    <3>2. 0 < Len(hashes)
      BY <3>1
    <3>3. HandlersOK'
      BY <2>0, <2>1, <3>1, <3>2 DEF Receive, HandlersOK, EnvOK, HandlerStages
    <3>4. WorkerOK'
      BY <2>0, <2>1 DEF Receive, WorkerOK, workerVars, disk
    <3>5. EnvOK'
      <4>1. \A h \in Hash : Occurrences(hashes, h) \in Nat
        BY <3>1, OccurrencesType
      <4>2. \A h \in Hash : adds[h] \in Nat
        BY <2>0 DEF EnvOK
      <4>3. \A h \in Hash : adds[h] + Occurrences(hashes, h) \in Nat
        BY <4>1, <4>2
      <4> QED BY <2>0, <2>1, <4>3 DEF Receive, EnvOK
    <3> QED BY <2>1, <2>a, <3>3, <3>4, <3>5 DEF Receive, TypeOK
  <2>2. ASSUME NEW c \in Handler, SearchTimestamp(c) PROVE TypeOK'
    <3>1. timestamps[ts[c]] \in Seq(Hash) /\ req[c] \in Seq(Hash)
      BY <2>0 DEF DiskOK, HandlersOK
    <3>2. timestamps[ts[c]] \o req[c] \in Seq(Hash)
      BY <3>1
    <3>3. HandlersOK'
      BY <2>0, <2>2, <3>2 DEF SearchTimestamp, HandlersOK, HandlerStages
    <3> QED BY <2>2, <2>a, <2>c, <2>d, <3>3 DEF SearchTimestamp, TypeOK, disk
  <2>s. ASSUME NEW c \in Handler, SplitTimestamps(c) PROVE TypeOK'
    <3>1. \A t \in Time : /\ copies[t] \in Seq(Hash) /\ timestamps[t] \in Seq(Hash)
                          /\ copies[t] \o timestamps[t] \in Seq(Hash)
      BY <2>0 DEF DiskOK
    <3>2. copies' \in [Time -> Seq(Hash)]
      BY <2>s, <3>1 DEF SplitTimestamps
    <3>3. DiskOK'
      BY <2>0, <2>s, <3>2 DEF SplitTimestamps, DiskOK
    <3>4. HandlersOK'
      BY <2>0, <2>s DEF SplitTimestamps, HandlersOK, HandlerStages
    <3> QED BY <2>s, <2>c, <2>d, <3>3, <3>4 DEF SplitTimestamps, TypeOK
  <2>3. ASSUME NEW c \in Handler, LoadTimestamps(c) PROVE TypeOK'
    <3>1. HandlersOK'
      BY <2>0, <2>3 DEF LoadTimestamps, HandlersOK, HandlerStages, DiskOK
    <3> QED BY <2>3, <2>a, <2>c, <2>d, <3>1 DEF LoadTimestamps, TypeOK, disk
  <2>4. ASSUME NEW c \in Handler, StoreTimestamps(c) PROVE TypeOK'
    <3>1. <<>> \in Seq(Hash)
      OBVIOUS
    <3>2. timestamps' \in [Time -> Seq(Hash)]
      BY <2>0, <2>4 DEF StoreTimestamps, HandlersOK
    <3>3. DiskOK'
      BY <2>0, <2>4, <3>2 DEF StoreTimestamps, DiskOK
    <3>4. HandlersOK'
      BY <2>0, <2>4, <3>1, EmptyLogType DEF StoreTimestamps, HandlersOK, HandlerStages
    <3> QED BY <2>4, <2>c, <2>d, <3>3, <3>4 DEF StoreTimestamps, TypeOK
  <2>5. ASSUME NEW c \in Handler, LoadCommitList(c) PROVE TypeOK'
    <3>1. HandlersOK'
      BY <2>0, <2>5 DEF LoadCommitList, HandlersOK, HandlerStages, DiskOK
    <3> QED BY <2>5, <2>a, <2>c, <2>d, <3>1 DEF LoadCommitList, TypeOK, disk
  <2>6. ASSUME NEW c \in Handler, StoreCommitList(c) PROVE TypeOK'
    <3>1. req[c] \in Seq(Hash) /\ stored[c] \in Nat /\ stored[c] + 1 \in DOMAIN req[c]
      BY <2>0, <2>6 DEF StoreCommitList, HandlersOK
    <3>2. req[c][stored[c] + 1] \in Hash /\ Elements(req[c]) \subseteq Hash
      BY <3>1 DEF Elements
    <3>3. DiskOK'
      BY <2>0, <2>6, <3>2 DEF StoreCommitList, DiskOK, HandlersOK
    <3>4. EnvOK'
      BY <2>0, <2>6, <3>2 DEF StoreCommitList, EnvOK
    <3>5. HandlersOK'
      <4>1. CASE stored[c] + 1 < Len(req[c])
        <5>1. /\ hpc' = [hpc EXCEPT ![c] = "loadList"]
              /\ stored' = [stored EXCEPT ![c] = @ + 1]
              /\ list' = [list EXCEPT ![c] = {}]
              /\ UNCHANGED <<req, ts, vals, leaf>>
          BY <2>6, <4>1 DEF StoreCommitList
        <5>2. stored' \in [Handler -> Nat]
          BY <2>0, <3>1, <5>1 DEF HandlersOK
        <5>3. \A d \in Handler :
                 IF hpc'[d] = "idle" THEN stored'[d] = 0 ELSE stored'[d] < Len(req'[d])
          BY <2>0, <4>1, <5>1 DEF HandlersOK
        <5> QED BY <2>0, <5>1, <5>2, <5>3 DEF HandlersOK, HandlerStages
      <4>2. CASE ~(stored[c] + 1 < Len(req[c]))
        <5>1. /\ hpc' = [hpc EXCEPT ![c] = "idle"]
              /\ stored' = [stored EXCEPT ![c] = 0]
              /\ list' = [list EXCEPT ![c] = {}]
              /\ req' = [req EXCEPT ![c] = <<>>]
              /\ ts' = [ts EXCEPT ![c] = 0]
              /\ UNCHANGED <<vals, leaf>>
          BY <2>6, <4>2 DEF StoreCommitList
        <5>2. <<>> \in Seq(Hash)
          OBVIOUS
        <5>3. stored' \in [Handler -> Nat] /\ req' \in [Handler -> Seq(Hash)]
          BY <2>0, <5>1, <5>2 DEF HandlersOK
        <5>4. \A d \in Handler :
                 IF hpc'[d] = "idle" THEN stored'[d] = 0 ELSE stored'[d] < Len(req'[d])
          BY <2>0, <5>1 DEF HandlersOK
        <5> QED BY <2>0, <5>1, <5>3, <5>4, EmptyLogType DEF HandlersOK, HandlerStages
      <4> QED BY <4>1, <4>2
    <3> QED BY <2>6, <2>c, <3>3, <3>4, <3>5 DEF StoreCommitList, TypeOK
  <2>7. CASE StartCommit
    <3>1. Len(vectors) \in Nat
      BY <2>0 DEF DiskOK
    <3>2. WorkerOK'
      BY <2>0, <2>7, <3>1 DEF StartCommit, WorkerOK, WorkerStages, disk
    <3> QED BY <2>7, <2>a, <2>b, <2>d, <3>2 DEF StartCommit, TypeOK
  <2>8. CASE ReadRange
    <3>1. <<>> \in Seq(Hash)
      OBVIOUS
    <3>2. WorkerOK'
      <4>1. \A t \in Time : /\ copies[t] \in Seq(Hash) /\ timestamps[t] \in Seq(Hash)
                            /\ copies[t] \o timestamps[t] \in Seq(Hash)
        BY <2>0 DEF DiskOK
      <4>2. seen' \in [Time -> Seq(Hash)]
        BY <2>8, <3>1, <4>1 DEF ReadRange
      <4> QED BY <2>0, <2>8, <4>2 DEF ReadRange, WorkerOK, WorkerStages, disk
    <3> QED BY <2>8, <2>a, <2>b, <2>d, <3>2 DEF ReadRange, TypeOK
  <2>9. ASSUME NEW t \in Time, Collect(t) PROVE TypeOK'
    <3>1. seen[t] \in Seq(Hash) /\ batch \in Seq(Hash)
      BY <2>0 DEF WorkerOK
    <3>2. Head(seen[t]) \in Hash /\ Tail(seen[t]) \in Seq(Hash)
      BY <2>9, <3>1, HeadTail DEF Collect
    <3>3. batch' \in Seq(Hash) /\ DOMAIN batch \subseteq DOMAIN batch'
      BY <2>9, <3>1, <3>2 DEF Collect
    <3>4. seen' \in [Time -> Seq(Hash)]
      BY <2>0, <2>9, <3>2 DEF Collect, WorkerOK
    <3>5. WorkerOK'
      BY <2>0, <2>9, <3>3, <3>4 DEF Collect, WorkerOK, disk
    <3> QED BY <2>9, <2>a, <2>b, <2>d, <3>5 DEF Collect, TypeOK
  <2>e. ResetWorker /\ spawned' \in BOOLEAN /\ vectors' \in Seq(Hash) => WorkerOK'
    <3>1. <<>> \in Seq(Hash)
      OBVIOUS
    <3> QED BY <3>1, EmptyLogType DEF ResetWorker, WorkerOK, WorkerStages
  <2>10. CASE NothingToCommit
    BY <2>0, <2>10, <2>a, <2>b, <2>d, <2>e
       DEF NothingToCommit, TypeOK, WorkerOK, DiskOK, disk
  <2>11. CASE PushVectors
    <3>1. /\ vectors \in Seq(Hash) /\ batch \in Seq(Hash) /\ batch # <<>>
          /\ base \in 0..Len(vectors)
      BY <2>0, <2>11 DEF PushVectors, DiskOK, WorkerOK
    <3>2. SubSeq(vectors, 1, base) \in Seq(Hash) /\ Len(SubSeq(vectors, 1, base)) = base
      BY <3>1
    <3>3. vectors' \in Seq(Hash) /\ Len(vectors') = base + Len(batch) /\ 0 < Len(batch)
      BY <2>11, <3>1, <3>2 DEF PushVectors, Kept
    <3>4. DiskOK'
      BY <2>0, <2>11, <3>3 DEF PushVectors, DiskOK
    <3>5. kvLeft' \subseteq KV
      BY <2>11, <3>1, WalAssumption DEF PushVectors
    <3>6. WorkerOK'
      BY <2>0, <2>11, <3>1, <3>3, <3>5 DEF PushVectors, Examined, WorkerOK, WorkerStages
    <3> QED BY <2>11, <2>b, <2>d, <3>4, <3>6 DEF PushVectors, TypeOK
  <2>12. ASSUME NEW j \in metaLeft, StoreMetadata(j) PROVE TypeOK'
    <3>1. batch[j] \in Hash /\ base + j \in Nat
      BY <2>0 DEF WorkerOK, DiskOK
    <3>2. DiskOK'
      BY <2>0, <2>12, <3>1 DEF StoreMetadata, Item, DiskOK
    <3>3. WorkerOK'
      BY <2>0, <2>12 DEF StoreMetadata, WorkerOK, WorkerStages
    <3> QED BY <2>12, <2>b, <2>d, <3>2, <3>3 DEF StoreMetadata, TypeOK
  <2>13. ASSUME NEW kv \in kvLeft, StorePostings(kv) PROVE TypeOK'
    <3>1. {base + j : j \in {i \in DOMAIN batch : kv \in KVsOf[batch[i]]}} \subseteq Nat
      BY <2>0 DEF WorkerOK, DiskOK
    <3>2. DiskOK'
      BY <2>0, <2>13, <3>1 DEF StorePostings, DiskOK
    <3>3. WorkerOK'
      BY <2>0, <2>13 DEF StorePostings, WorkerOK
    <3> QED BY <2>13, <2>b, <2>d, <3>2, <3>3 DEF StorePostings, TypeOK
  <2>14. CASE MarkFinished
    <3>1. marked + 1 \in DOMAIN batch /\ batch \in Seq(Hash)
      BY <2>0, <2>14 DEF MarkFinished, WorkerOK
    <3>2. batch[marked + 1] \in Hash
      BY <3>1
    <3>3. DiskOK'
      BY <2>0, <2>14, <3>2 DEF MarkFinished, DiskOK
    <3>4. WorkerOK'
      <4>1. CASE marked + 1 < Len(batch)
        BY <2>0, <2>14, <4>1 DEF MarkFinished, WorkerOK
      <4>2. CASE ResetWorker
        BY <2>0, <2>14, <2>e, <4>2 DEF MarkFinished, WorkerOK, DiskOK
      <4> QED BY <2>14, <4>1, <4>2 DEF MarkFinished
    <3> QED BY <2>14, <2>b, <2>d, <3>3, <3>4 DEF MarkFinished, TypeOK
  <2>15. CASE Crash
    <3>1. <<>> \in Seq(Hash)
      OBVIOUS
    <3>2. HandlersOK'
      BY <2>15, <3>1, EmptyLogType DEF Crash, HandlersOK, HandlerStages
    <3>3. WorkerOK'
      BY <2>0, <2>15, <2>e DEF Crash, disk, DiskOK
    <3>4. EnvOK'
      BY <2>0, <2>15 DEF Crash, EnvOK
    <3> QED BY <2>15, <2>a, <3>2, <3>3, <3>4 DEF Crash, TypeOK
  <2>16. CASE OtherRequest
    <3>1. WorkerOK'
      BY <2>0, <2>16 DEF OtherRequest, WorkerOK, workerVars, disk
    <3> QED BY <2>16, <2>a, <2>b, <2>d, <3>1 DEF OtherRequest, TypeOK
  <2>17. CASE Tick
    <3>1. EnvOK'
      BY <2>0, <2>17, WalAssumption DEF Tick, Time, EnvOK
    <3> QED BY <2>17, <2>a, <2>b, <2>c, <3>1 DEF Tick, TypeOK, disk
  <2>18. CASE UNCHANGED vars
    BY <2>18, <2>a, <2>b, <2>c, <2>d DEF vars, TypeOK, disk
  <2> QED BY <2>1, <2>2, <2>s, <2>3, <2>4, <2>5, <2>6, <2>7, <2>8, <2>9, <2>10, <2>11,
             <2>12, <2>13, <2>14, <2>15, <2>16, <2>17, <2>18
          DEF Next, Log, Work
<1> QED BY <1>1, <1>2, PTL DEF Spec
-----------------------------------------------------------------------------
(***************************************************************************)
(* The inductive invariant behind the index: what the worker takes for     *)
(* granted of the files makes what it writes next right.                   *)
(***************************************************************************)
IndexInv == TypeOK /\ WorkerView /\ NoDanglingPosting /\ FinishedIsIndexed

(***************************************************************************)
(* The part of the state IndexInv speaks of.                               *)
(***************************************************************************)
indexVars == <<commitFinish, vectors, metadata, postings,
               wpc, batch, base, metaLeft, kvLeft>>

(***************************************************************************)
(* No entry of the index is ever taken back or moved, so what is indexed   *)
(* stays so.                                                               *)
(***************************************************************************)
Grows ==
    /\ \A i \in DOMAIN vectors : i \in DOMAIN vectors' /\ vectors'[i] = vectors[i]
    /\ metadata \subseteq metadata'
    /\ \A kv \in KV : postings[kv] \subseteq postings'[kv]

LEMMA GrowsKeepsIndexed ==
    ASSUME WalAssumption, Grows, NEW h \in Hash, Indexed(h)
    PROVE  Indexed(h)'
<1>1. PICK i \in DOMAIN vectors : /\ vectors[i] = h
                                  /\ Item(i, h) \in metadata
                                  /\ \A kv \in KVsOf[h] : i \in postings[kv]
  BY DEF Indexed
<1>2. KVsOf[h] \subseteq KV
  BY DEF WalAssumption
<1>3. /\ i \in DOMAIN vectors'
      /\ vectors'[i] = h
      /\ Item(i, h) \in metadata'
      /\ \A kv \in KVsOf[h] : i \in postings'[kv]
  BY <1>1, <1>2 DEF Grows
<1> QED BY <1>3 DEF Indexed, Item

(***************************************************************************)
(* A step that only adds to the files, and finishes nothing, keeps every   *)
(* finished commit indexed.                                                *)
(***************************************************************************)
LEMMA GrowsKeepsFinished ==
    ASSUME WalAssumption, TypeOK, Grows, FinishedIsIndexed, commitFinish' \subseteq commitFinish
    PROVE  FinishedIsIndexed'
<1> SUFFICES ASSUME NEW h \in commitFinish PROVE Indexed(h)'
  BY DEF FinishedIsIndexed
<1>1. h \in Hash /\ Indexed(h)
  BY DEF FinishedIsIndexed, TypeOK, DiskOK
<1> QED BY <1>1, GrowsKeepsIndexed

(***************************************************************************)
(* A posting that pointed at a complete vector goes on doing so.           *)
(***************************************************************************)
LEMMA GrowsKeepsPostings ==
    ASSUME Grows, NoDanglingPosting, NEW kv \in KV, NEW i \in postings[kv]
    PROVE  /\ i \in DOMAIN vectors'
           /\ kv \in KVsOf[vectors'[i]]
           /\ Item(i, vectors'[i]) \in metadata'
<1>1. /\ i \in DOMAIN vectors
      /\ kv \in KVsOf[vectors[i]]
      /\ Item(i, vectors[i]) \in metadata
  BY DEF NoDanglingPosting
<1> QED BY <1>1 DEF Grows, Item

(***************************************************************************)
(* What PushVectors leaves in vectors.bin: the old vectors, then batch.    *)
(***************************************************************************)
LEMMA PushAppends ==
    ASSUME TypeOK, WorkerView, PushVectors
    PROVE  /\ vectors \in Seq(Hash) /\ batch \in Seq(Hash) /\ base = Len(vectors)
           /\ vectors' = vectors \o batch
           /\ DOMAIN vectors' = 1..(Len(vectors) + Len(batch))
           /\ \A i \in DOMAIN vectors : vectors'[i] = vectors[i]
           /\ \A j \in DOMAIN batch : /\ base + j \in DOMAIN vectors'
                                      /\ vectors'[base + j] = batch[j]
<1>1. /\ vectors \in Seq(Hash) /\ batch \in Seq(Hash) /\ base = Len(vectors)
      /\ vectors' = SubSeq(vectors, 1, base) \o batch
  BY DEF TypeOK, DiskOK, WorkerOK, WorkerView, PushVectors, Kept, Examined
<1>2. SubSeq(vectors, 1, Len(vectors)) = vectors
  BY <1>1
<1>3. vectors' = vectors \o batch
  BY <1>1, <1>2
<1>4. /\ DOMAIN vectors = 1..Len(vectors) /\ DOMAIN batch = 1..Len(batch)
      /\ DOMAIN vectors' = 1..(Len(vectors) + Len(batch))
      /\ \A j \in 1..Len(batch) : Len(vectors) + j \in 1..(Len(vectors) + Len(batch))
  BY <1>1, <1>3, ConcatEntries
<1>5. \A i \in 1..Len(vectors) : vectors'[i] = vectors[i]
  BY <1>1, <1>3, ConcatEntries
<1>6. \A j \in 1..Len(batch) : vectors'[Len(vectors) + j] = batch[j]
  <2> TAKE j \in 1..Len(batch)
  <2>1. (vectors \o batch)[Len(vectors) + j] = batch[j]
    BY <1>1, RightEntry
  <2> QED BY <2>1, <1>3
<1> QED BY <1>1, <1>3, <1>4, <1>5, <1>6

(***************************************************************************)
(* A step keeps the inductive invariant.                                   *)
(***************************************************************************)
LEMMA IndexStep == IndexInv /\ [Next]_vars => WorkerView' /\ NoDanglingPosting' /\ FinishedIsIndexed'
<1> SUFFICES ASSUME IndexInv, [Next]_vars
             PROVE  WorkerView' /\ NoDanglingPosting' /\ FinishedIsIndexed'
  OBVIOUS
<1> DEFINE Goal == WorkerView' /\ NoDanglingPosting' /\ FinishedIsIndexed'
<1>0. TypeOK /\ WorkerView /\ NoDanglingPosting /\ FinishedIsIndexed
  BY DEF IndexInv
<1>t. /\ vectors \in Seq(Hash) /\ batch \in Seq(Hash)
      /\ postings \in [KV -> SUBSET Nat]
      /\ metaLeft \subseteq DOMAIN batch
      /\ \A j \in DOMAIN batch : batch[j] \in Hash
  BY <1>0 DEF TypeOK, DiskOK, WorkerOK
<1>a. UNCHANGED <<vectors, metadata, postings>> => Grows
  BY DEF Grows
<1>b. UNCHANGED <<vectors, metadata, postings>> => NoDanglingPosting'
  BY <1>0 DEF NoDanglingPosting, Item
<1>c. UNCHANGED <<commitFinish, vectors, metadata, postings>> => FinishedIsIndexed'
  BY <1>0, <1>a, WalAssumption, GrowsKeepsFinished
<1>d. UNCHANGED indexVars => Goal
  <2> SUFFICES ASSUME UNCHANGED indexVars PROVE Goal
    OBVIOUS
  <2>1. WorkerView'
    BY <1>0 DEF WorkerView, indexVars, Item
  <2> QED BY <2>1, <1>b, <1>c DEF indexVars
<1>1. ASSUME NEW c \in Handler, NEW hashes \in Requests, Receive(c, hashes) PROVE Goal
  BY <1>1, <1>d DEF Receive, indexVars, disk, workerVars
<1>2. ASSUME NEW c \in Handler, Log(c) PROVE Goal
  BY <1>2, <1>d DEF Log, SearchTimestamp, SplitTimestamps, LoadTimestamps, StoreTimestamps,
                    LoadCommitList, StoreCommitList, indexVars, disk, workerVars
<1>3. CASE StartCommit
  <2>1. WorkerView'
    <3>1. wpc' = "range" /\ base' = Len(vectors') /\ batch' = <<>>
      BY <1>0, <1>3 DEF StartCommit, WorkerView, disk
    <3>2. DOMAIN batch' = {}
      BY <3>1
    <3> QED BY <3>1, <3>2 DEF WorkerView
  <2> QED BY <1>3, <2>1, <1>b, <1>c DEF StartCommit, disk
<1>4. CASE ReadRange
  <2>1. WorkerView'
    BY <1>0, <1>4 DEF ReadRange, WorkerView, disk
  <2> QED BY <1>4, <2>1, <1>b, <1>c DEF ReadRange, disk
<1>5. ASSUME NEW t \in Time, Collect(t) PROVE Goal
  <2>1. /\ wpc' = "collect" /\ wpc = "collect" /\ base' = base
        /\ UNCHANGED <<commitFinish, vectors>>
        /\ \/ batch' = batch
           \/ Head(seen[t]) \notin commitFinish /\ batch' = Append(batch, Head(seen[t]))
    BY <1>5 DEF Collect, Unfinished, disk
  <2>2. \A j \in DOMAIN batch' : batch'[j] \notin commitFinish
    <3>1. \A j \in DOMAIN batch : batch[j] \notin commitFinish
      BY <1>0, <2>1 DEF WorkerView
    <3>2. CASE batch' = batch
      BY <3>1, <3>2
    <3>3. CASE Head(seen[t]) \notin commitFinish /\ batch' = Append(batch, Head(seen[t]))
      <4>1. seen[t] \in Seq(Hash) /\ seen[t] # <<>>
        BY <1>0, <1>5 DEF Collect, TypeOK, WorkerOK
      <4>2. Head(seen[t]) \in Hash
        BY <4>1, HeadTail
      <4>3. \A j \in DOMAIN batch' : \/ j \in DOMAIN batch /\ batch'[j] = batch[j]
                                     \/ batch'[j] = Head(seen[t])
        BY <1>t, <3>3, <4>2
      <4> QED BY <3>1, <3>3, <4>3
    <3> QED BY <2>1, <3>2, <3>3
  <2>3. WorkerView'
    BY <1>0, <2>1, <2>2 DEF WorkerView
  <2> QED BY <1>5, <2>3, <1>b, <1>c DEF Collect, disk
<1>e. ResetWorker => WorkerView'
  <2>1. DOMAIN <<>> = {}
    OBVIOUS
  <2> QED BY <2>1 DEF ResetWorker, WorkerView
<1>6. CASE NothingToCommit
  BY <1>6, <1>e, <1>b, <1>c DEF NothingToCommit, disk
<1>7. CASE PushVectors
  <2>1. /\ wpc' = "metadata"
        /\ metaLeft' = DOMAIN batch
        /\ kvLeft' = UNION {KVsOf[batch[j]] : j \in DOMAIN batch}
        /\ UNCHANGED <<commitFinish, metadata, postings, batch, base>>
    BY <1>7 DEF PushVectors
  <2>2. Grows
    BY <1>0, <1>7, <2>1, PushAppends DEF Grows
  <2>3. WorkerView'
    <3>1. \A j \in DOMAIN batch : KVsOf[batch[j]] \subseteq kvLeft'
      BY <2>1
    <3>2. \A j \in DOMAIN batch : /\ base + j \in DOMAIN vectors'
                                  /\ vectors'[base + j] = batch[j]
      BY <1>0, <1>7, PushAppends
    <3> QED BY <2>1, <3>1, <3>2 DEF WorkerView
  <2>4. NoDanglingPosting'
    BY <1>0, <2>1, <2>2, GrowsKeepsPostings DEF NoDanglingPosting
  <2>5. FinishedIsIndexed'
    BY <1>0, <2>1, <2>2, WalAssumption, GrowsKeepsFinished
  <2> QED BY <2>3, <2>4, <2>5
<1>8. ASSUME NEW j \in metaLeft, StoreMetadata(j) PROVE Goal
  <2>1. /\ wpc = "metadata"
        /\ metadata' = metadata \cup {Item(base + j, batch[j])}
        /\ metaLeft' = metaLeft \ {j}
        /\ wpc' = IF metaLeft = {j} THEN "postings" ELSE wpc
        /\ UNCHANGED <<commitFinish, vectors, postings, batch, base, kvLeft>>
    BY <1>8 DEF StoreMetadata
  <2>2. Grows
    BY <2>1 DEF Grows
  <2>3. WorkerView'
    BY <1>0, <2>1 DEF WorkerView, Item
  <2>4. NoDanglingPosting'
    BY <1>0, <2>1, <2>2, GrowsKeepsPostings DEF NoDanglingPosting
  <2>5. FinishedIsIndexed'
    BY <1>0, <2>1, <2>2, WalAssumption, GrowsKeepsFinished
  <2> QED BY <2>3, <2>4, <2>5
<1>9. ASSUME NEW kv \in kvLeft, StorePostings(kv) PROVE Goal
  <2> DEFINE Added == {base + j : j \in {i \in DOMAIN batch : kv \in KVsOf[batch[i]]}}
  <2>1. /\ wpc = "postings" /\ wpc' = "postings"
        /\ postings' = [postings EXCEPT ![kv] = @ \cup Added]
        /\ kvLeft' = kvLeft \ {kv}
        /\ UNCHANGED <<commitFinish, vectors, metadata, batch, base, metaLeft>>
    BY <1>9 DEF StorePostings
  <2>2. \A lv \in KV : postings'[lv] = IF lv = kv THEN postings[lv] \cup Added ELSE postings[lv]
    BY <1>t, <2>1
  <2>3. Grows
    BY <2>1, <2>2 DEF Grows
  <2>4. metaLeft = {} /\ \A j \in DOMAIN batch :
              /\ base + j \in DOMAIN vectors
              /\ vectors[base + j] = batch[j]
              /\ Item(base + j, batch[j]) \in metadata
              /\ \A lv \in KVsOf[batch[j]] \ kvLeft : base + j \in postings[lv]
    BY <1>0, <2>1 DEF WorkerView
  <2>5. WorkerView'
    <3>1. \A j \in DOMAIN batch : KVsOf[batch[j]] \subseteq KV
      BY <1>t, WalAssumption
    <3>2. ASSUME NEW j \in DOMAIN batch, NEW lv \in KVsOf[batch[j]] \ kvLeft'
          PROVE  base + j \in postings'[lv]
      <4>1. CASE lv = kv
        <5>1. base + j \in Added
          BY <4>1
        <5> HIDE DEF Added
        <5> QED BY <2>2, <3>1, <4>1, <5>1
      <4>2. CASE lv # kv
        <5>1. lv \notin kvLeft /\ lv \in KV
          BY <2>1, <3>1, <4>2
        <5> HIDE DEF Added
        <5> QED BY <2>2, <2>4, <4>2, <5>1
      <4> QED BY <4>1, <4>2
    <3> HIDE DEF Added
    <3> QED BY <2>1, <2>4, <3>2 DEF WorkerView, Item
  <2>6. NoDanglingPosting'
    <3>1. ASSUME NEW lv \in KV, NEW i \in postings'[lv]
          PROVE  /\ i \in DOMAIN vectors'
                 /\ lv \in KVsOf[vectors'[i]]
                 /\ Item(i, vectors'[i]) \in metadata'
      <4>1. CASE i \in postings[lv]
        BY <1>0, <2>3, <4>1, GrowsKeepsPostings
      <4>2. CASE i \notin postings[lv]
        <5>1. lv = kv /\ i \in Added
          BY <2>2, <4>2
        <5>2. PICK j \in DOMAIN batch : kv \in KVsOf[batch[j]] /\ i = base + j
          BY <5>1
        <5> QED BY <2>1, <2>4, <5>1, <5>2
      <4> QED BY <4>1, <4>2
    <3> QED BY <3>1 DEF NoDanglingPosting, Item
  <2>7. FinishedIsIndexed'
    BY <1>0, <2>1, <2>3, WalAssumption, GrowsKeepsFinished
  <2> QED BY <2>5, <2>6, <2>7
<1>10. CASE MarkFinished
  <2>1. /\ wpc = "postings" /\ kvLeft = {}
        /\ commitFinish' = commitFinish \cup {batch[marked + 1]}
        /\ UNCHANGED <<vectors, metadata, postings>>
        /\ \/ UNCHANGED <<wpc, batch, base, metaLeft, kvLeft>>
           \/ ResetWorker
    BY <1>10 DEF MarkFinished
  <2>2. WorkerView'
    <3>1. CASE ResetWorker
      BY <3>1, <1>e
    <3>2. CASE UNCHANGED <<wpc, batch, base, metaLeft, kvLeft>>
      BY <1>0, <2>1, <3>2 DEF WorkerView, Item
    <3> QED BY <2>1, <3>1, <3>2
  <2>3. marked + 1 \in DOMAIN batch
    BY <1>0, <2>1 DEF TypeOK, WorkerOK
  <2>4. Indexed(batch[marked + 1])
    <3>1. /\ base + (marked + 1) \in DOMAIN vectors
          /\ vectors[base + (marked + 1)] = batch[marked + 1]
          /\ Item(base + (marked + 1), batch[marked + 1]) \in metadata
          /\ \A kv \in KVsOf[batch[marked + 1]] : base + (marked + 1) \in postings[kv]
      BY <1>0, <2>1, <2>3 DEF WorkerView
    <3> QED BY <3>1 DEF Indexed
  <2>5. \A h \in commitFinish' : h \in Hash /\ Indexed(h)
    BY <1>0, <1>t, <2>1, <2>3, <2>4 DEF FinishedIsIndexed, TypeOK, DiskOK
  <2>6. Grows
    BY <2>1, <1>a
  <2>7. FinishedIsIndexed'
    BY <2>5, <2>6, WalAssumption, GrowsKeepsIndexed DEF FinishedIsIndexed
  <2> QED BY <2>1, <2>2, <2>7, <1>b
<1>11. CASE Crash
  BY <1>11, <1>e, <1>b, <1>c DEF Crash, disk
<1>12. CASE OtherRequest
  BY <1>12, <1>d DEF OtherRequest, indexVars, disk, workerVars
<1>13. CASE Tick
  BY <1>13, <1>d DEF Tick, indexVars, disk, workerVars
<1>14. CASE UNCHANGED vars
  BY <1>14, <1>d DEF vars, indexVars, disk, workerVars
<1> QED BY <1>1, <1>2, <1>3, <1>4, <1>5, <1>6, <1>7, <1>8, <1>9, <1>10,
           <1>11, <1>12, <1>13, <1>14 DEF Next, Work

(***************************************************************************)
(* The parts of the inductive invariant, but for the types, hold at        *)
(* first.                                                                  *)
(***************************************************************************)
LEMMA IndexInit == Init => WorkerView /\ NoDanglingPosting /\ FinishedIsIndexed
<1>1. DOMAIN <<>> = {} /\ Len(<<>>) = 0
  OBVIOUS
<1> QED BY <1>1 DEF Init, IdleWorker, WorkerView, NoDanglingPosting, FinishedIsIndexed

(***************************************************************************)
(* The inductive invariant holds in every state.                           *)
(***************************************************************************)
LEMMA IndexInvariant == Spec => []IndexInv
<1>1. TypeOK /\ WorkerView /\ NoDanglingPosting /\ FinishedIsIndexed => IndexInv
  BY DEF IndexInv
<1>2. TypeOK' /\ WorkerView' /\ NoDanglingPosting' /\ FinishedIsIndexed' => IndexInv'
  BY DEF IndexInv
<1> QED BY TypeCorrect, IndexInit, IndexStep, <1>1, <1>2, PTL DEF Spec

(***************************************************************************)
(* What the worker assumes of the files stays true under any interleaving  *)
(* with handlers, deaths of the process and the clock.                     *)
(***************************************************************************)
THEOREM WorkerViewHolds == Spec => []WorkerView
<1>1. IndexInv => WorkerView
  BY DEF IndexInv
<1> QED BY IndexInvariant, <1>1, PTL

(***************************************************************************)
(* No posting points at a vector or an item that is not there.             *)
(***************************************************************************)
THEOREM PostingsHold == Spec => []NoDanglingPosting
<1>1. IndexInv => NoDanglingPosting
  BY DEF IndexInv
<1> QED BY IndexInvariant, <1>1, PTL

(***************************************************************************)
(* What is marked finished is wholly indexed.                              *)
(***************************************************************************)
THEOREM FinishedHolds == Spec => []FinishedIsIndexed
<1>1. IndexInv => FinishedIsIndexed
  BY DEF IndexInv
<1> QED BY IndexInvariant, <1>1, PTL

(***************************************************************************)
(* What is marked finished is not pushed again.                            *)
(***************************************************************************)
THEOREM NeverPushedAgain == Spec => FinishedNotPushed
<1> DEFINE New == \A i \in DOMAIN vectors' \ DOMAIN vectors : vectors'[i] \notin commitFinish
<1>1. IndexInv /\ [Next]_vars => [New]_vars
  <2> SUFFICES ASSUME IndexInv, [Next]_vars PROVE New
    OBVIOUS
  <2>1. CASE PushVectors
    <3>1. TypeOK /\ WorkerView /\ wpc = "collect"
      BY <2>1 DEF IndexInv, PushVectors, Examined
    <3>2. \A j \in DOMAIN batch : batch[j] \notin commitFinish
      BY <3>1 DEF WorkerView
    <3>3. /\ vectors \in Seq(Hash) /\ batch \in Seq(Hash)
          /\ vectors' = vectors \o batch
      BY <2>1, <3>1, PushAppends
    <3> SUFFICES ASSUME NEW i \in DOMAIN vectors', i \notin DOMAIN vectors
                 PROVE  vectors'[i] \notin commitFinish
      OBVIOUS
    <3>4. i \in 1..(Len(vectors) + Len(batch)) /\ i \notin 1..Len(vectors)
      BY <3>3, ConcatEntries
    <3>5. PICK j \in 1..Len(batch) : i = Len(vectors) + j
      BY <3>3, <3>4, ConcatEntries
    <3>6. (vectors \o batch)[Len(vectors) + j] = batch[j] /\ j \in DOMAIN batch
      BY <3>3, RightEntry
    <3> QED BY <3>2, <3>3, <3>5, <3>6
  <2>2. CASE ~PushVectors
    <3>1. vectors' = vectors
      BY <2>2 DEF Next, Receive, Log, SearchTimestamp, SplitTimestamps, LoadTimestamps, StoreTimestamps,
                  LoadCommitList, StoreCommitList, Work, StartCommit, ReadRange, Collect,
                  NothingToCommit, StoreMetadata, StorePostings, MarkFinished,
                  Crash, OtherRequest, Tick, vars, disk
    <3> QED BY <3>1
  <2> QED BY <2>1, <2>2
<1> QED BY IndexInvariant, <1>1, PTL DEF Spec, FinishedNotPushed
-----------------------------------------------------------------------------
(***************************************************************************)
(* The log, when requests are served one at a time: nothing on disk        *)
(* changes between the handler's reads and its writes.                     *)
(***************************************************************************)
LogInv == TypeOK /\ HandlerView /\ AckedIsLogged

logVars == <<timestamps, commitList, hpc, req, ts, vals, leaf, list, stored, acked>>

(***************************************************************************)
(* A handler has read nothing, and nothing is answered, at first.          *)
(***************************************************************************)
LEMMA LogInit == Init => HandlerView /\ AckedIsLogged
BY DEF Init, IdleHandlers, HandlerView, Sees, AckedIsLogged

(***************************************************************************)
(* With one handler a step keeps what it sees of the log true, and what    *)
(* was answered logged: one step per action that writes the log or a       *)
(* handler's locals.                                                       *)
(***************************************************************************)
LEMMA LogStep ==
    ASSUME NEW c0, Handler = {c0}
    PROVE  LogInv /\ [Next]_vars => HandlerView' /\ AckedIsLogged'
<1> SUFFICES ASSUME LogInv, [Next]_vars PROVE HandlerView' /\ AckedIsLogged'
  OBVIOUS
<1> DEFINE Goal == HandlerView' /\ AckedIsLogged'
<1>0. TypeOK /\ HandlerView /\ AckedIsLogged /\ DiskOK /\ HandlersOK
  BY DEF LogInv, TypeOK
<1>s. (HandlerView <=> Sees(c0)) /\ (HandlerView' <=> Sees(c0)')
  BY DEF HandlerView
<1>t. /\ timestamps \in [Time -> Seq(Hash)]
      /\ req[c0] \in Seq(Hash) /\ ts[c0] \in Time /\ stored[c0] \in Nat
      /\ req \in [Handler -> Seq(Hash)] /\ stored \in [Handler -> Nat]
      /\ hpc \in [Handler -> HandlerStages] /\ ts \in [Handler -> Time]
      /\ vals \in [Handler -> Seq(Hash)] /\ list \in [Handler -> SUBSET Hash]
      /\ leaf \in [Handler -> [Time -> Seq(Hash)]]
  BY <1>0 DEF DiskOK, HandlersOK
<1>a. UNCHANGED <<timestamps, commitList, acked>> => AckedIsLogged'
  BY <1>0 DEF AckedIsLogged, InLog
<1>b. UNCHANGED logVars => Goal
  <2> SUFFICES ASSUME UNCHANGED logVars PROVE Goal
    OBVIOUS
  <2>1. HandlerView'
    BY <1>0, <1>s DEF logVars, Sees
  <2> QED BY <2>1, <1>a DEF logVars
<1>1. ASSUME NEW hashes \in Requests, Receive(c0, hashes) PROVE Goal
  <2>1. hpc'[c0] = "search" /\ UNCHANGED <<timestamps, commitList, acked>>
    BY <1>t, <1>1 DEF Receive, disk
  <2>2. stored'[c0] = 0
    BY <1>0, <1>1 DEF Receive, HandlersOK
  <2>3. HandlerView'
    BY <1>s, <2>1, <2>2 DEF Sees
  <2> QED BY <2>1, <2>3, <1>a
<1>2. CASE SearchTimestamp(c0)
  <2>1. /\ hpc[c0] = "search" /\ hpc'[c0] = "split" /\ vals'[c0] = timestamps[ts[c0]] \o req[c0]
        /\ UNCHANGED <<timestamps, commitList, acked, req, ts, stored>>
    BY <1>t, <1>2 DEF SearchTimestamp, disk, envVars
  <2>2. HandlerView'
    BY <1>0, <1>s, <2>1 DEF Sees
  <2> QED BY <2>1, <2>2, <1>a
<1>k. CASE SplitTimestamps(c0)
  <2>1. /\ hpc[c0] = "split" /\ hpc'[c0] = "loadLeaf"
        /\ UNCHANGED <<timestamps, commitList, acked, req, ts, vals, stored>>
    BY <1>t, <1>k DEF SplitTimestamps, envVars
  <2>2. HandlerView'
    BY <1>0, <1>s, <2>1 DEF Sees
  <2> QED BY <2>1, <2>2, <1>a
<1>3. CASE LoadTimestamps(c0)
  <2>1. /\ hpc[c0] = "loadLeaf" /\ hpc'[c0] = "storeLeaf" /\ leaf'[c0] = timestamps
        /\ UNCHANGED <<timestamps, commitList, acked, req, ts, vals, stored>>
    BY <1>t, <1>3 DEF LoadTimestamps, disk, envVars
  <2>2. HandlerView'
    BY <1>0, <1>s, <2>1 DEF Sees
  <2> QED BY <2>1, <2>2, <1>a
<1>4. CASE StoreTimestamps(c0)
  <2>1. /\ hpc[c0] = "storeLeaf" /\ hpc'[c0] = "loadList"
        /\ timestamps' = [leaf[c0] EXCEPT ![ts[c0]] = vals[c0]]
        /\ UNCHANGED <<commitList, acked, req, ts, stored>>
    BY <1>t, <1>4 DEF StoreTimestamps, envVars
  <2>2. leaf[c0] = timestamps /\ vals[c0] = timestamps[ts[c0]] \o req[c0]
    BY <1>0, <1>s, <2>1 DEF Sees
  <2>3. /\ timestamps'[ts[c0]] = timestamps[ts[c0]] \o req[c0]
        /\ \A t \in Time \ {ts[c0]} : timestamps'[t] = timestamps[t]
    BY <1>t, <2>1, <2>2
  <2>4. timestamps[ts[c0]] \in Seq(Hash)
    BY <1>t
  <2>5. Elements(timestamps'[ts[c0]]) = Elements(timestamps[ts[c0]]) \cup Elements(req[c0])
    BY <1>t, <2>3, <2>4, ConcatElements
  <2>6. \A t \in Time : Elements(timestamps[t]) \subseteq Elements(timestamps'[t])
    BY <2>3, <2>5
  <2>7. AckedIsLogged'
    BY <1>0, <2>1, <2>6 DEF AckedIsLogged, InLog
  <2>8. stored[c0] = 0
    BY <1>0, <1>s, <2>1 DEF Sees
  <2>9. HandlerView'
    BY <1>s, <2>1, <2>5, <2>8 DEF Sees
  <2> QED BY <2>7, <2>9
<1>5. CASE LoadCommitList(c0)
  <2>1. /\ hpc[c0] = "loadList" /\ hpc'[c0] = "storeList" /\ list'[c0] = commitList
        /\ UNCHANGED <<timestamps, commitList, acked, req, ts, stored>>
    BY <1>t, <1>5 DEF LoadCommitList, disk, envVars
  <2>2. HandlerView'
    BY <1>0, <1>s, <2>1 DEF Sees
  <2> QED BY <2>1, <2>2, <1>a
<1>6. CASE StoreCommitList(c0)
  <2>1. /\ hpc[c0] = "storeList" /\ timestamps' = timestamps
        /\ commitList' = list[c0] \cup {req[c0][stored[c0] + 1]}
    BY <1>6 DEF StoreCommitList
  <2>2. /\ list[c0] = commitList
        /\ Elements(req[c0]) \subseteq Elements(timestamps[ts[c0]])
        /\ \A i \in 1..stored[c0] : req[c0][i] \in commitList
    BY <1>0, <1>s, <2>1 DEF Sees
  <2>3. \A i \in 1..(stored[c0] + 1) : req[c0][i] \in commitList'
    BY <1>t, <2>1, <2>2
  <2>4. commitList \subseteq commitList'
    BY <2>1, <2>2
  <2>5. CASE stored[c0] + 1 < Len(req[c0])
    <3>1. /\ hpc'[c0] = "loadList" /\ stored'[c0] = stored[c0] + 1
          /\ UNCHANGED <<req, ts, acked>>
      BY <1>t, <1>6, <2>5 DEF StoreCommitList
    <3>2. HandlerView'
      BY <1>s, <2>1, <2>2, <2>3, <3>1 DEF Sees
    <3>3. AckedIsLogged'
      BY <1>0, <2>1, <2>4, <3>1 DEF AckedIsLogged, InLog
    <3> QED BY <3>2, <3>3
  <2>6. CASE stored[c0] + 1 = Len(req[c0])
    <3>1. hpc'[c0] = "idle" /\ acked' = acked \cup Elements(req[c0])
      BY <1>t, <1>6, <2>6 DEF StoreCommitList
    <3>2. HandlerView'
      BY <1>s, <3>1 DEF Sees
    <3>3. \A h \in Elements(req[c0]) : h \in commitList'
      BY <1>t, <2>3, <2>6 DEF Elements
    <3>4. AckedIsLogged'
      <4>1. \A h \in Elements(req[c0]) : InLog(h)'
        BY <1>t, <2>1, <2>2, <3>3 DEF InLog
      <4>2. \A h \in acked : InLog(h)'
        BY <1>0, <2>1, <2>4 DEF AckedIsLogged, InLog
      <4> QED BY <3>1, <4>1, <4>2 DEF AckedIsLogged, InLog
    <3> QED BY <3>2, <3>4
  <2> QED BY <1>6, <2>5, <2>6 DEF StoreCommitList
<1>7. CASE Work
  BY <1>7, <1>b DEF Work, StartCommit, ReadRange, Collect, NothingToCommit, PushVectors,
                    StoreMetadata, StorePostings, MarkFinished,
                    logVars, disk, handlerVars, envVars
<1>8. CASE Crash
  <2>1. hpc'[c0] = "idle" /\ UNCHANGED <<timestamps, commitList, acked>>
    BY <1>8 DEF Crash, disk
  <2>2. HandlerView'
    BY <1>s, <2>1 DEF Sees
  <2> QED BY <2>1, <2>2, <1>a
<1>9. CASE OtherRequest
  BY <1>9, <1>b DEF OtherRequest, logVars, disk, handlerVars, envVars
<1>10. CASE Tick
  BY <1>10, <1>b DEF Tick, logVars, disk, handlerVars
<1>11. CASE UNCHANGED vars
  BY <1>11, <1>b DEF vars, logVars, disk, handlerVars, envVars
<1> QED BY <1>1, <1>2, <1>k, <1>3, <1>4, <1>5, <1>6, <1>7, <1>8, <1>9, <1>10, <1>11
        DEF Next, Log

(***************************************************************************)
(* With one handler at a time, what it loaded is what the log holds until  *)
(* it stores it back (wal.rs:376-385).                                     *)
(***************************************************************************)
THEOREM OneHandlerSees ==
    ASSUME NEW c0, Handler = {c0}
    PROVE  Spec => []HandlerView
<1>1. LogInv /\ [Next]_vars => HandlerView' /\ AckedIsLogged'
  BY LogStep
<1>2. TypeOK /\ HandlerView /\ AckedIsLogged => LogInv
  BY DEF LogInv
<1>3. TypeOK' /\ HandlerView' /\ AckedIsLogged' => LogInv'
  BY DEF LogInv
<1>4. LogInv => HandlerView
  BY DEF LogInv
<1> QED BY TypeCorrect, LogInit, <1>1, <1>2, <1>3, <1>4, PTL DEF Spec

(***************************************************************************)
(* With one handler at a time, every answered commit is in the log.  With  *)
(* two it need not be: one of them may write back a leaf it read before    *)
(* the other wrote it.                                                     *)
(***************************************************************************)
THEOREM OneHandlerLogs ==
    ASSUME NEW c0, Handler = {c0}
    PROVE  Spec => []AckedIsLogged
<1>1. LogInv /\ [Next]_vars => HandlerView' /\ AckedIsLogged'
  BY LogStep
<1>2. TypeOK /\ HandlerView /\ AckedIsLogged => LogInv
  BY DEF LogInv
<1>3. TypeOK' /\ HandlerView' /\ AckedIsLogged' => LogInv'
  BY DEF LogInv
<1>4. LogInv => AckedIsLogged
  BY DEF LogInv
<1> QED BY TypeCorrect, LogInit, <1>1, <1>2, <1>3, <1>4, PTL DEF Spec
-----------------------------------------------------------------------------
(***************************************************************************)
(* The promise: nothing but received commits reaches the index.            *)
(***************************************************************************)
OnlyReceived ==
    /\ commitList \subseteq Received
    /\ \A c \in Handler : list[c] \subseteq Received /\ Elements(req[c]) \subseteq Received
    /\ Elements(batch) \subseteq Received
    /\ Elements(vectors) \subseteq Received

PromiseInv == TypeOK /\ WorkerView /\ OnlyReceived

(***************************************************************************)
(* What Collect adds to the batch.                                         *)
(***************************************************************************)
LEMMA ElementsAppend ==
    ASSUME NEW s \in Seq(Hash), NEW h \in Hash
    PROVE  Elements(Append(s, h)) = Elements(s) \cup {h}
<1>1. /\ DOMAIN s = 1..Len(s) /\ Len(s) \in Nat
      /\ DOMAIN Append(s, h) = 1..(Len(s) + 1)
      /\ \A i \in 1..Len(s) : Append(s, h)[i] = s[i]
      /\ Append(s, h)[Len(s) + 1] = h
  OBVIOUS
<1>2. 1..(Len(s) + 1) = 1..Len(s) \cup {Len(s) + 1}
  BY <1>1
<1>3. Elements(Append(s, h)) \subseteq Elements(s) \cup {h}
  <2> SUFFICES ASSUME NEW i \in 1..(Len(s) + 1)
               PROVE  Append(s, h)[i] \in Elements(s) \cup {h}
    BY <1>1 DEF Elements
  <2>1. CASE i \in 1..Len(s)
    BY <1>1, <2>1 DEF Elements
  <2>2. CASE i = Len(s) + 1
    BY <1>1, <2>2
  <2> QED BY <1>2, <2>1, <2>2
<1>4. h \in Elements(Append(s, h))
  BY <1>1, <1>2 DEF Elements
<1>5. \A i \in DOMAIN s : s[i] \in Elements(Append(s, h))
  <2> SUFFICES ASSUME NEW i \in DOMAIN s PROVE s[i] \in Elements(Append(s, h))
    OBVIOUS
  <2>1. i \in DOMAIN Append(s, h) /\ Append(s, h)[i] = s[i]
    BY <1>1, <1>2
  <2> QED BY <2>1 DEF Elements
<1> QED BY <1>3, <1>4, <1>5 DEF Elements

(***************************************************************************)
(* A request only adds to what was received, and adds all its hashes.      *)
(***************************************************************************)
LEMMA ReceivedGrows ==
    ASSUME TypeOK, NEW c \in Handler, NEW hashes \in Requests, Receive(c, hashes)
    PROVE  Received \subseteq Received' /\ Elements(hashes) \subseteq Received'
<1>1. hashes \in Seq(Hash)
  BY WalAssumption
<1>2. /\ \A h \in Hash : adds[h] \in Nat
      /\ \A h \in Hash : adds'[h] = adds[h] + Occurrences(hashes, h)
  BY DEF TypeOK, EnvOK, Receive
<1>3. \A h \in Hash : Occurrences(hashes, h) \in Nat
  BY <1>1, OccurrencesType
<1>4. Received \subseteq Received'
  BY <1>2, <1>3 DEF Received
<1>5. ASSUME NEW i \in DOMAIN hashes PROVE hashes[i] \in Received'
  <2>1. hashes[i] \in Hash
    BY <1>1
  <2>2. Occurrences(hashes, hashes[i]) > 0
    BY <1>1, <2>1, OccurrencesType
  <2>3. adds'[hashes[i]] > 0
    BY <1>2, <1>3, <2>1, <2>2
  <2> QED BY <2>1, <2>3 DEF Received
<1> QED BY <1>4, <1>5 DEF Elements

(***************************************************************************)
(* Nothing is received, and nothing on disk or under way, at first.        *)
(***************************************************************************)
LEMMA ReceivedInit == Init => OnlyReceived /\ Received = {}
<1> SUFFICES ASSUME Init PROVE OnlyReceived /\ Received = {}
  OBVIOUS
<1>1. Elements(<<>>) = {}
  <2>1. DOMAIN <<>> = {}
    OBVIOUS
  <2> QED BY <2>1 DEF Elements
<1>2. Received = {}
  BY DEF Init, Received
<1> QED BY <1>1, <1>2 DEF Init, IdleHandlers, IdleWorker, OnlyReceived

(***************************************************************************)
(* No step brings in a hash that nobody sent.                              *)
(***************************************************************************)
LEMMA OnlyReceivedStep == PromiseInv /\ [Next]_vars => OnlyReceived'
<1> SUFFICES ASSUME PromiseInv, [Next]_vars PROVE OnlyReceived'
  OBVIOUS
<1>0. TypeOK /\ WorkerView /\ OnlyReceived /\ DiskOK /\ HandlersOK /\ WorkerOK
  BY DEF PromiseInv, TypeOK
<1>n. Elements(<<>>) = {}
  <2>1. DOMAIN <<>> = {}
    OBVIOUS
  <2> QED BY <2>1 DEF Elements
<1>a. UNCHANGED adds => Received' = Received
  BY DEF Received
<1>b. UNCHANGED <<commitList, list, req, batch, vectors, adds>> => OnlyReceived'
  BY <1>0, <1>a DEF OnlyReceived
<1>r. ResetWorker => Elements(batch') = {}
  BY <1>n DEF ResetWorker
<1>1. ASSUME NEW c \in Handler, NEW hashes \in Requests, Receive(c, hashes)
      PROVE  OnlyReceived'
  <2>1. Received \subseteq Received' /\ Elements(hashes) \subseteq Received'
    BY <1>0, <1>1, ReceivedGrows
  <2>2. /\ req' = [req EXCEPT ![c] = hashes]
        /\ UNCHANGED <<commitList, list, batch, vectors>>
    BY <1>1 DEF Receive, disk, workerVars
  <2>3. \A d \in Handler : req'[d] = IF d = c THEN hashes ELSE req[d]
    BY <1>0, <2>2 DEF HandlersOK
  <2> QED BY <1>0, <2>1, <2>2, <2>3 DEF OnlyReceived
<1>2. ASSUME NEW c \in Handler, LoadCommitList(c) PROVE OnlyReceived'
  <2>1. /\ list' = [list EXCEPT ![c] = commitList]
        /\ UNCHANGED <<commitList, req, batch, vectors, adds>>
    BY <1>2 DEF LoadCommitList, disk, workerVars, envVars
  <2>2. \A d \in Handler : list'[d] = IF d = c THEN commitList ELSE list[d]
    BY <1>0, <2>1 DEF HandlersOK
  <2> QED BY <1>0, <1>a, <2>1, <2>2 DEF OnlyReceived
<1>3. ASSUME NEW c \in Handler, StoreCommitList(c) PROVE OnlyReceived'
  <2>1. /\ commitList' = list[c] \cup {req[c][stored[c] + 1]}
        /\ list' = [list EXCEPT ![c] = {}]
        /\ \/ req' = req
           \/ req' = [req EXCEPT ![c] = <<>>]
        /\ UNCHANGED <<batch, vectors, adds>>
    BY <1>3 DEF StoreCommitList, workerVars
  <2>2. req[c][stored[c] + 1] \in Elements(req[c])
    BY <1>0, <1>3 DEF StoreCommitList, HandlersOK, Elements
  <2>3. \A d \in Handler : list'[d] = IF d = c THEN {} ELSE list[d]
    BY <1>0, <2>1 DEF HandlersOK
  <2>4. \A d \in Handler : Elements(req'[d]) \subseteq Elements(req[d])
    BY <1>0, <1>n, <2>1 DEF HandlersOK
  <2>5. commitList' \subseteq Received
    BY <1>0, <2>1, <2>2 DEF OnlyReceived
  <2>6. \A d \in Handler : list'[d] \subseteq Received /\ Elements(req'[d]) \subseteq Received
    BY <1>0, <2>3, <2>4 DEF OnlyReceived
  <2> QED BY <1>0, <1>a, <2>1, <2>5, <2>6 DEF OnlyReceived
<1>4. ASSUME NEW c \in Handler,
             \/ SearchTimestamp(c) \/ SplitTimestamps(c)
             \/ LoadTimestamps(c) \/ StoreTimestamps(c)
      PROVE  OnlyReceived'
  BY <1>4, <1>b DEF SearchTimestamp, SplitTimestamps, LoadTimestamps, StoreTimestamps, disk, workerVars, envVars
<1>5. ASSUME NEW t \in Time, Collect(t) PROVE OnlyReceived'
  <2>1. /\ UNCHANGED <<commitList, list, req, vectors, adds>>
        /\ \/ batch' = batch
           \/ Head(seen[t]) \in commitList /\ batch' = Append(batch, Head(seen[t]))
    BY <1>5 DEF Collect, Unfinished, disk, handlerVars, envVars
  <2>2. batch \in Seq(Hash) /\ commitList \subseteq Hash
    BY <1>0 DEF WorkerOK, DiskOK
  <2>3. Elements(batch') \subseteq Elements(batch) \cup commitList
    BY <2>1, <2>2, ElementsAppend
  <2> QED BY <1>0, <1>a, <2>1, <2>3 DEF OnlyReceived
<1>6. CASE PushVectors
  <2>1. /\ vectors \in Seq(Hash) /\ batch \in Seq(Hash)
        /\ vectors' = vectors \o batch
    BY <1>0, <1>6, PushAppends
  <2>2. Elements(vectors') = Elements(vectors) \cup Elements(batch)
    BY <2>1, ConcatElements
  <2>3. UNCHANGED <<commitList, list, req, batch, adds>>
    BY <1>6 DEF PushVectors, handlerVars, envVars
  <2> QED BY <1>0, <1>a, <2>2, <2>3 DEF OnlyReceived
<1>7. ASSUME ResetWorker, UNCHANGED <<commitList, list, req, vectors, adds>>
      PROVE  OnlyReceived'
  BY <1>0, <1>7, <1>a, <1>r DEF OnlyReceived
<1>8. CASE NothingToCommit
  BY <1>8, <1>7 DEF NothingToCommit, disk, handlerVars, envVars
<1>9. CASE MarkFinished
  BY <1>9, <1>7, <1>b DEF MarkFinished, disk, handlerVars, envVars
<1>10. CASE Crash
  <2>1. /\ ResetWorker
        /\ list' = [c \in Handler |-> {}] /\ req' = [c \in Handler |-> <<>>]
        /\ UNCHANGED <<commitList, vectors, adds>>
    BY <1>10 DEF Crash, disk
  <2>2. \A d \in Handler : list'[d] = {} /\ Elements(req'[d]) = {}
    BY <1>n, <2>1
  <2> QED BY <1>0, <1>a, <1>r, <2>1, <2>2 DEF OnlyReceived
<1>11. ASSUME \/ StartCommit \/ ReadRange \/ OtherRequest \/ Tick \/ UNCHANGED vars
              \/ \E j \in metaLeft : StoreMetadata(j)
              \/ \E kv \in kvLeft : StorePostings(kv)
       PROVE  OnlyReceived'
  BY <1>11, <1>b DEF StartCommit, ReadRange, StoreMetadata, StorePostings, OtherRequest, Tick,
                     vars, disk, handlerVars, workerVars, envVars
<1> QED BY <1>1, <1>2, <1>3, <1>4, <1>5, <1>6, <1>8, <1>9, <1>10, <1>11 DEF Next, Log, Work

(***************************************************************************)
(* What the refinement rests on holds in every state.                      *)
(***************************************************************************)
LEMMA PromiseInvariant == Spec => []PromiseInv
<1>1. TypeOK /\ WorkerView /\ OnlyReceived => PromiseInv
  BY DEF PromiseInv
<1>2. TypeOK' /\ WorkerView' /\ OnlyReceived' => PromiseInv'
  BY DEF PromiseInv
<1>3. Init => OnlyReceived
  BY ReceivedInit
<1> QED BY TypeCorrect, WorkerViewHolds, <1>3, OnlyReceivedStep, <1>1, <1>2, PTL DEF Spec

(***************************************************************************)
(* Each step leaves the vectors, items and postings that are there.        *)
(***************************************************************************)
LEMMA StepGrows == TypeOK /\ WorkerView /\ [Next]_vars => Grows
<1> SUFFICES ASSUME TypeOK, WorkerView, [Next]_vars PROVE Grows
  OBVIOUS
<1>1. CASE PushVectors
  BY <1>1, PushAppends DEF Grows, PushVectors
<1>2. ASSUME NEW j \in metaLeft, StoreMetadata(j) PROVE Grows
  BY <1>2 DEF Grows, StoreMetadata
<1>3. ASSUME NEW kv \in kvLeft, StorePostings(kv) PROVE Grows
  <2>1. postings \in [KV -> SUBSET Nat]
    BY DEF TypeOK, DiskOK
  <2>2. \A lv \in KV : postings[lv] \subseteq postings'[lv]
    BY <1>3, <2>1 DEF StorePostings
  <2> QED BY <1>3, <2>2 DEF Grows, StorePostings
<1>4. CASE UNCHANGED <<vectors, metadata, postings>>
  BY <1>4 DEF Grows
<1> QED BY <1>1, <1>2, <1>3, <1>4
        DEF Next, Receive, Log, SearchTimestamp, SplitTimestamps, LoadTimestamps, StoreTimestamps,
            LoadCommitList, StoreCommitList, Work, StartCommit, ReadRange, Collect,
            NothingToCommit, MarkFinished, Crash, OtherRequest, Tick, vars, disk

IndexedSet == {h \in Hash : Indexed(h)}

(***************************************************************************)
(* What is indexed was sent by somebody.                                   *)
(***************************************************************************)
LEMMA IndexedIsReceived ==
    ASSUME OnlyReceived
    PROVE  IndexedSet \subseteq Received
BY DEF IndexedSet, Indexed, OnlyReceived, Elements

(***************************************************************************)
(* A step maps to a step of DurableIndex or to a stutter: Receive to       *)
(* Receive, the last store of a request to Answer, the worker's to Index.  *)
(***************************************************************************)
LEMMA PromiseStep == PromiseInv /\ PromiseInv' /\ [Next]_vars => [Promise!Next]_(Promise!dvars)
<1> SUFFICES ASSUME PromiseInv, PromiseInv', [Next]_vars
             PROVE  [Promise!Next]_(Promise!dvars)
  OBVIOUS
<1>0. TypeOK /\ WorkerView /\ OnlyReceived /\ OnlyReceived' /\ DiskOK /\ HandlersOK /\ EnvOK
  BY DEF PromiseInv, TypeOK
<1>g. IndexedSet \subseteq IndexedSet'
  BY <1>0, StepGrows, GrowsKeepsIndexed, WalAssumption DEF IndexedSet
<1>i. IndexedSet' \subseteq Received'
  BY <1>0, IndexedIsReceived DEF IndexedSet, OnlyReceived, Received, Indexed, Elements
<1>h. Received' \in SUBSET Hash /\ IndexedSet' \in SUBSET Hash
  BY DEF Received, IndexedSet
<1>1. CASE /\ Received \subseteq Received' /\ UNCHANGED <<acked, vectors, metadata, postings>>
  <2>1. Received' = Received \cup Received' /\ IndexedSet' = IndexedSet
    BY <1>1 DEF IndexedSet, Indexed, Item
  <2>2. Promise!Receive(Received')
    BY <1>1, <2>1 DEF Promise!Receive, IndexedSet
  <2> QED BY <1>h, <2>2 DEF Promise!Next
<1>2. CASE UNCHANGED <<acked, adds>>
  <2>1. Received' = Received
    BY <1>2 DEF Received
  <2>2. IndexedSet' = IndexedSet \cup IndexedSet' /\ IndexedSet' \subseteq Received
    BY <1>g, <1>i, <2>1
  <2>3. Promise!Index(IndexedSet')
    BY <1>2, <2>1, <2>2 DEF Promise!Index, IndexedSet
  <2> QED BY <1>h, <2>3 DEF Promise!Next
<1>3. ASSUME NEW c \in Handler, StoreCommitList(c)
      PROVE  [Promise!Next]_(Promise!dvars)
  <2>1. CASE acked' = acked \cup Elements(req[c])
    <3>1. /\ Elements(req[c]) \subseteq Received
          /\ UNCHANGED <<adds, vectors, metadata, postings>>
      BY <1>0, <1>3 DEF StoreCommitList, OnlyReceived
    <3>2. Received' = Received /\ IndexedSet' = IndexedSet
      BY <3>1 DEF Received, IndexedSet, Indexed, Item
    <3>3. Elements(req[c]) \in SUBSET Hash
      BY <3>1 DEF Received
    <3>4. Promise!Answer(Elements(req[c]))
      BY <2>1, <3>1, <3>2 DEF Promise!Answer, IndexedSet
    <3> QED BY <3>3, <3>4 DEF Promise!Next
  <2>2. CASE acked' = acked
    BY <1>2, <1>3, <2>2 DEF StoreCommitList
  <2> QED BY <1>3, <2>1, <2>2 DEF StoreCommitList
<1>4. ASSUME NEW c \in Handler, NEW hashes \in Requests, Receive(c, hashes)
      PROVE  [Promise!Next]_(Promise!dvars)
  <2>1. Received \subseteq Received'
    BY <1>0, <1>4, ReceivedGrows
  <2> QED BY <1>1, <1>4, <2>1 DEF Receive, disk
<1>5. ASSUME NEW c \in Handler, Log(c), ~StoreCommitList(c)
      PROVE  [Promise!Next]_(Promise!dvars)
  BY <1>2, <1>5 DEF Log, SearchTimestamp, SplitTimestamps, LoadTimestamps, StoreTimestamps,
                    LoadCommitList, envVars
<1>6. CASE Work
  BY <1>2, <1>6 DEF Work, StartCommit, ReadRange, Collect, NothingToCommit, PushVectors,
                    StoreMetadata, StorePostings, MarkFinished, envVars
<1>7. CASE Crash \/ OtherRequest \/ Tick \/ UNCHANGED vars
  BY <1>2, <1>7 DEF Crash, OtherRequest, Tick, vars, envVars
<1> QED BY <1>3, <1>4, <1>5, <1>6, <1>7 DEF Next

(***************************************************************************)
(* The write path, worker and crashes included, implements DurableIndex.   *)
(***************************************************************************)
THEOREM ImplementsPromise == Spec => KeepsPromise
<1>1. Init => Promise!Init
  <2> SUFFICES ASSUME Init PROVE Promise!Init
    OBVIOUS
  <2>1. DOMAIN <<>> = {}
    OBVIOUS
  <2>2. {h \in Hash : Indexed(h)} = {}
    BY <2>1 DEF Init, Indexed
  <2> QED BY <2>2, ReceivedInit DEF Init, Promise!Init
<1> QED BY <1>1, PromiseInvariant, PromiseStep, PTL DEF Spec, KeepsPromise, Promise!Spec

-----------------------------------------------------------------------------
(***************************************************************************)
(* CopiesBounded, for one handler at a time: the log holds a commit as     *)
(* often as it was sent, and as often again as splits have copied it; the  *)
(* worker takes it from there, and repeats only what a crash kept it from  *)
(* marking.                                                                *)
(*                                                                         *)
(* The positions of a commit in the list of a second.                      *)
(***************************************************************************)
Hits(s, h) == {i \in DOMAIN s : s[i] = h}

(***************************************************************************)
(* Where in a log a commit stands, by second and position, and how often.  *)
(***************************************************************************)
Slots(log, h) == {p \in Time \X Nat : p[2] \in Hits(log[p[1]], h)}

Times(log, h) == Cardinality(Slots(log, h))


(***************************************************************************)
(* Sets that correspond one to one are of one size.                        *)
(***************************************************************************)
LEMMA OneToOne ==
    ASSUME NEW S, NEW T, IsFiniteSet(S), NEW f \in [S -> T],
           \A a, b \in S : f[a] = f[b] => a = b,
           \A y \in T : \E x \in S : f[x] = y
    PROVE  IsFiniteSet(T) /\ Cardinality(T) = Cardinality(S)
<1>1. ExistsBijection(S, T)
  <2>1. f \in Injection(S, T)
    BY DEF Injection, IsInjective
  <2>2. f \in Surjection(S, T)
    BY DEF Surjection
  <2> QED BY <2>1, <2>2 DEF ExistsBijection, Bijection
<1> QED BY <1>1, FS_Bijection

(***************************************************************************)
(* Occurrences are counted by positions.                                   *)
(***************************************************************************)
LEMMA HitsSize ==
    ASSUME NEW s \in Seq(Hash), NEW h
    PROVE  /\ IsFiniteSet(Hits(s, h)) /\ Cardinality(Hits(s, h)) = Occurrences(s, h)
           /\ Occurrences(s, h) \in Nat
<1>1. DOMAIN s = 1..Len(s) /\ Len(s) \in Nat
  OBVIOUS
<1>2. IsFiniteSet(1..Len(s))
  BY <1>1, FS_Interval
<1>3. IsFiniteSet(Hits(s, h))
  BY <1>1, <1>2, FS_Subset DEF Hits
<1> QED BY <1>3, FS_CardinalityType DEF Hits, Occurrences

(***************************************************************************)
(* Concatenation adds up occurrences, and one commit occurs once.          *)
(***************************************************************************)
LEMMA ConcatOccurrences ==
    ASSUME NEW s \in Seq(Hash), NEW r \in Seq(Hash), NEW h
    PROVE  Occurrences(s \o r, h) = Occurrences(s, h) + Occurrences(r, h)
<1> DEFINE A == Hits(s, h)
           B == Hits(r, h)
           C == {Len(s) + i : i \in B}
<1>0. /\ DOMAIN s = 1..Len(s) /\ DOMAIN r = 1..Len(r) /\ Len(s) \in Nat /\ Len(r) \in Nat
      /\ s \o r \in Seq(Hash) /\ DOMAIN (s \o r) = 1..(Len(s) + Len(r))
  BY ConcatEntries
<1>1. Hits(s \o r, h) = A \cup C
  <2>1. ASSUME NEW i \in Hits(s \o r, h) PROVE i \in A \cup C
    <3>1. i \in 1..(Len(s) + Len(r)) /\ (s \o r)[i] = h
      BY <1>0, <2>1 DEF Hits
    <3>2. CASE i \in 1..Len(s)
      BY <3>1, <3>2, LeftEntry DEF Hits
    <3>3. CASE i \notin 1..Len(s)
      <4>1. PICK j \in 1..Len(r) : i = Len(s) + j
        BY <3>1, <3>3, ConcatEntries
      <4>2. r[j] = h
        BY <3>1, <4>1, RightEntry
      <4>3. j \in B
        BY <1>0, <4>2 DEF Hits
      <4> QED BY <4>1, <4>3
    <3> QED BY <3>2, <3>3
  <2>2. ASSUME NEW i \in A PROVE i \in Hits(s \o r, h)
    <3>1. i \in 1..Len(s) /\ s[i] = h
      BY <1>0 DEF Hits
    <3>2. i \in 1..(Len(s) + Len(r)) /\ (s \o r)[i] = h
      BY <3>1, LeftEntry, ConcatEntries
    <3> QED BY <1>0, <3>2 DEF Hits
  <2>3. ASSUME NEW j \in B PROVE Len(s) + j \in Hits(s \o r, h)
    <3>1. j \in 1..Len(r) /\ r[j] = h
      BY <1>0 DEF Hits
    <3>2. Len(s) + j \in 1..(Len(s) + Len(r)) /\ (s \o r)[Len(s) + j] = h
      BY <3>1, RightEntry, ConcatEntries
    <3> QED BY <1>0, <3>2 DEF Hits
  <2> QED BY <2>1, <2>2, <2>3
<1>2. IsFiniteSet(A) /\ IsFiniteSet(B)
  BY HitsSize
<1>3. IsFiniteSet(C) /\ Cardinality(C) = Cardinality(B)
  <2> DEFINE f == [i \in B |-> Len(s) + i]
  <2>1. \A i \in B : i \in Nat
    BY <1>0 DEF Hits
  <2>2. f \in [B -> C]
    OBVIOUS
  <2>3. \A a, b \in B : f[a] = f[b] => a = b
    BY <1>0, <2>1
  <2>4. \A y \in C : \E x \in B : f[x] = y
    OBVIOUS
  <2> HIDE DEF f, C, B
  <2> QED BY <1>2, <2>2, <2>3, <2>4, OneToOne
<1>4. A \cap C = {}
  BY <1>0 DEF Hits
<1>5. Cardinality(A \cup C) = Cardinality(A) + Cardinality(C)
  <2>1. Cardinality(A) \in Nat /\ Cardinality(C) \in Nat
    BY <1>2, <1>3, FS_CardinalityType
  <2>2. Cardinality(A \cup C) = Cardinality(A) + Cardinality(C) - Cardinality({})
    BY <1>2, <1>3, <1>4, FS_Union
  <2> QED BY <2>1, <2>2, FS_EmptySet
<1> QED BY <1>0, <1>1, <1>3, <1>5, HitsSize

(***************************************************************************)
(* A commit occurs once in the log entry of itself alone.                  *)
(***************************************************************************)
LEMMA OneOccurrence ==
    ASSUME NEW x \in Hash, NEW h
    PROVE  Occurrences(<<x>>, h) = IF x = h THEN 1 ELSE 0
<1>1. DOMAIN <<x>> = {1} /\ <<x>>[1] = x
  OBVIOUS
<1>2. Occurrences(<<x>>, h) = Cardinality(IF x = h THEN {1} ELSE {})
  BY <1>1 DEF Occurrences
<1> QED BY <1>2, FS_Singleton, FS_EmptySet

(***************************************************************************)
(* Nothing occurs in an empty entry.                                       *)
(***************************************************************************)
LEMMA NoOccurrence == \A h : Occurrences(<<>>, h) = 0
<1>1. DOMAIN <<>> = {}
  OBVIOUS
<1> QED BY <1>1, FS_EmptySet DEF Occurrences

(***************************************************************************)
(* What Collect takes of an entry and what it leaves add up to it.         *)
(***************************************************************************)
LEMMA HeadOccurrences ==
    ASSUME NEW s \in Seq(Hash), s # <<>>, NEW h
    PROVE  Occurrences(s, h) = Occurrences(<<Head(s)>>, h) + Occurrences(Tail(s), h)
<1>1. Head(s) \in Hash /\ Tail(s) \in Seq(Hash) /\ <<Head(s)>> \in Seq(Hash)
  BY HeadTail
<1>2. s = <<Head(s)>> \o Tail(s)
  OBVIOUS
<1>3. Occurrences(<<Head(s)>> \o Tail(s), h) = Occurrences(<<Head(s)>>, h) + Occurrences(Tail(s), h)
  BY <1>1, ConcatOccurrences
<1> QED BY <1>2, <1>3

(***************************************************************************)
(* What Collect puts into the batch occurs there once more.                *)
(***************************************************************************)
LEMMA AppendOccurrences ==
    ASSUME NEW s \in Seq(Hash), NEW x \in Hash, NEW h
    PROVE  Occurrences(Append(s, x), h) = Occurrences(s, h) + Occurrences(<<x>>, h)
<1>1. Append(s, x) = s \o <<x>> /\ <<x>> \in Seq(Hash)
  OBVIOUS
<1> QED BY <1>1, ConcatOccurrences

-----------------------------------------------------------------------------
(***************************************************************************)
(* Where a commit stands in the log of other seconds.                      *)
(***************************************************************************)
Elsewhere(log, t, h) == {p \in Slots(log, h) : p[1] # t}

(***************************************************************************)
(* A commit stands in finitely many places of a log.                       *)
(***************************************************************************)
LEMMA SlotsFinite ==
    ASSUME NEW log \in [Time -> Seq(Hash)], NEW h
    PROVE  IsFiniteSet(Slots(log, h)) /\ Times(log, h) \in Nat
<1> DEFINE At(t) == {t} \X Hits(log[t], h)
           All == {At(t) : t \in Time}
<1>1. IsFiniteSet(Time)
  BY WalAssumption, FS_Interval DEF Time
<1>2. IsFiniteSet(All)
  <2> DEFINE f == [t \in Time |-> At(t)]
  <2>1. f \in Surjection(Time, All)
    BY DEF Surjection
  <2> HIDE DEF f, All
  <2> QED BY <1>1, <2>1, FS_Surjection
<1>3. \A T \in All : IsFiniteSet(T)
  <2> SUFFICES ASSUME NEW t \in Time PROVE IsFiniteSet(At(t))
    OBVIOUS
  <2>1. IsFiniteSet({t}) /\ IsFiniteSet(Hits(log[t], h))
    BY FS_Singleton, HitsSize
  <2> QED BY <2>1, FS_Product
<1>4. Slots(log, h) \subseteq UNION All
  <2> SUFFICES ASSUME NEW p \in Slots(log, h) PROVE p \in At(p[1]) /\ p[1] \in Time
    OBVIOUS
  <2> QED BY DEF Slots
<1>5. IsFiniteSet(UNION All)
  <2> HIDE DEF All
  <2> QED BY <1>2, <1>3, FS_UNION
<1>6. IsFiniteSet(Slots(log, h))
  BY <1>4, <1>5, FS_Subset
<1> QED BY <1>6, FS_CardinalityType DEF Times

(***************************************************************************)
(* They are those of one second and those of the others.                   *)
(***************************************************************************)
LEMMA SlotsSplit ==
    ASSUME NEW log \in [Time -> Seq(Hash)], NEW t \in Time, NEW h
    PROVE  /\ Cardinality(Elsewhere(log, t, h)) \in Nat
           /\ Times(log, h) = Cardinality(Elsewhere(log, t, h)) + Occurrences(log[t], h)
<1> DEFINE E == Elsewhere(log, t, h)
           Here == {t} \X Hits(log[t], h)
<1>0. log[t] \in Seq(Hash)
  OBVIOUS
<1>1. IsFiniteSet(E) /\ Cardinality(E) \in Nat
  <2>1. E \subseteq Slots(log, h)
    BY DEF Elsewhere
  <2> QED BY <2>1, SlotsFinite, FS_Subset, FS_CardinalityType
<1>2. IsFiniteSet(Here) /\ Cardinality(Here) = Occurrences(log[t], h) /\ Occurrences(log[t], h) \in Nat
  <2>1. /\ IsFiniteSet(Hits(log[t], h)) /\ Cardinality(Hits(log[t], h)) = Occurrences(log[t], h)
        /\ Occurrences(log[t], h) \in Nat
    BY <1>0, HitsSize
  <2>2. IsFiniteSet({t}) /\ Cardinality({t}) = 1
    BY FS_Singleton
  <2>3. IsFiniteSet(Here) /\ Cardinality(Here) = 1 * Occurrences(log[t], h)
    BY <2>1, <2>2, FS_Product
  <2> QED BY <2>1, <2>3
<1>3. Slots(log, h) = E \cup Here
  <2>1. \A i \in Hits(log[t], h) : i \in Nat
    BY <1>0 DEF Hits
  <2>2. ASSUME NEW p \in Slots(log, h), p[1] = t PROVE p \in Here
    BY <2>2 DEF Slots
  <2>3. ASSUME NEW p \in Here PROVE p \in Slots(log, h)
    BY <2>1 DEF Slots
  <2> QED BY <2>2, <2>3 DEF Elsewhere
<1>4. E \cap Here = {}
  BY DEF Elsewhere
<1>5. Cardinality(E \cup Here) = Cardinality(E) + Cardinality(Here) - Cardinality({})
  <2> HIDE DEF E, Here
  <2> QED BY <1>1, <1>2, <1>4, FS_Union
<1> QED BY <1>1, <1>2, <1>3, <1>5, FS_EmptySet DEF Times

(***************************************************************************)
(* A log changed in one second has as many more, or fewer, as that second. *)
(***************************************************************************)
LEMMA TimesUpdated ==
    ASSUME NEW log \in [Time -> Seq(Hash)], NEW new \in [Time -> Seq(Hash)], NEW t \in Time,
           \A u \in Time \ {t} : new[u] = log[u], NEW h
    PROVE  Times(new, h) + Occurrences(log[t], h) = Times(log, h) + Occurrences(new[t], h)
<1>1. Elsewhere(new, t, h) = Elsewhere(log, t, h)
  BY DEF Elsewhere, Slots
<1>2. /\ Times(new, h) = Cardinality(Elsewhere(new, t, h)) + Occurrences(new[t], h)
      /\ Times(log, h) = Cardinality(Elsewhere(log, t, h)) + Occurrences(log[t], h)
      /\ Cardinality(Elsewhere(log, t, h)) \in Nat
  BY SlotsSplit
<1>3. Occurrences(new[t], h) \in Nat /\ Occurrences(log[t], h) \in Nat
  BY HitsSize
<1> QED BY <1>1, <1>2, <1>3

(***************************************************************************)
(* What is left out of a log can only make it stand there less often.      *)
(***************************************************************************)
LEMMA TimesWithin ==
    ASSUME NEW log \in [Time -> Seq(Hash)], NEW part \in [Time -> Seq(Hash)],
           \A t \in Time : part[t] \in {log[t], <<>>}, NEW h
    PROVE  Times(part, h) <= Times(log, h)
<1>1. DOMAIN <<>> = {}
  OBVIOUS
<1>2. \A t \in Time : Hits(part[t], h) \subseteq Hits(log[t], h)
  BY <1>1 DEF Hits
<1>3. Slots(part, h) \subseteq Slots(log, h)
  BY <1>2 DEF Slots
<1> QED BY <1>3, SlotsFinite, FS_Subset DEF Times

(***************************************************************************)
(* Two logs, one put before the other second by second, hold it as often   *)
(* as the two of them.                                                     *)
(***************************************************************************)
LEMMA TimesJoined ==
    ASSUME NEW front \in [Time -> Seq(Hash)], NEW back \in [Time -> Seq(Hash)],
           NEW both \in [Time -> Seq(Hash)],
           \A t \in Time : both[t] = front[t] \o back[t], NEW h
    PROVE  Times(both, h) <= Times(front, h) + Times(back, h)
<1> DEFINE F == Slots(front, h)
           B == Slots(back, h)
           S == Slots(both, h)
           R == S \ F
           f == [p \in R |-> <<p[1], p[2] - Len(front[p[1]])>>]
<1>1. IsFiniteSet(F) /\ IsFiniteSet(B) /\ IsFiniteSet(S)
  BY SlotsFinite
<1>2. ASSUME NEW p \in R
      PROVE  /\ p[1] \in Time /\ p[2] \in Nat /\ p = <<p[1], p[2]>>
             /\ Len(front[p[1]]) \in Nat
             /\ <<p[1], p[2] - Len(front[p[1]])>> \in B
  <2> DEFINE t == p[1]
             i == p[2]
             a == front[t]
             b == back[t]
  <2>1. p \in Time \X Nat /\ i \in Hits(both[t], h) /\ p \notin F
    BY DEF Slots
  <2>2. t \in Time /\ i \in Nat /\ p = <<t, i>>
    BY <2>1
  <2>3. a \in Seq(Hash) /\ b \in Seq(Hash) /\ both[t] = a \o b
    BY <2>2
  <2> HIDE DEF a, b
  <2>4. i \in DOMAIN (a \o b) /\ (a \o b)[i] = h
    BY <2>1, <2>3 DEF Hits
  <2>5. /\ DOMAIN a = 1..Len(a) /\ DOMAIN b = 1..Len(b) /\ Len(a) \in Nat /\ Len(b) \in Nat
        /\ DOMAIN (a \o b) = 1..(Len(a) + Len(b))
    BY <2>3, ConcatEntries
  <2>6. i \notin 1..Len(a)
    <3>1. SUFFICES ASSUME i \in 1..Len(a) PROVE FALSE
      OBVIOUS
    <3>2. i \in DOMAIN a /\ a[i] = h
      BY <2>3, <2>4, <3>1, LeftEntry
    <3>3. i \in Hits(a, h)
      BY <3>2 DEF Hits
    <3> QED BY <2>1, <2>2, <3>3 DEF Slots, a
  <2>7. PICK j \in 1..Len(b) : i = Len(a) + j
    BY <2>3, <2>4, <2>5, <2>6, ConcatEntries
  <2>8. b[j] = h /\ j \in DOMAIN b
    BY <2>3, <2>4, <2>7, RightEntry
  <2>9. i - Len(a) = j /\ j \in Nat
    BY <2>5, <2>7
  <2>10. j \in Hits(b, h)
    BY <2>8 DEF Hits
  <2>11. <<t, j>> \in B
    BY <2>2, <2>9, <2>10 DEF Slots, b
  <2> QED BY <2>2, <2>5, <2>9, <2>11 DEF a
<1>3. f \in Injection(R, B)
  <2>1. f \in [R -> B]
    BY <1>2
  <2>2. ASSUME NEW p \in R, NEW q \in R, f[p] = f[q] PROVE p = q
    <3>1. <<p[1], p[2] - Len(front[p[1]])>> = <<q[1], q[2] - Len(front[q[1]])>>
      BY <2>2
    <3>2. p[1] = q[1] /\ p[2] - Len(front[p[1]]) = q[2] - Len(front[p[1]])
      BY <3>1
    <3> DEFINE n == Len(front[p[1]])
    <3>3. p[2] \in Nat /\ q[2] \in Nat /\ n \in Nat /\ p[2] - n = q[2] - n
      BY <1>2, <3>2
    <3>4. p[2] = q[2]
      <4> HIDE DEF n, R
      <4> QED BY <3>3
    <3> QED BY <1>2, <3>2, <3>4
  <2> HIDE DEF f
  <2> QED BY <2>1, <2>2 DEF Injection, IsInjective
<1>4. IsFiniteSet(R) /\ Cardinality(R) <= Cardinality(B) /\ Cardinality(R) \in Nat
  <2> HIDE DEF f, R
  <2> QED BY <1>1, <1>3, FS_Injection, FS_CardinalityType
<1>5. Cardinality(F \cup R) = Cardinality(F) + Cardinality(R) - Cardinality({})
  <2>1. F \cap R = {}
    OBVIOUS
  <2> HIDE DEF F, R
  <2> QED BY <1>1, <1>4, <2>1, FS_Union
<1>6. Cardinality(S) <= Cardinality(F \cup R)
  <2>1. S \subseteq F \cup R
    OBVIOUS
  <2>2. IsFiniteSet(F \cup R)
    <3> HIDE DEF R
    <3> QED BY <1>1, <1>4, FS_Union
  <2> HIDE DEF R, S, F
  <2> QED BY <2>1, <2>2, FS_Subset
<1>7. /\ Cardinality(F) \in Nat /\ Cardinality(B) \in Nat /\ Cardinality(S) \in Nat
      /\ Cardinality({}) = 0 /\ Cardinality(F \cup R) \in Nat
  <2>1. IsFiniteSet(F \cup R)
    <3> HIDE DEF R
    <3> QED BY <1>1, <1>4, FS_Union
  <2> HIDE DEF R, S, F
  <2> QED BY <1>1, <2>1, FS_CardinalityType, FS_EmptySet
<1>8. Cardinality(S) <= Cardinality(F) + Cardinality(B)
  <2> HIDE DEF R, S, F, B
  <2> QED BY <1>4, <1>5, <1>6, <1>7
<1> QED BY <1>8 DEF Times

(***************************************************************************)
(* What is put behind the entries of a log makes it stand there no less    *)
(* often.                                                                  *)
(***************************************************************************)
LEMMA TimesGrow ==
    ASSUME NEW log \in [Time -> Seq(Hash)], NEW new \in [Time -> Seq(Hash)],
           NEW more \in [Time -> Seq(Hash)],
           \A t \in Time : new[t] \in {log[t], log[t] \o more[t]}, NEW h
    PROVE  Times(log, h) <= Times(new, h)
<1>1. ASSUME NEW t \in Time PROVE Hits(log[t], h) \subseteq Hits(new[t], h)
  <2> SUFFICES ASSUME NEW i \in Hits(log[t], h), new[t] = log[t] \o more[t]
               PROVE  i \in Hits(new[t], h)
    OBVIOUS
  <2> DEFINE a == log[t]
             b == more[t]
  <2>1. a \in Seq(Hash) /\ b \in Seq(Hash) /\ new[t] = a \o b
    OBVIOUS
  <2> HIDE DEF a, b
  <2>2. i \in 1..Len(a) /\ a[i] = h
    BY <2>1 DEF Hits, a
  <2>3. i \in 1..(Len(a) + Len(b)) /\ DOMAIN (a \o b) = 1..(Len(a) + Len(b))
    BY <2>1, <2>2, ConcatEntries
  <2>4. (a \o b)[i] = h
    BY <2>1, <2>2, LeftEntry
  <2> QED BY <2>1, <2>3, <2>4 DEF Hits
<1>2. Slots(log, h) \subseteq Slots(new, h)
  BY <1>1 DEF Slots
<1> QED BY <1>2, SlotsFinite, FS_Subset DEF Times

(***************************************************************************)
(* The places in a log, second by second.                                  *)
(***************************************************************************)
LEMMA SlotsBySecond ==
    ASSUME NEW log \in [Time -> Seq(Hash)], NEW h
    PROVE  UNION {{t} \X {i \in DOMAIN log[t] : log[t][i] = h} : t \in Time} = Slots(log, h)
<1> DEFINE U == UNION {{t} \X Hits(log[t], h) : t \in Time}
<1>1. \A t \in Time : \A i \in DOMAIN log[t] : i \in Nat
  OBVIOUS
<1>2. ASSUME NEW p \in U PROVE p \in Slots(log, h)
  <2>1. PICK t \in Time : p \in {t} \X Hits(log[t], h)
    OBVIOUS
  <2>2. p[1] = t /\ p[2] \in Hits(log[t], h) /\ p = <<t, p[2]>>
    BY <2>1
  <2>3. p[2] \in Nat
    BY <1>1, <2>2 DEF Hits
  <2> QED BY <2>2, <2>3 DEF Slots
<1>3. ASSUME NEW p \in Slots(log, h) PROVE p \in U
  <2>1. p[1] \in Time /\ p \in {p[1]} \X Hits(log[p[1]], h)
    BY <1>3 DEF Slots
  <2> QED BY <2>1
<1>4. U = Slots(log, h)
  BY <1>2, <1>3
<1> QED BY <1>4 DEF Hits

(***************************************************************************)
(* In an empty log it stands nowhere.                                      *)
(***************************************************************************)
LEMMA TimesEmpty == \A h : Times(EmptyLog, h) = 0
<1> TAKE h
<1>1. DOMAIN <<>> = {}
  OBVIOUS
<1>2. \A t \in Time : Hits(EmptyLog[t], h) = {}
  BY <1>1 DEF EmptyLog, Hits
<1>3. Slots(EmptyLog, h) = {}
  BY <1>2 DEF Slots
<1> QED BY <1>3, FS_EmptySet DEF Times

-----------------------------------------------------------------------------
Underway(c) == hpc[c] \in {"search", "split", "loadLeaf", "storeLeaf"}

(***************************************************************************)
(* What handlers have put in the log, and are about to, was sent.          *)
(***************************************************************************)
LogCount ==
    \A h \in Hash :
        /\ Times(timestamps, h) <= adds[h]
        /\ \A c \in Handler : Underway(c) => Times(timestamps, h) + Occurrences(req[c], h) <= adds[h]

(***************************************************************************)
(* What the worker took from the log, and has yet to look at, was sent or  *)
(* copied.                                                                 *)
(***************************************************************************)
WorkerCount == \A h \in Hash : Times(seen, h) + Occurrences(batch, h) <= TimesLogged(h)

(***************************************************************************)
(* Those the worker has gone past in its batch are marked.                 *)
(***************************************************************************)
MarkedSoFar == \A j \in 1..marked : batch[j] \in commitFinish

Pushed(h) == wpc \in {"metadata", "postings"} /\ \E j \in DOMAIN batch : batch[j] = h

(***************************************************************************)
(* A commit that no run has finished or is finishing was pushed only by    *)
(* runs that a crash ended.                                                *)
(***************************************************************************)
CopyCount ==
    \A h \in Hash :
        /\ Occurrences(vectors, h) <= TimesLogged(h) * (1 + crashes)
        /\ h \notin commitFinish /\ ~Pushed(h) => Occurrences(vectors, h) <= TimesLogged(h) * crashes

CopyInv == LogCount /\ WorkerCount /\ MarkedSoFar /\ CopyCount

(***************************************************************************)
(* Nothing is sent, logged or pushed at first.                             *)
(***************************************************************************)
LEMMA CopyInit == Init => CopyInv
<1> SUFFICES ASSUME Init PROVE CopyInv
  OBVIOUS
<1>1. \A h \in Hash : /\ adds[h] = 0 /\ Times(timestamps, h) = 0 /\ Times(seen, h) = 0
                      /\ TimesLogged(h) = 0
  <2>1. \A h \in Hash : /\ adds[h] = 0 /\ Times(timestamps, h) = 0 /\ Times(seen, h) = 0
                        /\ Times(copies, h) = 0
    BY TimesEmpty DEF Init, IdleWorker
  <2>2. \A h \in Hash : Cardinality(Copied(h)) = 0
    <3>1. copies \in [Time -> Seq(Hash)]
      BY EmptyLogType DEF Init
    <3>2. \A h \in Hash : Cardinality(Copied(h)) = Times(copies, h)
      BY <3>1, SlotsBySecond DEF Copied, Times
    <3> QED BY <2>1, <3>2
  <2> QED BY <2>1, <2>2 DEF TimesLogged
<1>2. \A h \in Hash : Occurrences(batch, h) = 0 /\ Occurrences(vectors, h) = 0
  BY NoOccurrence DEF Init, IdleWorker
<1>3. /\ \A c \in Handler : ~Underway(c)
      /\ marked = 0 /\ crashes = 0
  BY DEF Init, IdleHandlers, IdleWorker, Underway
<1>4. LogCount
  BY <1>1, <1>3 DEF LogCount
<1>5. WorkerCount
  BY <1>1, <1>2 DEF WorkerCount
<1>6. MarkedSoFar
  BY <1>3 DEF MarkedSoFar
<1>7. CopyCount
  BY <1>1, <1>2, <1>3 DEF CopyCount
<1> QED BY <1>4, <1>5, <1>6, <1>7 DEF CopyInv

AddsGrow == \A h \in Hash : adds[h] \in Nat /\ adds'[h] \in Nat /\ adds[h] <= adds'[h]

(***************************************************************************)
(* A commit is sent before it is logged, and never unsent.                 *)
(***************************************************************************)
LEMMA AddsStep == TypeOK /\ [Next]_vars => AddsGrow
<1> SUFFICES ASSUME TypeOK, [Next]_vars PROVE AddsGrow
  OBVIOUS
<1>0. adds \in [Hash -> Nat]
  BY DEF TypeOK, EnvOK
<1>1. ASSUME NEW c \in Handler, NEW hashes \in Requests, Receive(c, hashes) PROVE AddsGrow
  <2>1. hashes \in Seq(Hash)
    BY WalAssumption
  <2>2. adds' = [h \in Hash |-> adds[h] + Occurrences(hashes, h)]
    BY <1>1 DEF Receive
  <2>3. \A h \in Hash : Occurrences(hashes, h) \in Nat
    BY <2>1, OccurrencesType
  <2> QED BY <1>0, <2>2, <2>3 DEF AddsGrow
<1>2. CASE UNCHANGED adds
  BY <1>0, <1>2 DEF AddsGrow
<1> QED BY <1>1, <1>2
        DEF Next, Log, SearchTimestamp, SplitTimestamps, LoadTimestamps, StoreTimestamps,
            LoadCommitList, StoreCommitList, Work, StartCommit, ReadRange, Collect,
            NothingToCommit, PushVectors, StoreMetadata, StorePostings, MarkFinished,
            Crash, OtherRequest, Tick, vars, envVars

LoggedGrows ==
    \A h \in Hash : /\ TimesLogged(h) \in Nat /\ TimesLogged(h)' \in Nat
                   /\ TimesLogged(h) <= TimesLogged(h)'

(***************************************************************************)
(* A split copies what is logged, and no copy goes away.                   *)
(***************************************************************************)
LEMMA LoggedStep == TypeOK /\ TypeOK' /\ [Next]_vars => LoggedGrows
<1> SUFFICES ASSUME TypeOK, TypeOK', [Next]_vars, NEW h \in Hash
             PROVE  /\ TimesLogged(h) \in Nat /\ TimesLogged(h)' \in Nat
                    /\ TimesLogged(h) <= TimesLogged(h)'
  BY DEF LoggedGrows
<1>0. /\ copies \in [Time -> Seq(Hash)] /\ copies' \in [Time -> Seq(Hash)]
      /\ timestamps \in [Time -> Seq(Hash)]
  BY DEF TypeOK, DiskOK
<1>1. \A t \in Time : copies'[t] \in {copies[t], copies[t] \o timestamps[t]}
  <2>1. ASSUME NEW c \in Handler, SplitTimestamps(c)
        PROVE  \A t \in Time : copies'[t] \in {copies[t], copies[t] \o timestamps[t]}
    BY <2>1 DEF SplitTimestamps
  <2>2. CASE copies' = copies
    BY <2>2
  <2> QED BY <2>1, <2>2
          DEF Next, Receive, Log, SearchTimestamp, LoadTimestamps, StoreTimestamps,
              LoadCommitList, StoreCommitList, Work, StartCommit, ReadRange, Collect,
              NothingToCommit, PushVectors, StoreMetadata, StorePostings, MarkFinished,
              Crash, OtherRequest, Tick, vars, disk
<1>2. Times(copies, h) <= Times(copies', h)
  BY <1>0, <1>1, TimesGrow
<1>3. Times(copies, h) \in Nat /\ Times(copies', h) \in Nat
  BY <1>0, SlotsFinite
<1>4. adds[h] \in Nat /\ adds'[h] \in Nat /\ adds[h] <= adds'[h]
  BY AddsStep DEF AddsGrow
<1>5. /\ TimesLogged(h) = adds[h] + Times(copies, h)
      /\ TimesLogged(h)' = adds'[h] + Times(copies', h)
  <2>1. Cardinality(Copied(h)) = Times(copies, h)
    BY <1>0, SlotsBySecond DEF Copied, Times
  <2>2. Cardinality(Copied(h))' = Times(copies', h)
    BY <1>0, SlotsBySecond DEF Copied, Times
  <2> QED BY <2>1, <2>2 DEF TimesLogged
<1> QED BY <1>2, <1>3, <1>4, <1>5

(***************************************************************************)
(* A step that neither receives nor splits leaves it as it is.             *)
(***************************************************************************)
LEMMA LoggedSame == UNCHANGED <<adds, copies>> => \A h : TimesLogged(h)' = TimesLogged(h)
BY DEF TimesLogged, Copied

(***************************************************************************)
(* With one handler a request adds its commits to the log once.            *)
(***************************************************************************)
LEMMA LogCountStep ==
    ASSUME NEW c0, Handler = {c0}, TypeOK, TypeOK', HandlerView, LogCount, [Next]_vars
    PROVE  LogCount'
<1>0. /\ timestamps \in [Time -> Seq(Hash)] /\ timestamps' \in [Time -> Seq(Hash)]
      /\ hpc \in [Handler -> HandlerStages] /\ req \in [Handler -> Seq(Hash)]
      /\ ts \in [Handler -> Time] /\ vals \in [Handler -> Seq(Hash)]
      /\ leaf \in [Handler -> [Time -> Seq(Hash)]] /\ adds \in [Hash -> Nat]
  BY DEF TypeOK, DiskOK, HandlersOK, EnvOK
<1>a. AddsGrow
  BY AddsStep
<1>n. \A h \in Hash : Times(timestamps, h) \in Nat /\ Occurrences(req[c0], h) \in Nat
  BY <1>0, SlotsFinite, OccurrencesType
<1>t. \A h \in Hash : Times(timestamps, h) <= adds[h]
  BY DEF LogCount
<1>u. \A h \in Hash : Underway(c0) => Times(timestamps, h) + Occurrences(req[c0], h) <= adds[h]
  BY DEF LogCount
<1>1. ASSUME NEW hashes \in Requests, Receive(c0, hashes) PROVE LogCount'
  <2>1. /\ timestamps' = timestamps /\ req'[c0] = hashes /\ hashes \in Seq(Hash)
        /\ adds' = [h \in Hash |-> adds[h] + Occurrences(hashes, h)]
    BY <1>0, <1>1, WalAssumption DEF Receive, disk
  <2>2. \A h \in Hash : Occurrences(hashes, h) \in Nat
    BY <2>1, OccurrencesType
  <2>3. ASSUME NEW h \in Hash
        PROVE  /\ Times(timestamps, h) <= adds'[h]
               /\ Times(timestamps, h) + Occurrences(hashes, h) <= adds'[h]
    BY <1>0, <1>n, <1>t, <2>1, <2>2
  <2> QED BY <2>1, <2>3 DEF LogCount
<1>2. CASE StoreTimestamps(c0)
  <2>1. /\ hpc[c0] = "storeLeaf" /\ hpc'[c0] = "loadList" /\ adds' = adds
        /\ timestamps' = [leaf[c0] EXCEPT ![ts[c0]] = vals[c0]]
    BY <1>0, <1>2 DEF StoreTimestamps, envVars
  <2>2. leaf[c0] = timestamps /\ vals[c0] = timestamps[ts[c0]] \o req[c0]
    BY <2>1 DEF HandlerView, Sees
  <2>3. /\ timestamps'[ts[c0]] = timestamps[ts[c0]] \o req[c0]
        /\ \A t \in Time \ {ts[c0]} : timestamps'[t] = timestamps[t]
        /\ ts[c0] \in Time /\ timestamps[ts[c0]] \in Seq(Hash) /\ req[c0] \in Seq(Hash)
    BY <1>0, <2>1, <2>2
  <2>4. ASSUME NEW h \in Hash PROVE Times(timestamps', h) <= adds[h]
    <3>1. Times(timestamps', h) + Occurrences(timestamps[ts[c0]], h)
             = Times(timestamps, h) + Occurrences(timestamps'[ts[c0]], h)
      <4>1. timestamps \in [Time -> Seq(Hash)] /\ timestamps' \in [Time -> Seq(Hash)]
        BY <1>0
      <4>2. ts[c0] \in Time /\ \A t \in Time \ {ts[c0]} : timestamps'[t] = timestamps[t]
        BY <2>3
      <4> QED BY <4>1, <4>2, TimesUpdated
    <3>2. Occurrences(timestamps[ts[c0]] \o req[c0], h)
             = Occurrences(timestamps[ts[c0]], h) + Occurrences(req[c0], h)
      BY <2>3, ConcatOccurrences
    <3>3. Occurrences(timestamps[ts[c0]], h) \in Nat /\ Times(timestamps', h) \in Nat
      BY <1>0, <2>3, OccurrencesType, SlotsFinite
    <3>4. Times(timestamps', h) = Times(timestamps, h) + Occurrences(req[c0], h)
      <4>1. Occurrences(timestamps'[ts[c0]], h)
               = Occurrences(timestamps[ts[c0]], h) + Occurrences(req[c0], h)
        BY <2>3, <3>2
      <4>2. Times(timestamps, h) \in Nat /\ Occurrences(req[c0], h) \in Nat
        BY <1>n
      <4> QED BY <3>1, <3>3, <4>1, <4>2
    <3> QED BY <1>u, <2>1, <3>4 DEF Underway
  <2>5. ~Underway(c0)'
    BY <2>1 DEF Underway
  <2> QED BY <2>1, <2>4, <2>5 DEF LogCount
<1>3. CASE UNCHANGED <<timestamps, req, adds>> /\ (Underway(c0)' => Underway(c0))
  BY <1>3, <1>t, <1>u DEF LogCount
<1>4. CASE SearchTimestamp(c0) \/ SplitTimestamps(c0) \/ LoadTimestamps(c0)
  BY <1>0, <1>3, <1>4 DEF SearchTimestamp, SplitTimestamps, LoadTimestamps, disk, envVars, Underway
<1>5. CASE LoadCommitList(c0)
  BY <1>0, <1>3, <1>5 DEF LoadCommitList, disk, envVars, Underway
<1>6. CASE StoreCommitList(c0)
  <2>1. timestamps' = timestamps /\ adds' = adds /\ ~Underway(c0)'
    BY <1>0, <1>6 DEF StoreCommitList, Underway
  <2> QED BY <1>t, <2>1 DEF LogCount
<1>7. CASE Work
  BY <1>3, <1>7 DEF Work, StartCommit, ReadRange, Collect, NothingToCommit, PushVectors,
                    StoreMetadata, StorePostings, MarkFinished, disk, handlerVars, envVars, Underway
<1>8. CASE Crash
  <2>1. timestamps' = timestamps /\ adds' = adds /\ ~Underway(c0)'
    BY <1>8 DEF Crash, disk, Underway
  <2> QED BY <1>t, <2>1 DEF LogCount
<1>9. CASE OtherRequest \/ Tick \/ UNCHANGED vars
  BY <1>3, <1>9 DEF OtherRequest, Tick, vars, disk, handlerVars, envVars, Underway
<1> QED BY <1>1, <1>2, <1>4, <1>5, <1>6, <1>7, <1>8, <1>9 DEF Next, Log

(***************************************************************************)
(* The worker looks at each place of what it read once.                    *)
(***************************************************************************)
LEMMA WorkerCountStep ==
    ASSUME TypeOK, TypeOK', WorkerView, LogCount, WorkerCount, [Next]_vars
    PROVE  WorkerCount'
<1>0. /\ timestamps \in [Time -> Seq(Hash)] /\ seen \in [Time -> Seq(Hash)]
      /\ seen' \in [Time -> Seq(Hash)] /\ batch \in Seq(Hash) /\ adds \in [Hash -> Nat]
      /\ copies \in [Time -> Seq(Hash)]
  BY DEF TypeOK, DiskOK, WorkerOK, EnvOK
<1>a. LoggedGrows
  BY LoggedStep
<1>n. \A h \in Hash : Times(seen, h) \in Nat /\ Occurrences(batch, h) \in Nat
  BY <1>0, SlotsFinite, OccurrencesType
<1>s. CASE UNCHANGED <<seen, batch>>
  <2> SUFFICES ASSUME NEW h \in Hash PROVE Times(seen, h) + Occurrences(batch, h) <= TimesLogged(h)'
    BY <1>s DEF WorkerCount
  <2>1. Times(seen, h) + Occurrences(batch, h) <= TimesLogged(h)
    BY DEF WorkerCount
  <2>2. TimesLogged(h) \in Nat /\ TimesLogged(h)' \in Nat /\ TimesLogged(h) <= TimesLogged(h)'
    BY <1>a DEF LoggedGrows
  <2> QED BY <1>n, <2>1, <2>2
<1>r. CASE ResetWorker
  <2> SUFFICES ASSUME NEW h \in Hash PROVE Times(seen', h) + Occurrences(batch', h) <= TimesLogged(h)'
    BY DEF WorkerCount
  <2>1. Times(seen', h) = 0 /\ Occurrences(batch', h) = 0
    BY <1>r, TimesEmpty, NoOccurrence DEF ResetWorker
  <2> QED BY <1>a, <2>1 DEF LoggedGrows
<1>1. CASE ReadRange
  <2>1. batch' = batch /\ batch = <<>> /\ UNCHANGED <<adds, copies>>
    BY <1>1 DEF ReadRange, WorkerView, disk, envVars
  <2>2. PICK old \in SUBSET {t \in Time : copies[t] # <<>>} :
           seen' = [t \in Time |-> IF ~InWindow(t) THEN <<>>
                                   ELSE IF t \in old THEN copies[t] \o timestamps[t]
                                   ELSE timestamps[t]]
    BY <1>1 DEF ReadRange
  <2> DEFINE front == [t \in Time |-> IF InWindow(t) /\ t \in old THEN copies[t] ELSE <<>>]
             back == [t \in Time |-> IF InWindow(t) THEN timestamps[t] ELSE <<>>]
  <2>3. <<>> \in Seq(Hash) /\ <<>> \o <<>> = <<>>
    OBVIOUS
  <2>4. \A s \in Seq(Hash) : <<>> \o s = s
    OBVIOUS
  <2>5. front \in [Time -> Seq(Hash)] /\ back \in [Time -> Seq(Hash)]
    BY <1>0, <2>3
  <2>6. \A t \in Time : seen'[t] = front[t] \o back[t]
    <3> SUFFICES ASSUME NEW t \in Time PROVE seen'[t] = front[t] \o back[t]
      OBVIOUS
    <3>1. timestamps[t] \in Seq(Hash)
      BY <1>0
    <3> QED BY <2>2, <2>3, <2>4, <3>1
  <2>7. \A t \in Time : front[t] \in {copies[t], <<>>} /\ back[t] \in {timestamps[t], <<>>}
    OBVIOUS
  <2> HIDE DEF front, back
  <2> SUFFICES ASSUME NEW h \in Hash PROVE Times(seen', h) + Occurrences(batch', h) <= TimesLogged(h)'
    BY DEF WorkerCount
  <2>8. Times(seen', h) <= Times(front, h) + Times(back, h)
    BY <1>0, <2>5, <2>6, TimesJoined
  <2>9. Times(front, h) <= Times(copies, h) /\ Times(back, h) <= Times(timestamps, h)
    BY <1>0, <2>5, <2>7, TimesWithin
  <2>10. Times(timestamps, h) <= adds[h] /\ Occurrences(batch', h) = 0
    BY <2>1, NoOccurrence DEF LogCount
  <2>11. /\ Times(seen', h) \in Nat /\ Times(timestamps, h) \in Nat /\ adds[h] \in Nat
         /\ Times(copies, h) \in Nat /\ Times(front, h) \in Nat /\ Times(back, h) \in Nat
    BY <1>0, <2>5, SlotsFinite
  <2>12. TimesLogged(h)' = adds[h] + Times(copies, h)
    <3>1. TimesLogged(h)' = TimesLogged(h)
      BY <2>1, LoggedSame
    <3>2. Cardinality(Copied(h)) = Times(copies, h)
      BY <1>0, SlotsBySecond DEF Copied, Times
    <3> QED BY <3>1, <3>2 DEF TimesLogged
  <2> QED BY <2>8, <2>9, <2>10, <2>11, <2>12
<1>2. ASSUME NEW t \in Time, Collect(t) PROVE WorkerCount'
  <2> DEFINE x == Head(seen[t])
  <2>0. \A h : TimesLogged(h)' = TimesLogged(h)
    BY <1>2, LoggedSame DEF Collect, disk, envVars
  <2>1. /\ seen[t] # <<>> /\ seen[t] \in Seq(Hash)
        /\ seen'[t] = Tail(seen[t]) /\ \A u \in Time \ {t} : seen'[u] = seen[u]
        /\ batch' \in {Append(batch, x), batch}
    BY <1>0, <1>2 DEF Collect
  <2>2. x \in Hash /\ seen'[t] \in Seq(Hash)
    BY <2>1, HeadTail
  <2> SUFFICES ASSUME NEW h \in Hash PROVE Times(seen', h) + Occurrences(batch', h) <= TimesLogged(h)'
    BY DEF WorkerCount
  <2>3. Times(seen', h) + Occurrences(seen[t], h) = Times(seen, h) + Occurrences(seen'[t], h)
    <3>1. seen \in [Time -> Seq(Hash)] /\ seen' \in [Time -> Seq(Hash)]
      BY <1>0
    <3>2. \A u \in Time \ {t} : seen'[u] = seen[u]
      BY <2>1
    <3> QED BY <3>1, <3>2, TimesUpdated
  <2>4. Occurrences(seen[t], h) = Occurrences(<<x>>, h) + Occurrences(Tail(seen[t]), h)
    BY <2>1, HeadOccurrences
  <2>5. Occurrences(Append(batch, x), h) = Occurrences(batch, h) + Occurrences(<<x>>, h)
    BY <1>0, <2>2, AppendOccurrences
  <2>6. /\ Times(seen', h) \in Nat /\ Occurrences(Tail(seen[t]), h) \in Nat
        /\ Occurrences(<<x>>, h) \in Nat
    <3>1. Times(seen', h) \in Nat
      BY <1>0, SlotsFinite
    <3>2. Occurrences(Tail(seen[t]), h) \in Nat
      BY <2>1, <2>2, OccurrencesType
    <3>3. Occurrences(<<x>>, h) \in Nat
      BY <2>2, OneOccurrence
    <3> QED BY <3>1, <3>2, <3>3
  <2>7. Times(seen', h) + Occurrences(<<x>>, h) = Times(seen, h)
    <3>1. Occurrences(seen'[t], h) = Occurrences(Tail(seen[t]), h) /\ Times(seen, h) \in Nat
      BY <1>n, <2>1
    <3> HIDE DEF x
    <3> QED BY <2>3, <2>4, <2>6, <3>1
  <2>8. Times(seen, h) + Occurrences(batch, h) <= TimesLogged(h) /\ TimesLogged(h) \in Nat
    BY <1>a DEF WorkerCount, LoggedGrows
  <2>9. \/ Occurrences(batch', h) = Occurrences(batch, h) + Occurrences(<<x>>, h)
        \/ Occurrences(batch', h) = Occurrences(batch, h)
    BY <2>1, <2>5
  <2> HIDE DEF x
  <2> QED BY <1>n, <2>0, <2>6, <2>7, <2>8, <2>9
<1>3. CASE Crash
  BY <1>r, <1>3 DEF Crash
<1>4. CASE NothingToCommit
  BY <1>r, <1>4 DEF NothingToCommit
<1>5. CASE MarkFinished
  BY <1>r, <1>s, <1>5 DEF MarkFinished
<1> QED BY <1>s, <1>1, <1>2, <1>3, <1>4, <1>5
        DEF Next, Receive, Log, SearchTimestamp, SplitTimestamps, LoadTimestamps, StoreTimestamps,
            LoadCommitList, StoreCommitList, Work, StartCommit, PushVectors,
            StoreMetadata, StorePostings, OtherRequest, Tick, vars, workerVars

(***************************************************************************)
(* MarkFinished goes through the batch in order.                           *)
(***************************************************************************)
LEMMA MarkedStep ==
    ASSUME TypeOK, MarkedSoFar, [Next]_vars
    PROVE  MarkedSoFar'
<1>0. marked \in Nat /\ (wpc \notin {"metadata", "postings"} => marked = 0)
  BY DEF TypeOK, WorkerOK
<1>1. CASE MarkFinished
  <2>1. commitFinish' = commitFinish \cup {batch[marked + 1]}
    BY <1>1 DEF MarkFinished
  <2>2. CASE marked' = marked + 1 /\ batch' = batch
    <3>1. \A j \in 1..(marked + 1) : j \in 1..marked \/ j = marked + 1
      BY <1>0
    <3> QED BY <2>1, <2>2, <3>1 DEF MarkedSoFar
  <2>3. CASE ResetWorker
    BY <2>3 DEF ResetWorker, MarkedSoFar
  <2> QED BY <1>1, <2>2, <2>3 DEF MarkFinished
<1>2. CASE UNCHANGED <<marked, batch, commitFinish>>
  BY <1>2 DEF MarkedSoFar
<1>3. CASE marked' = 0
  BY <1>3 DEF MarkedSoFar
<1>4. ASSUME NEW t \in Time, Collect(t) PROVE MarkedSoFar'
  BY <1>0, <1>3, <1>4 DEF Collect
<1> QED BY <1>1, <1>2, <1>3, <1>4
        DEF Next, Receive, Log, SearchTimestamp, SplitTimestamps, LoadTimestamps, StoreTimestamps,
            LoadCommitList, StoreCommitList, Work, StartCommit, ReadRange, NothingToCommit,
            PushVectors, StoreMetadata, StorePostings, Crash, OtherRequest, Tick,
            ResetWorker, vars, disk, workerVars

(***************************************************************************)
(* PushVectors adds the batch to the vectors, and a step that ends a run   *)
(* without a crash has marked all of it.                                   *)
(***************************************************************************)
LEMMA CopyStep ==
    ASSUME TypeOK, TypeOK', WorkerView, WorkerCount, MarkedSoFar, CopyCount, [Next]_vars
    PROVE  CopyCount'
<1>0. /\ vectors \in Seq(Hash) /\ batch \in Seq(Hash) /\ adds \in [Hash -> Nat]
      /\ crashes \in Nat /\ marked \in Nat /\ crashes' \in Nat
  BY DEF TypeOK, DiskOK, WorkerOK, EnvOK
<1>a. LoggedGrows
  BY LoggedStep
<1> SUFFICES ASSUME NEW h \in Hash
             PROVE  /\ Occurrences(vectors', h) <= TimesLogged(h)' * (1 + crashes')
                    /\ h \notin commitFinish' /\ ~Pushed(h)' => Occurrences(vectors', h) <= TimesLogged(h)' * crashes'
  BY DEF CopyCount
<1> DEFINE v == Occurrences(vectors, h)
           a == TimesLogged(h)
           b == TimesLogged(h)'
<1>n. v \in Nat /\ a \in Nat /\ b \in Nat /\ a <= b
  BY <1>0, <1>a, OccurrencesType DEF LoggedGrows
<1>c. /\ v <= a * (1 + crashes)
      /\ h \notin commitFinish /\ ~Pushed(h) => v <= a * crashes
  BY DEF CopyCount
<1>m. a * crashes <= b * crashes /\ a * (1 + crashes) <= b * (1 + crashes)
  <2> HIDE DEF a, b
  <2>1. \A n \in Nat : a * n <= b * n
    BY <1>n
  <2> QED BY <1>0, <2>1
<1>k. /\ a * crashes \in Nat /\ a * (1 + crashes) \in Nat /\ a * (1 + crashes) = a * crashes + a
      /\ b * crashes \in Nat /\ b * (1 + crashes) \in Nat
  <2> HIDE DEF a, b
  <2> QED BY <1>0, <1>n
<1>1. CASE PushVectors
  <2>1. /\ vectors' = vectors \o batch /\ wpc = "collect" /\ wpc' = "metadata" /\ batch' = batch
        /\ crashes' = crashes /\ a = b
    BY <1>1, PushAppends, LoggedSame DEF PushVectors, Examined, envVars
  <2>2. Occurrences(vectors', h) = v + Occurrences(batch, h)
    BY <1>0, <2>1, ConcatOccurrences
  <2>3. Occurrences(batch, h) \in Nat /\ Occurrences(batch, h) <= a
    <3>1. /\ Times(seen, h) + Occurrences(batch, h) <= a /\ Occurrences(batch, h) \in Nat
          /\ Times(seen, h) \in Nat
      BY <1>0, SlotsFinite, OccurrencesType DEF WorkerCount, TypeOK, WorkerOK
    <3> HIDE DEF a
    <3> QED BY <1>n, <3>1
  <2>4. CASE \E j \in DOMAIN batch : batch[j] = h
    <3>1. h \notin commitFinish /\ ~Pushed(h) /\ Pushed(h)'
      BY <2>1, <2>4 DEF WorkerView, Pushed
    <3>2. v <= a * crashes
      BY <1>c, <3>1
    <3> HIDE DEF v, a, b
    <3>3. v + Occurrences(batch, h) <= a * (1 + crashes)
      BY <1>n, <1>k, <2>3, <3>2
    <3> QED BY <2>1, <2>2, <3>1, <3>3 DEF a, b
  <2>5. CASE \A j \in DOMAIN batch : batch[j] # h
    <3>1. {j \in DOMAIN batch : batch[j] = h} = {}
      BY <2>5
    <3>2. Occurrences(batch, h) = 0
      BY <3>1, FS_EmptySet DEF Occurrences
    <3>3. Occurrences(vectors', h) = v
      BY <1>n, <2>2, <3>2
    <3>4. ~Pushed(h) /\ commitFinish' = commitFinish
      BY <1>1, <2>1 DEF Pushed, PushVectors
    <3> QED BY <1>c, <2>1, <3>3, <3>4
  <2> QED BY <2>4, <2>5
<1>2. CASE Crash
  <2>1. /\ vectors' = vectors /\ a = b /\ crashes' = crashes + 1
    BY <1>2, LoggedSame DEF Crash, disk
  <2>2. b * crashes' = a * (1 + crashes) /\ b * (1 + crashes') = a * (1 + crashes) + a
    <3>1. a = b /\ crashes' = crashes + 1
      BY <2>1
    <3> HIDE DEF a, b
    <3> QED BY <1>0, <1>n, <3>1
  <2>3. v <= b * (1 + crashes') /\ v <= b * crashes'
    <3> HIDE DEF v, a, b
    <3> QED BY <1>n, <1>k, <1>c, <2>2
  <2> QED BY <2>1, <2>3
<1>3. CASE /\ UNCHANGED <<vectors, crashes>>
           /\ h \notin commitFinish' /\ ~Pushed(h)' => h \notin commitFinish /\ ~Pushed(h)
  <2>1. v <= b * (1 + crashes) /\ (h \notin commitFinish /\ ~Pushed(h) => v <= b * crashes)
    <3> HIDE DEF v, a, b
    <3> QED BY <1>n, <1>k, <1>c, <1>m
  <2> QED BY <1>3, <2>1
<1>4. CASE MarkFinished
  <2>1. /\ UNCHANGED <<vectors, crashes>> /\ wpc = "postings"
        /\ commitFinish' = commitFinish \cup {batch[marked + 1]}
    BY <1>4 DEF MarkFinished, envVars
  <2>2. CASE UNCHANGED <<wpc, batch>>
    BY <1>3, <2>1, <2>2 DEF Pushed
  <2>3. CASE marked + 1 = Len(batch)
    <3>1. DOMAIN batch = 1..(marked + 1)
      BY <1>0, <2>3
    <3>2. \A j \in DOMAIN batch : batch[j] \in commitFinish'
      BY <1>0, <2>1, <3>1 DEF MarkedSoFar
    <3>3. h \notin commitFinish' => ~Pushed(h)
      BY <3>2 DEF Pushed
    <3> QED BY <1>3, <2>1, <3>3
  <2> QED BY <1>4, <2>2, <2>3 DEF MarkFinished
<1>5. ASSUME NEW t \in Time, Collect(t) PROVE UNCHANGED <<vectors, crashes, commitFinish>> /\ ~Pushed(h)
  BY <1>5 DEF Collect, Pushed, disk, envVars
<1>6. CASE StartCommit \/ ReadRange \/ NothingToCommit
  BY <1>3, <1>6 DEF StartCommit, ReadRange, NothingToCommit, Examined, Pushed, disk, envVars
<1>7. ASSUME NEW j \in metaLeft, StoreMetadata(j)
      PROVE  UNCHANGED <<vectors, crashes, commitFinish>> /\ (Pushed(h) => Pushed(h)')
  BY <1>7 DEF StoreMetadata, Pushed, envVars
<1>8. ASSUME NEW kv \in kvLeft, StorePostings(kv)
      PROVE  UNCHANGED <<vectors, crashes, commitFinish>> /\ (Pushed(h) => Pushed(h)')
  BY <1>8 DEF StorePostings, Pushed, envVars
<1>9. CASE UNCHANGED <<vectors, crashes, commitFinish, wpc, batch>>
  BY <1>3, <1>9 DEF Pushed
<1>10. CASE Work
  BY <1>1, <1>3, <1>4, <1>5, <1>6, <1>7, <1>8, <1>10 DEF Work
<1> QED BY <1>2, <1>9, <1>10
        DEF Next, Receive, Log, SearchTimestamp, SplitTimestamps, LoadTimestamps, StoreTimestamps,
            LoadCommitList, StoreCommitList, OtherRequest, Tick, vars, disk, workerVars, envVars

(***************************************************************************)
(* With one handler at a time, a commit is not indexed more often than it  *)
(* was sent and its entries copied by splits, but for a repeat per crash.  *)
(***************************************************************************)
THEOREM OneHandlerCopies ==
    ASSUME NEW c0, Handler = {c0}
    PROVE  Spec => []CopiesBounded
<1>1. /\ TypeOK /\ TypeOK' /\ WorkerView /\ HandlerView /\ CopyInv /\ [Next]_vars => CopyInv'
  <2> SUFFICES ASSUME TypeOK, TypeOK', WorkerView, HandlerView, CopyInv, [Next]_vars PROVE CopyInv'
    OBVIOUS
  <2>1. LogCount /\ WorkerCount /\ MarkedSoFar /\ CopyCount
    BY DEF CopyInv
  <2>2. LogCount'
    BY <2>1, LogCountStep
  <2>3. WorkerCount'
    BY <2>1, WorkerCountStep
  <2>4. MarkedSoFar'
    BY <2>1, MarkedStep
  <2>5. CopyCount'
    BY <2>1, CopyStep
  <2> QED BY <2>2, <2>3, <2>4, <2>5 DEF CopyInv
<1>2. CopyInv => CopiesBounded
  BY DEF CopyInv, CopyCount, CopiesBounded
<1>3. Spec => []HandlerView
  BY OneHandlerSees
<1> QED BY TypeCorrect, WorkerViewHolds, CopyInit, <1>1, <1>2, <1>3, PTL DEF Spec
=============================================================================
