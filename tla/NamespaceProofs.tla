--------------------------- MODULE NamespaceProofs ---------------------------
(***************************************************************************)
(* Theorems about Namespace, for any clients, commits and bounds, with     *)
(* recoveries served alone (AloneSpec).                                    *)
(***************************************************************************)
EXTENDS Namespace, TLAPS

Early == Opening \cup {"pitrList"}
Filling == {"pitrCollect", "pitrReplay", "pitrRemove", "pitrLink"}
PitrStages == {"pitrList", "pitrCreate", "pitrDone"} \cup Filling

(***************************************************************************)
(* A recovery has the server to itself.                                    *)
(***************************************************************************)
OneRecovery ==
    /\ arg \in [Process -> Hash \cup Time]
    /\ task[Worker] = "commit"
    /\ \A p \in Process : pc[p] \in PitrStages => task[p] = "pitrList"
    /\ \A p \in Process : pc[p] = "log" => task[p] = "log"
    /\ \A c \in Client : ~Idle(c) /\ task[c] = "log" => arg[c] \in Hash
    /\ \A c, d \in Client : Recovering(c) /\ c # d => Idle(d)

(***************************************************************************)
(* A recovery makes at most one version, greater than those before it.     *)
(***************************************************************************)
VersionsMade ==
    /\ recoveries \in Nat
    /\ recoveries <= MaxRecoveries
    /\ versions \subseteq 0..recoveries
    /\ versions # {} => 0 \in versions /\ \E v \in versions : \A u \in versions : u <= v
    /\ current \in Version => current \in versions
    /\ \A p \in Process : place[p] = Dir \/ place[p] \in versions
    /\ \A p \in Process : pc[p] \notin {"idle", "list", "makeFirst"} => 0 \in versions

RecoverySteps ==
    \A c \in Client : Recovering(c) =>
        /\ recoveries > 0
        /\ pc[c] \in Early => versions \subseteq 0..(recoveries - 1)
        /\ pc[c] = "pitrCreate" => target[c] \in 1..recoveries /\ \A v \in versions : v < target[c]
        /\ pc[c] \in Filling => target[c] \in versions \ {0}

VersionInv == TypeOK /\ OneRecovery /\ VersionsMade /\ RecoverySteps /\ NeverPartlyRecovered

(***************************************************************************)
(* The constants, and what Version and Process are.                        *)
(***************************************************************************)
LEMMA Constants ==
    /\ MaxTime \in Nat /\ MaxRecoveries \in Nat
    /\ Absent \notin Nat /\ Dir \notin Nat /\ Absent # Dir /\ Worker \notin Client
    /\ Version = 0..MaxRecoveries /\ 0 \in Version
    /\ Process = Client \cup {Worker} /\ Place = Version \cup {Dir}
  BY NamespaceAssumption DEF Version, Process, Place

LEMMA VersionInit == Init => VersionInv
<1> SUFFICES ASSUME Init PROVE VersionInv OBVIOUS
<1> USE Constants DEF Init, IdleProcesses
<1>1. TypeOK
  <2>1. logged \in [Place -> SUBSET Entry] /\ indexed \in [Place -> SUBSET Hash]
    OBVIOUS
  <2>2. pc \in [Process -> Stages] /\ task \in [Process -> Tasks]
    BY DEF Stages, Tasks
  <2>3. place \in [Process -> Place] /\ target \in [Process -> Version]
    OBVIOUS
  <2>4. replay \in [Process -> SUBSET Hash]
    OBVIOUS
  <2>5. spawned \in BOOLEAN /\ dead \in BOOLEAN
    OBVIOUS
  <2>6. versions \subseteq Version /\ current \in Place \cup {Absent} /\ now \in Time
    BY DEF Time
  <2>7. history \subseteq Entry /\ owed \subseteq Hash
    OBVIOUS
  <2> HIDE DEF Init, IdleProcesses
  <2> QED BY <2>1, <2>2, <2>3, <2>4, <2>5, <2>6, <2>7 DEF TypeOK
<1>2. OneRecovery
  BY DEF OneRecovery, PitrStages, Filling, Idle, Time, NoCommit
<1>3. VersionsMade
  BY DEF VersionsMade
<1>4. RecoverySteps /\ NeverPartlyRecovered
  BY DEF RecoverySteps, NeverPartlyRecovered, Recovering
<1> QED BY <1>1, <1>2, <1>3, <1>4 DEF VersionInv

LEMMA VersionStep == VersionInv /\ [AloneNext]_vars => VersionInv'
<1> SUFFICES ASSUME VersionInv, [AloneNext]_vars PROVE VersionInv' OBVIOUS
<1> USE Constants
<1>0. /\ pc \in [Process -> Stages] /\ task \in [Process -> Tasks]
      /\ place \in [Process -> Place] /\ target \in [Process -> Version]
      /\ replay \in [Process -> SUBSET Hash]
      /\ logged \in [Place -> SUBSET Entry] /\ indexed \in [Place -> SUBSET Hash]
  BY DEF VersionInv, TypeOK
<1>a. \A d \in Place : {e.hash : e \in logged[d]} \subseteq Hash
  BY <1>0 DEF Entry
<1>b. ASSUME NEW c \in Client, pc[c] \in PitrStages
      PROVE  Recovering(c) /\ 0 \in versions
  BY <1>b
  DEF VersionInv, OneRecovery, VersionsMade, Recovering, Idle, PitrStages, Filling
<1>1. ASSUME AddApart PROVE VersionInv'
  <2>1. TypeOK'
    BY <1>0, <1>1
    DEF AddApart, AddVector, Request, Goto, files, VersionInv, TypeOK, Stages, Tasks,
        Opening
  <2>2. OneRecovery'
    BY <1>0, <1>1
    DEF AddApart, AddVector, Request, Goto, VersionInv, OneRecovery, PitrStages,
        Filling, Idle, Recovering
  <2>3. VersionsMade'
    BY <1>0, <1>1
    DEF AddApart, AddVector, Request, Goto, files, VersionInv, VersionsMade
  <2>4. RecoverySteps'
    BY <1>0, <1>1
    DEF AddApart, AddVector, Request, Goto, RecoverySteps, Recovering, Idle
  <2>5. NeverPartlyRecovered'
    BY <1>0, <1>1
    DEF AddApart, AddVector, Request, Goto, files, VersionInv, NeverPartlyRecovered
  <2> QED BY <2>1, <2>2, <2>3, <2>4, <2>5 DEF VersionInv
<1>2. ASSUME RecoverAlone PROVE VersionInv'
  <2>1. TypeOK'
    BY <1>0, <1>2
    DEF RecoverAlone, Recover, Request, Goto, files, VersionInv, TypeOK, Stages, Tasks,
        Opening
  <2>2. OneRecovery'
    BY <1>0, <1>2
    DEF RecoverAlone, Recover, Request, Goto, VersionInv, OneRecovery, Idle, Recovering
  <2>3. VersionsMade'
    BY <1>0, <1>2
    DEF RecoverAlone, Recover, Request, Goto, files, VersionInv, VersionsMade
  <2>4. RecoverySteps'
    BY <1>0, <1>2
    DEF RecoverAlone, Recover, Request, Goto, files, VersionInv, RecoverySteps, Idle,
        Filling, VersionsMade
  <2>5. NeverPartlyRecovered'
    BY <1>0, <1>2
    DEF RecoverAlone, Recover, Request, Goto, files, VersionInv, NeverPartlyRecovered
  <2> QED BY <2>1, <2>2, <2>3, <2>4, <2>5 DEF VersionInv
<1>3. ASSUME NEW p \in Process, ListVersions(p) PROVE VersionInv'
  <2>1. TypeOK'
    BY <1>0, <1>3
    DEF ListVersions, Goto, files, locals, worker, env, VersionInv, TypeOK, Stages,
        Opening
  <2>2. OneRecovery'
    BY <1>0, <1>3
    DEF ListVersions, Goto, locals, VersionInv, OneRecovery, PitrStages, Filling, Idle,
        Recovering
  <2>3. VersionsMade'
    BY <1>0, <1>3 DEF ListVersions, Goto, files, locals, env, VersionInv, VersionsMade
  <2>4. RecoverySteps'
    BY <1>0, <1>3
    DEF ListVersions, Goto, files, locals, env, VersionInv, RecoverySteps, Recovering,
        Idle, Early, Opening, Filling
  <2>5. NeverPartlyRecovered'
    BY <1>0, <1>3
    DEF ListVersions, Goto, files, locals, VersionInv, NeverPartlyRecovered
  <2> QED BY <2>1, <2>2, <2>3, <2>4, <2>5 DEF VersionInv
<1>4. ASSUME NEW p \in Process, MakeFirst(p) PROVE VersionInv'
  <2>1. TypeOK'
    BY <1>0, <1>4
    DEF MakeFirst, Goto, locals, worker, env, VersionInv, TypeOK, Stages, Opening
  <2>2. OneRecovery'
    BY <1>0, <1>4
    DEF MakeFirst, Goto, locals, VersionInv, OneRecovery, PitrStages, Filling, Idle,
        Recovering
  <2>3. VersionsMade'
    BY <1>0, <1>4 DEF MakeFirst, locals, env, VersionInv, VersionsMade
  <2>4. RecoverySteps'
    BY <1>0, <1>4
    DEF MakeFirst, Goto, locals, env, VersionInv, RecoverySteps, Recovering, Idle,
        Early, Opening, Filling, VersionsMade
  <2>5. NeverPartlyRecovered'
    BY <1>0, <1>4 DEF MakeFirst, Goto, locals, VersionInv, NeverPartlyRecovered
  <2> QED BY <2>1, <2>2, <2>3, <2>4, <2>5 DEF VersionInv
<1>5. ASSUME NEW p \in Process, LinkFirst(p) PROVE VersionInv'
  <2>1. TypeOK'
    BY <1>0, <1>5
    DEF LinkFirst, Goto, Panic, locals, worker, env, VersionInv, TypeOK, Stages, Opening
  <2>2. OneRecovery'
    <3>1. /\ pc' \in {[pc EXCEPT ![p] = "enter"], [pc EXCEPT ![p] = "idle"]}
          /\ pc[p] = "linkFirst" /\ UNCHANGED <<task, arg>>
      BY <1>5 DEF LinkFirst, Goto, Panic, locals
    <3> QED BY <1>0, <3>1
            DEF VersionInv, OneRecovery, PitrStages, Filling, Idle, Recovering
  <2>3. VersionsMade'
    BY <1>0, <1>5 DEF LinkFirst, locals, env, VersionInv, VersionsMade
  <2>4. RecoverySteps'
    BY <1>0, <1>5
    DEF LinkFirst, Goto, Panic, locals, env, VersionInv, RecoverySteps, Recovering,
        Idle, Early, Opening, Filling
  <2>5. NeverPartlyRecovered'
    BY <1>0, <1>5
    DEF LinkFirst, Goto, Panic, locals, VersionInv, NeverPartlyRecovered, RecoverySteps,
        OneRecovery, Recovering, Idle, Filling, PitrStages
  <2> QED BY <2>1, <2>2, <2>3, <2>4, <2>5 DEF VersionInv
<1>6. ASSUME NEW p \in Process, Enter(p) PROVE VersionInv'
  <2>0. /\ current' = Made /\ place' = [place EXCEPT ![p] = current']
        /\ pc' = [pc EXCEPT ![p] = task[p]] /\ pc[p] = "enter"
        /\ UNCHANGED <<versions, recoveries, task, target>>
    BY <1>6 DEF Enter, Goto, env
  <2>1. TypeOK'
    BY <1>0, <1>6 DEF Enter, Goto, Made, worker, env, VersionInv, TypeOK, Stages, Tasks
  <2>2. OneRecovery'
    BY <1>0, <1>6
    DEF Enter, Goto, VersionInv, OneRecovery, PitrStages, Filling, Idle, Recovering,
        Tasks
  <2>3. VersionsMade'
    <3>1. current' = Dir \/ current' \in versions
      BY <2>0 DEF Made, VersionInv, VersionsMade, TypeOK
    <3>2. \A q \in Process : place'[q] = Dir \/ place'[q] \in versions
      BY <1>0, <2>0, <3>1 DEF VersionInv, VersionsMade
    <3> QED BY <1>0, <2>0, <3>1, <3>2 DEF VersionInv, VersionsMade
  <2>4. RecoverySteps'
    BY <1>0, <1>6
    DEF Enter, Goto, env, VersionInv, RecoverySteps, Recovering, Idle, Early, Opening,
        Filling
  <2>5. NeverPartlyRecovered'
    <3>1. \A c \in Client : pc'[c] \in {"pitrCollect", "pitrReplay", "pitrRemove"} => pc'[c] = pc[c]
      BY <1>0, <2>0 DEF Tasks
    <3>2. current' = current \/ current' = Dir
      BY <2>0 DEF Made
    <3>3. \A c \in Client : target[c] \in Nat
      BY <1>0
    <3> QED BY <2>0, <3>1, <3>2, <3>3 DEF VersionInv, NeverPartlyRecovered
  <2> QED BY <2>1, <2>2, <2>3, <2>4, <2>5 DEF VersionInv
<1>7. ASSUME NEW c \in Client, LogCommit(c) PROVE VersionInv'
  <2>1. TypeOK'
    <3>1. arg[c] \in Hash
      BY <1>7 DEF LogCommit, VersionInv, OneRecovery, Idle
    <3> DEFINE e == [time |-> now, hash |-> arg[c]]
    <3>2. e \in Entry /\ place[c] \in Place
      BY <1>0, <3>1 DEF Entry, VersionInv, TypeOK
    <3>3. logged' = [logged EXCEPT ![place[c]] = @ \cup {e}] /\ history' = history \cup {e}
      BY <1>7 DEF LogCommit
    <3> HIDE DEF e
    <3>4. logged' \in [Place -> SUBSET Entry] /\ history' \subseteq Entry
      BY <1>0, <3>2, <3>3 DEF VersionInv, TypeOK
    <3>5. pc' \in [Process -> Stages] /\ owed' \subseteq Hash
      BY <1>0, <1>7, <3>1 DEF LogCommit, Goto, Stages, VersionInv, TypeOK
    <3> QED BY <1>7, <3>4, <3>5 DEF LogCommit, locals, worker, VersionInv, TypeOK
  <2>2. OneRecovery'
    BY <1>0, <1>7
    DEF LogCommit, Goto, locals, VersionInv, OneRecovery, PitrStages, Filling, Idle,
        Recovering
  <2>3. VersionsMade'
    BY <1>0, <1>7 DEF LogCommit, locals, VersionInv, VersionsMade
  <2>4. RecoverySteps'
    BY <1>0, <1>7
    DEF LogCommit, Goto, locals, VersionInv, RecoverySteps, Recovering, Idle
  <2>5. NeverPartlyRecovered'
    BY <1>0, <1>7 DEF LogCommit, Goto, locals, VersionInv, NeverPartlyRecovered
  <2> QED BY <2>1, <2>2, <2>3, <2>4, <2>5 DEF VersionInv
<1>8. ASSUME NEW c \in Client, PitrList(c) PROVE VersionInv'
  <2>0. /\ Greatest(versions) \in versions /\ \A v \in versions : v <= Greatest(versions)
        /\ target'[c] = Greatest(versions) + 1
        /\ recoveries > 0 /\ versions \subseteq 0..(recoveries - 1) /\ recoveries <= MaxRecoveries
    <3>1. Recovering(c) /\ versions # {}
      BY <1>8, <1>b DEF PitrList, PitrStages
    <3>2. \E v \in versions : \A u \in versions : u <= v
      BY <3>1 DEF VersionInv, VersionsMade
    <3> QED BY <1>0, <1>8, <3>1, <3>2
            DEF PitrList, Greatest, VersionInv, RecoverySteps, Early, VersionsMade
  <2>1. TypeOK'
    <3>1. target' \in [Process -> Version]
      <4>1. Greatest(versions) + 1 \in Version
        <5> DEFINE g == Greatest(versions)
        <5>1. g \in 0..(recoveries - 1) /\ recoveries \in Nat /\ recoveries <= MaxRecoveries
          BY <2>0 DEF VersionInv, VersionsMade
        <5> HIDE DEF g
        <5>2. g + 1 \in 0..MaxRecoveries
          BY <5>1
        <5> QED BY <5>2 DEF g
      <4>2. target' = [target EXCEPT ![c] = Greatest(versions) + 1]
        BY <1>8 DEF PitrList
      <4> QED BY <1>0, <4>1, <4>2
    <3>2. pc' \in [Process -> Stages]
      BY <1>0, <1>8 DEF PitrList, Goto, Stages
    <3> QED BY <1>8, <3>1, <3>2 DEF PitrList, files, worker, env, VersionInv, TypeOK
  <2>2. OneRecovery'
    BY <1>0, <1>8
    DEF PitrList, Goto, VersionInv, OneRecovery, PitrStages, Idle, Recovering
  <2>3. VersionsMade'
    BY <1>0, <1>8 DEF PitrList, files, env, VersionInv, VersionsMade
  <2>4. RecoverySteps'
    <3>1. target'[c] \in 1..recoveries /\ \A v \in versions : v < target'[c]
      BY <2>0 DEF VersionInv, VersionsMade
    <3>2. \A d \in Client : Recovering(d)' => d = c
      BY <1>0, <1>8, <1>b DEF PitrList, Goto, Recovering, Idle, VersionInv, OneRecovery
    <3> QED BY <1>0, <1>8, <2>0, <3>1, <3>2
            DEF PitrList, Goto, RecoverySteps, Filling, env, files
  <2>5. NeverPartlyRecovered'
    BY <1>0, <1>8 DEF PitrList, Goto, files, VersionInv, NeverPartlyRecovered
  <2> QED BY <2>1, <2>2, <2>3, <2>4, <2>5 DEF VersionInv
<1>9. ASSUME NEW c \in Client, PitrCreate(c) PROVE VersionInv'
  <2>1. TypeOK'
    BY <1>0, <1>9 DEF PitrCreate, Goto, locals, worker, env, VersionInv, TypeOK, Stages
  <2>2. OneRecovery'
    BY <1>0, <1>9
    DEF PitrCreate, Goto, locals, VersionInv, OneRecovery, PitrStages, Idle, Recovering
  <2>3. VersionsMade'
    <3> DEFINE t == target[c]
    <3>1. t \in 1..recoveries /\ \A v \in versions : v < t
      BY <1>9, <1>b DEF PitrCreate, PitrStages, VersionInv, RecoverySteps
    <3>2. 0 \in versions /\ versions' = versions \cup {t}
      BY <1>9, <1>b DEF PitrCreate, PitrStages
    <3>3. UNCHANGED <<current, recoveries, place>>
      BY <1>9 DEF PitrCreate, locals, env
    <3> HIDE DEF t
    <3>0. recoveries \in Nat /\ versions \subseteq 0..recoveries
      BY DEF VersionInv, VersionsMade
    <3>4. t \in versions' /\ \A u \in versions' : u <= t
      <4>1. \A u \in versions : u <= t
        BY <3>0, <3>1
      <4> QED BY <3>0, <3>1, <3>2, <4>1
    <3>5. versions' \subseteq 0..recoveries
      BY <3>0, <3>1, <3>2
    <3> QED BY <3>2, <3>3, <3>4, <3>5 DEF VersionInv, VersionsMade
  <2>4. RecoverySteps'
    BY <1>0, <1>9
    DEF PitrCreate, Goto, locals, env, VersionInv, RecoverySteps, Recovering, Idle,
        Early, Opening, OneRecovery
  <2>5. NeverPartlyRecovered'
    BY <1>0, <1>9
    DEF PitrCreate, Goto, locals, VersionInv, NeverPartlyRecovered, RecoverySteps,
        VersionsMade, OneRecovery, Recovering, Idle, PitrStages
  <2> QED BY <2>1, <2>2, <2>3, <2>4, <2>5 DEF VersionInv
<1>10. ASSUME NEW c \in Client, PitrCollect(c) PROVE VersionInv'
  <2>1. TypeOK'
    <3>1. Before(logged[place[c]], arg[c]) \subseteq Hash
      BY <1>0, <1>a DEF Before, Entry
    <3>2. replay' \in [Process -> SUBSET Hash]
      BY <1>0, <1>10, <3>1 DEF PitrCollect
    <3>3. pc' \in [Process -> Stages]
      BY <1>0, <1>10 DEF PitrCollect, Goto, Stages
    <3> QED BY <1>10, <3>2, <3>3 DEF PitrCollect, files, worker, env, VersionInv, TypeOK
  <2>2. OneRecovery'
    BY <1>0, <1>10
    DEF PitrCollect, Goto, VersionInv, OneRecovery, PitrStages, Filling, Idle,
        Recovering
  <2>3. VersionsMade'
    BY <1>0, <1>10 DEF PitrCollect, files, env, VersionInv, VersionsMade
  <2>4. RecoverySteps'
    BY <1>0, <1>10
    DEF PitrCollect, Goto, files, env, VersionInv, RecoverySteps, Recovering, Idle,
        Early, Opening, Filling
  <2>5. NeverPartlyRecovered'
    BY <1>0, <1>10 DEF PitrCollect, Goto, files, VersionInv, NeverPartlyRecovered
  <2> QED BY <2>1, <2>2, <2>3, <2>4, <2>5 DEF VersionInv
<1>11. ASSUME NEW c \in Client, NEW x \in replay[c], PitrReplay(c, x) PROVE VersionInv'
  <2>1. TypeOK'
    BY <1>0, <1>11 DEF PitrReplay, Goto, worker, env, VersionInv, TypeOK, Stages
  <2>2. OneRecovery'
    BY <1>0, <1>11
    DEF PitrReplay, Goto, VersionInv, OneRecovery, PitrStages, Filling, Idle, Recovering
  <2>3. VersionsMade'
    BY <1>0, <1>11 DEF PitrReplay, env, VersionInv, VersionsMade
  <2>4. RecoverySteps'
    BY <1>0, <1>11
    DEF PitrReplay, Goto, env, VersionInv, RecoverySteps, Recovering, Idle, Early,
        Opening, Filling
  <2>5. NeverPartlyRecovered'
    BY <1>0, <1>11 DEF PitrReplay, Goto, VersionInv, NeverPartlyRecovered
  <2> QED BY <2>1, <2>2, <2>3, <2>4, <2>5 DEF VersionInv
<1>12. ASSUME NEW c \in Client, PitrRemove(c) PROVE VersionInv'
  <2>1. TypeOK'
    BY <1>0, <1>12
    DEF PitrRemove, Goto, Panic, locals, worker, env, VersionInv, TypeOK, Stages
  <2>2. OneRecovery'
    <3>1. PICK x \in {"idle", "pitrLink"} : pc' = [pc EXCEPT ![c] = x]
      BY <1>12 DEF PitrRemove, Goto, Panic
    <3>2. /\ UNCHANGED <<task, arg>> /\ task[c] = "pitrList"
          /\ \A d \in Client : d # c => pc[d] = "idle"
      BY <1>12, <1>b
      DEF PitrRemove, locals, PitrStages, Filling, Idle, VersionInv, OneRecovery
    <3>3. \A p \in Process : pc'[p] = IF p = c THEN x ELSE pc[p]
      BY <1>0, <3>1
    <3> QED BY <3>2, <3>3 DEF VersionInv, OneRecovery, Recovering, Idle
  <2>3. VersionsMade'
    BY <1>0, <1>12 DEF PitrRemove, locals, env, VersionInv, VersionsMade
  <2>4. RecoverySteps'
    BY <1>0, <1>12
    DEF PitrRemove, Goto, Panic, locals, env, VersionInv, RecoverySteps, Recovering,
        Idle, Early, Opening, Filling
  <2>5. NeverPartlyRecovered'
    BY <1>0, <1>12 DEF PitrRemove, locals, NeverPartlyRecovered
  <2> QED BY <2>1, <2>2, <2>3, <2>4, <2>5 DEF VersionInv
<1>13. ASSUME NEW c \in Client, PitrLink(c) PROVE VersionInv'
  <2>1. TypeOK'
    BY <1>0, <1>13
    DEF PitrLink, Goto, Panic, locals, worker, VersionInv, TypeOK, Stages, Tasks
  <2>2. OneRecovery'
    <3>1. PICK x \in {"idle", "pitrDone"} : pc' = [pc EXCEPT ![c] = x]
      BY <1>13 DEF PitrLink, Goto, Panic
    <3>2. /\ UNCHANGED <<task, arg>> /\ task[c] = "pitrList"
          /\ \A d \in Client : d # c => pc[d] = "idle"
      BY <1>13, <1>b
      DEF PitrLink, locals, PitrStages, Filling, Idle, VersionInv, OneRecovery
    <3>3. \A p \in Process : pc'[p] = IF p = c THEN x ELSE pc[p]
      BY <1>0, <3>1
    <3> QED BY <3>2, <3>3 DEF VersionInv, OneRecovery, Recovering, Idle
  <2>3. VersionsMade'
    BY <1>0, <1>13, <1>b
    DEF PitrLink, locals, VersionInv, VersionsMade, RecoverySteps, PitrStages, Filling
  <2>4. RecoverySteps'
    BY <1>0, <1>13
    DEF PitrLink, Goto, Panic, locals, VersionInv, RecoverySteps, Recovering, Idle,
        Early, Opening, Filling
  <2>5. NeverPartlyRecovered'
    BY <1>0, <1>13
    DEF PitrLink, Goto, Panic, VersionInv, NeverPartlyRecovered, OneRecovery,
        Recovering, Idle, Filling, PitrStages
  <2> QED BY <2>1, <2>2, <2>3, <2>4, <2>5 DEF VersionInv
<1>14. ASSUME NEW c \in Client, PitrAnswer(c) PROVE VersionInv'
  <2>1. TypeOK'
    BY <1>0, <1>14
    DEF PitrAnswer, Goto, files, locals, worker, env, VersionInv, TypeOK, Stages
  <2>2. OneRecovery'
    BY <1>0, <1>14
    DEF PitrAnswer, Goto, locals, VersionInv, OneRecovery, PitrStages, Idle, Recovering
  <2>3. VersionsMade'
    BY <1>0, <1>14 DEF PitrAnswer, files, locals, env, VersionInv, VersionsMade
  <2>4. RecoverySteps'
    BY <1>0, <1>14
    DEF PitrAnswer, Goto, files, locals, env, VersionInv, RecoverySteps, Recovering,
        Idle
  <2>5. NeverPartlyRecovered'
    BY <1>0, <1>14 DEF PitrAnswer, Goto, files, locals, VersionInv, NeverPartlyRecovered
  <2> QED BY <2>1, <2>2, <2>3, <2>4, <2>5 DEF VersionInv
<1>15. ASSUME WakeWorker PROVE VersionInv'
  <2>1. TypeOK'
    BY <1>0, <1>15
    DEF WakeWorker, Goto, files, locals, worker, env, VersionInv, TypeOK, Stages,
        Opening
  <2>2. OneRecovery'
    BY <1>0, <1>15
    DEF WakeWorker, Goto, locals, VersionInv, OneRecovery, PitrStages, Filling, Idle,
        Recovering
  <2>3. VersionsMade'
    BY <1>0, <1>15 DEF WakeWorker, Goto, files, locals, env, VersionInv, VersionsMade
  <2>4. RecoverySteps'
    BY <1>0, <1>15
    DEF WakeWorker, Goto, files, locals, env, VersionInv, RecoverySteps, Recovering,
        Idle
  <2>5. NeverPartlyRecovered'
    BY <1>0, <1>15 DEF WakeWorker, Goto, files, locals, VersionInv, NeverPartlyRecovered
  <2> QED BY <2>1, <2>2, <2>3, <2>4, <2>5 DEF VersionInv
<1>16. ASSUME CommitLogged PROVE VersionInv'
  <2>1. TypeOK'
    <3>1. place[Worker] \in Place /\ {e.hash : e \in logged[place[Worker]]} \subseteq Hash
      BY <1>0, <1>a
    <3>2. indexed' \in [Place -> SUBSET Hash]
      BY <1>0, <1>16, <3>1 DEF CommitLogged
    <3>3. pc' \in [Process -> Stages]
      BY <1>0, <1>16 DEF CommitLogged, Goto, Stages
    <3> QED BY <1>16, <3>2, <3>3
            DEF CommitLogged, locals, worker, env, VersionInv, TypeOK
  <2>2. OneRecovery'
    BY <1>0, <1>16
    DEF CommitLogged, Goto, locals, VersionInv, OneRecovery, PitrStages, Filling, Idle,
        Recovering
  <2>3. VersionsMade'
    BY <1>0, <1>16 DEF CommitLogged, locals, env, VersionInv, VersionsMade
  <2>4. RecoverySteps'
    BY <1>0, <1>16
    DEF CommitLogged, Goto, locals, env, VersionInv, RecoverySteps, Recovering, Idle
  <2>5. NeverPartlyRecovered'
    BY <1>0, <1>16 DEF CommitLogged, Goto, locals, VersionInv, NeverPartlyRecovered
  <2> QED BY <2>1, <2>2, <2>3, <2>4, <2>5 DEF VersionInv
<1>17. ASSUME Crash PROVE VersionInv'
  <2>1. TypeOK'
    BY <1>0, <1>17 DEF Crash, files, locals, VersionInv, TypeOK, Stages
  <2>2. OneRecovery'
    BY <1>0, <1>17 DEF Crash, locals, VersionInv, OneRecovery, PitrStages, Filling, Idle
  <2>3. VersionsMade'
    BY <1>0, <1>17 DEF Crash, files, locals, VersionInv, VersionsMade
  <2>4. RecoverySteps'
    BY <1>0, <1>17 DEF Crash, RecoverySteps, Recovering, Idle
  <2>5. NeverPartlyRecovered'
    BY <1>0, <1>17 DEF Crash, NeverPartlyRecovered
  <2> QED BY <2>1, <2>2, <2>3, <2>4, <2>5 DEF VersionInv
<1>18. ASSUME Tick PROVE VersionInv'
  <2>1. TypeOK'
    BY <1>0, <1>18 DEF Tick, files, locals, worker, VersionInv, TypeOK, Time
  <2>2. OneRecovery'
    BY <1>0, <1>18 DEF Tick, locals, VersionInv, OneRecovery, Idle, Recovering
  <2>3. VersionsMade'
    BY <1>0, <1>18 DEF Tick, files, locals, VersionInv, VersionsMade
  <2>4. RecoverySteps'
    BY <1>0, <1>18 DEF Tick, files, locals, VersionInv, RecoverySteps, Recovering, Idle
  <2>5. NeverPartlyRecovered'
    BY <1>0, <1>18 DEF Tick, files, locals, VersionInv, NeverPartlyRecovered
  <2> QED BY <2>1, <2>2, <2>3, <2>4, <2>5 DEF VersionInv
<1>19. ASSUME UNCHANGED vars PROVE VersionInv'
  <2>1. TypeOK'
    BY <1>0, <1>19 DEF vars, files, locals, worker, env, VersionInv, TypeOK
  <2>2. OneRecovery'
    BY <1>0, <1>19 DEF vars, locals, VersionInv, OneRecovery, Idle, Recovering
  <2>3. VersionsMade'
    BY <1>0, <1>19 DEF vars, files, locals, env, VersionInv, VersionsMade
  <2>4. RecoverySteps'
    BY <1>0, <1>19
    DEF vars, files, locals, env, VersionInv, RecoverySteps, Recovering, Idle
  <2>5. NeverPartlyRecovered'
    BY <1>0, <1>19 DEF vars, files, locals, VersionInv, NeverPartlyRecovered
  <2> QED BY <2>1, <2>2, <2>3, <2>4, <2>5 DEF VersionInv
<1> QED BY <1>1, <1>2, <1>3, <1>4, <1>5, <1>6, <1>7, <1>8, <1>9, <1>10, <1>11, <1>12,
           <1>13, <1>14, <1>15, <1>16, <1>17, <1>18, <1>19
        DEF AloneNext, Serve, Open, Pitr

-----------------------------------------------------------------------------
(***************************************************************************)
(* Up to the moment the first recovery removes the link, there is one      *)
(* place where everybody works, and its log is the history.                *)
(***************************************************************************)
Untouched ==
    \/ recoveries = 0
    \/ /\ recoveries = 1
       /\ \E c \in Client : Recovering(c) /\ pc[c] \notin {"pitrLink", "pitrDone"}

OpenedHere ==
    Untouched =>
        /\ current = Absent => history = {} /\ \A d \in Place : logged[d] = {}
        /\ current # Absent => logged[current] = history
        /\ \A p \in Process :
              pc[p] \in {"log"} \cup PitrStages => current # Absent /\ place[p] = current

OwedSeen == recoveries = 0 => owed \subseteq {e.hash : e \in history}

(***************************************************************************)
(* Nobody but the recovery touches the version it fills.                   *)
(***************************************************************************)
FreshVersions ==
    /\ \A v \in Version \ versions : logged[v] = {} /\ indexed[v] = {}
    /\ \A c \in Client : Recovering(c) =>
          /\ pc[c] \in {"pitrCreate", "pitrDone"} \cup Filling =>
                target[c] # 0 /\ logged[target[c]] = {}
          /\ pc[c] \in Filling =>
                current # target[c] /\ \A p \in Process : place[p] # target[c]
          /\ pc[c] = "pitrCollect" => indexed[target[c]] = {}

FirstReplay ==
    recoveries = 1 =>
        \A c \in Client : Recovering(c) =>
            /\ pc[c] \in {"pitrReplay", "pitrRemove", "pitrLink"} =>
                  indexed[target[c]] \cup replay[c] = Due(arg[c])
            /\ pc[c] \in {"pitrRemove", "pitrLink"} => replay[c] = {}
            /\ Switched(c) => indexed[current] = Due(arg[c])

ContentInv == OpenedHere /\ OwedSeen /\ FreshVersions /\ FirstReplay

LEMMA ContentInit == Init => ContentInv
<1> SUFFICES ASSUME Init PROVE ContentInv OBVIOUS
<1> USE Constants DEF Init, IdleProcesses
<1>1. OpenedHere
  BY DEF OpenedHere, PitrStages, Filling
<1>2. OwedSeen
  BY DEF OwedSeen
<1>3. FreshVersions
  BY DEF FreshVersions, Recovering
<1>4. FirstReplay
  BY DEF FirstReplay, Recovering, Idle
<1> QED BY <1>1, <1>2, <1>3, <1>4 DEF ContentInv

LEMMA ContentStep == VersionInv /\ VersionInv' /\ ContentInv /\ [AloneNext]_vars => ContentInv'
<1> SUFFICES ASSUME VersionInv, VersionInv', ContentInv, [AloneNext]_vars PROVE ContentInv' OBVIOUS
<1> USE Constants
<1>0. /\ pc \in [Process -> Stages] /\ task \in [Process -> Tasks]
      /\ place \in [Process -> Place] /\ target \in [Process -> Version]
      /\ replay \in [Process -> SUBSET Hash]
      /\ logged \in [Place -> SUBSET Entry] /\ indexed \in [Place -> SUBSET Hash]
      /\ arg \in [Process -> Hash \cup Time]
  BY DEF VersionInv, TypeOK, OneRecovery
<1>b. ASSUME NEW c \in Client, pc[c] \in PitrStages
      PROVE  /\ Recovering(c) /\ 0 \in versions
             /\ \A d \in Client : d # c => pc[d] = "idle"
  BY <1>b
  DEF VersionInv, OneRecovery, VersionsMade, Recovering, Idle, PitrStages, Filling
<1>1. ASSUME AddApart PROVE ContentInv'
  <2>1. OpenedHere'
    BY <1>0, <1>1
    DEF AddApart, AddVector, Request, Goto, files, VersionInv, OneRecovery, Recovering,
        Idle, ContentInv, OpenedHere, Untouched
  <2>2. OwedSeen'
    BY <1>0, <1>1 DEF AddApart, AddVector, Request, ContentInv, OwedSeen
  <2>3. FreshVersions'
    BY <1>0, <1>1
    DEF AddApart, AddVector, Request, Goto, files, Recovering, Idle, ContentInv,
        FreshVersions
  <2>4. FirstReplay'
    BY <1>0, <1>1 DEF AddApart, AddVector, Request, Goto, Recovering, Idle, FirstReplay
  <2> QED BY <2>1, <2>2, <2>3, <2>4 DEF ContentInv
<1>2. ASSUME RecoverAlone PROVE ContentInv'
  <2>1. OpenedHere'
    BY <1>0, <1>2
    DEF RecoverAlone, Recover, Request, Goto, files, VersionInv, OneRecovery,
        VersionsMade, RecoverySteps, Idle, PitrStages, ContentInv, OpenedHere, Untouched
  <2>2. OwedSeen'
    BY <1>0, <1>2 DEF RecoverAlone, Recover, VersionInv, VersionsMade, OwedSeen
  <2>3. FreshVersions'
    BY <1>0, <1>2
    DEF RecoverAlone, Recover, Request, Goto, files, Idle, Filling, ContentInv,
        FreshVersions
  <2>4. FirstReplay'
    BY <1>0, <1>2 DEF RecoverAlone, Recover, Request, Goto, Idle, FirstReplay, Switched
  <2> QED BY <2>1, <2>2, <2>3, <2>4 DEF ContentInv
<1>3. ASSUME NEW p \in Process, ListVersions(p) PROVE ContentInv'
  <2>1. OpenedHere'
    BY <1>0, <1>3
    DEF ListVersions, Goto, files, locals, env, Recovering, Idle, Filling, PitrStages,
        ContentInv, OpenedHere, Untouched
  <2>2. OwedSeen'
    BY <1>0, <1>3 DEF ListVersions, env, ContentInv, OwedSeen
  <2>3. FreshVersions'
    BY <1>0, <1>3
    DEF ListVersions, Goto, files, locals, Recovering, Idle, Filling, ContentInv,
        FreshVersions
  <2>4. FirstReplay'
    BY <1>0, <1>3
    DEF ListVersions, Goto, files, locals, env, Recovering, Idle, ContentInv,
        FirstReplay, Switched, Due
  <2> QED BY <2>1, <2>2, <2>3, <2>4 DEF ContentInv
<1>4. ASSUME NEW p \in Process, MakeFirst(p) PROVE ContentInv'
  <2>1. OpenedHere'
    BY <1>0, <1>4
    DEF MakeFirst, Goto, locals, env, Recovering, Idle, Filling, PitrStages, ContentInv,
        OpenedHere, Untouched
  <2>2. OwedSeen'
    BY <1>0, <1>4 DEF MakeFirst, env, ContentInv, OwedSeen
  <2>3. FreshVersions'
    BY <1>0, <1>4
    DEF MakeFirst, Goto, locals, Recovering, Idle, Filling, ContentInv, FreshVersions
  <2>4. FirstReplay'
    BY <1>0, <1>4
    DEF MakeFirst, Goto, locals, env, Recovering, Idle, ContentInv, FirstReplay,
        Switched, Due
  <2> QED BY <2>1, <2>2, <2>3, <2>4 DEF ContentInv
<1>5. ASSUME NEW p \in Process, LinkFirst(p) PROVE ContentInv'
  <2>1. OpenedHere'
    <3>1. /\ pc[p] = "linkFirst" /\ pc'[p] \in {"enter", "idle"}
          /\ \A q \in Process : q # p => pc'[q] = pc[q]
          /\ UNCHANGED <<history, logged, recoveries, task, place>>
      BY <1>0, <1>5 DEF LinkFirst, Goto, Panic, env, locals
    <3>2. Untouched' => Untouched
      BY <1>0, <3>1 DEF Untouched, Recovering, Idle
    <3>3. current = Absent => current' = 0 /\ 0 \in Place
      BY <1>5 DEF LinkFirst
    <3>4. current # Absent => current' = current
      BY <1>5 DEF LinkFirst
    <3>5. \A q \in Process : pc'[q] \in {"log"} \cup PitrStages => pc'[q] = pc[q]
      BY <3>1 DEF PitrStages, Filling
    <3> QED BY <3>1, <3>2, <3>3, <3>4, <3>5 DEF ContentInv, OpenedHere
  <2>2. OwedSeen'
    BY <1>0, <1>5 DEF LinkFirst, env, ContentInv, OwedSeen
  <2>3. FreshVersions'
    BY <1>0, <1>5
    DEF LinkFirst, Goto, Panic, locals, VersionInv, RecoverySteps, NeverPartlyRecovered,
        Recovering, Idle, Filling, Opening, ContentInv, FreshVersions
  <2>4. FirstReplay'
    BY <1>0, <1>5
    DEF LinkFirst, Goto, Panic, locals, env, Recovering, Idle, ContentInv, FirstReplay,
        FreshVersions, Switched, Due
  <2> QED BY <2>1, <2>2, <2>3, <2>4 DEF ContentInv
<1>6. ASSUME NEW p \in Process, Enter(p) PROVE ContentInv'
  <2>1. OpenedHere'
    <3>1. /\ current' = Made /\ pc[p] = "enter"
          /\ pc' = [pc EXCEPT ![p] = task[p]] /\ place' = [place EXCEPT ![p] = current']
          /\ UNCHANGED <<history, logged, recoveries, task>>
      BY <1>6 DEF Enter, Goto, env
    <3>2. Untouched' => Untouched
      BY <1>0, <3>1 DEF Untouched, Recovering, Idle
    <3>3. current = Absent => current' = Dir /\ Dir \in Place
      BY <3>1 DEF Made
    <3>4. current # Absent => current' = current
      BY <3>1 DEF Made
    <3>5. \A q \in Process : pc'[q] = IF q = p THEN task[q] ELSE pc[q]
      BY <1>0, <3>1
    <3>6. \A q \in Process : place'[q] = IF q = p THEN current' ELSE place[q]
      BY <1>0, <3>1
    <3> QED BY <3>1, <3>2, <3>3, <3>4, <3>5, <3>6 DEF ContentInv, OpenedHere
  <2>2. OwedSeen'
    BY <1>0, <1>6 DEF Enter, env, ContentInv, OwedSeen
  <2>3. FreshVersions'
    BY <1>0, <1>6
    DEF Enter, Goto, Made, Recovering, Idle, Filling, ContentInv, FreshVersions
  <2>4. FirstReplay'
    BY <1>0, <1>6
    DEF Enter, Goto, Made, env, Recovering, Idle, ContentInv, FirstReplay, Switched, Due
  <2> QED BY <2>1, <2>2, <2>3, <2>4 DEF ContentInv
<1>7. ASSUME NEW c \in Client, LogCommit(c) PROVE ContentInv'
  <2>1. OpenedHere'
    BY <1>0, <1>b, <1>7
    DEF LogCommit, Goto, locals, Recovering, Idle, ContentInv, OpenedHere, Untouched
  <2>2. OwedSeen'
    <3> DEFINE e == [time |-> now, hash |-> arg[c]]
    <3>1. history' = history \cup {e} /\ owed' = owed \cup {arg[c]} /\ recoveries' = recoveries
      BY <1>7 DEF LogCommit
    <3>2. e.hash = arg[c]
      OBVIOUS
    <3> HIDE DEF e
    <3>3. arg[c] \in {f.hash : f \in history'}
      BY <3>1, <3>2
    <3> QED BY <3>1, <3>3 DEF ContentInv, OwedSeen
  <2>3. FreshVersions'
    BY <1>0, <1>b, <1>7
    DEF LogCommit, Goto, locals, VersionInv, OneRecovery, VersionsMade, Recovering,
        Idle, ContentInv, FreshVersions
  <2>4. FirstReplay'
    BY <1>0, <1>b, <1>7
    DEF LogCommit, Goto, locals, VersionInv, OneRecovery, Recovering, Idle, FirstReplay
  <2> QED BY <2>1, <2>2, <2>3, <2>4 DEF ContentInv
<1>8. ASSUME NEW c \in Client, PitrList(c) PROVE ContentInv'
  <2>1. OpenedHere'
    BY <1>0, <1>b, <1>8
    DEF PitrList, Goto, files, env, PitrStages, ContentInv, OpenedHere, Untouched
  <2>2. OwedSeen'
    BY <1>0, <1>b, <1>8
    DEF PitrList, env, VersionInv, RecoverySteps, PitrStages, OwedSeen
  <2>3. FreshVersions'
    BY <1>0, <1>b, <1>8
    DEF PitrList, Goto, files, env, VersionInv, OneRecovery, VersionsMade,
        RecoverySteps, Idle, ContentInv, FreshVersions
  <2>4. FirstReplay'
    BY <1>0, <1>b, <1>8
    DEF PitrList, Goto, VersionInv, OneRecovery, Idle, FirstReplay, Switched
  <2> QED BY <2>1, <2>2, <2>3, <2>4 DEF ContentInv
<1>9. ASSUME NEW c \in Client, PitrCreate(c) PROVE ContentInv'
  <2>1. OpenedHere'
    BY <1>0, <1>b, <1>9
    DEF PitrCreate, Goto, locals, env, Idle, PitrStages, ContentInv, OpenedHere,
        Untouched
  <2>2. OwedSeen'
    BY <1>0, <1>b, <1>9
    DEF PitrCreate, env, VersionInv, RecoverySteps, PitrStages, OwedSeen
  <2>3. FreshVersions'
    BY <1>0, <1>b, <1>9
    DEF PitrCreate, Goto, locals, VersionInv, VersionsMade, RecoverySteps, Recovering,
        Idle, ContentInv, FreshVersions
  <2>4. FirstReplay'
    BY <1>0, <1>b, <1>9
    DEF PitrCreate, Goto, VersionInv, OneRecovery, Idle, FirstReplay, Switched
  <2> QED BY <2>1, <2>2, <2>3, <2>4 DEF ContentInv
<1>10. ASSUME NEW c \in Client, PitrCollect(c) PROVE ContentInv'
  <2>1. OpenedHere'
    BY <1>0, <1>b, <1>10
    DEF PitrCollect, Goto, files, env, NeverPartlyRecovered, Filling, PitrStages,
        ContentInv, OpenedHere, Untouched
  <2>2. OwedSeen'
    BY <1>0, <1>b, <1>10
    DEF PitrCollect, env, VersionInv, RecoverySteps, Filling, PitrStages, OwedSeen
  <2>3. FreshVersions'
    BY <1>0, <1>b, <1>10
    DEF PitrCollect, Goto, files, Recovering, Idle, Filling, ContentInv, FreshVersions
  <2>4. FirstReplay'
    BY <1>0, <1>b, <1>10
    DEF PitrCollect, Goto, files, env, Filling, PitrStages, ContentInv, FirstReplay,
        FreshVersions, OpenedHere, Untouched, Switched, Due
  <2> QED BY <2>1, <2>2, <2>3, <2>4 DEF ContentInv
<1>11. ASSUME NEW c \in Client, NEW x \in replay[c], PitrReplay(c, x) PROVE ContentInv'
  <2>1. OpenedHere'
    BY <1>0, <1>b, <1>11
    DEF PitrReplay, Goto, env, Filling, PitrStages, ContentInv, OpenedHere, Untouched
  <2>2. OwedSeen'
    BY <1>0, <1>b, <1>11
    DEF PitrReplay, env, VersionInv, RecoverySteps, Filling, PitrStages, OwedSeen
  <2>3. FreshVersions'
    BY <1>0, <1>b, <1>11
    DEF PitrReplay, Goto, VersionInv, RecoverySteps, Filling, PitrStages, ContentInv,
        FreshVersions
  <2>4. FirstReplay'
    BY <1>0, <1>b, <1>11
    DEF PitrReplay, Goto, env, VersionInv, OneRecovery, Recovering, Idle, ContentInv,
        FirstReplay, Switched, Due
  <2> QED BY <2>1, <2>2, <2>3, <2>4 DEF ContentInv
<1>12. ASSUME NEW c \in Client, PitrRemove(c) PROVE ContentInv'
  <2>1. OpenedHere'
    BY <1>0, <1>b, <1>12
    DEF PitrRemove, Goto, Panic, locals, env, VersionInv, RecoverySteps, Recovering,
        Idle, Filling, PitrStages, OpenedHere, Untouched
  <2>2. OwedSeen'
    BY <1>0, <1>b, <1>12
    DEF PitrRemove, env, VersionInv, RecoverySteps, Filling, PitrStages, OwedSeen
  <2>3. FreshVersions'
    BY <1>0, <1>b, <1>12
    DEF PitrRemove, Goto, Panic, locals, VersionInv, OneRecovery, Recovering, Idle,
        Filling, PitrStages, ContentInv, FreshVersions
  <2>4. FirstReplay'
    BY <1>0, <1>b, <1>12
    DEF PitrRemove, Goto, Panic, locals, env, Recovering, Idle, ContentInv, FirstReplay,
        Switched, Due
  <2> QED BY <2>1, <2>2, <2>3, <2>4 DEF ContentInv
<1>13. ASSUME NEW c \in Client, PitrLink(c) PROVE ContentInv'
  <2>1. OpenedHere'
    BY <1>0, <1>b, <1>13
    DEF PitrLink, Goto, Panic, VersionInv, RecoverySteps, Recovering, Idle, Filling,
        PitrStages, OpenedHere, Untouched
  <2>2. OwedSeen'
    BY <1>0, <1>b, <1>13
    DEF PitrLink, VersionInv, RecoverySteps, Filling, PitrStages, OwedSeen
  <2>3. FreshVersions'
    BY <1>0, <1>b, <1>13
    DEF PitrLink, Goto, Panic, locals, VersionInv, OneRecovery, VersionsMade,
        RecoverySteps, Recovering, Idle, Filling, ContentInv, FreshVersions
  <2>4. FirstReplay'
    <3>1. CASE current # Absent
      <4>1. \A d \in Client : ~Recovering(d)'
        BY <1>0, <1>b, <1>13, <3>1
        DEF PitrLink, Goto, Panic, Recovering, Idle, PitrStages, Filling
      <4> QED BY <4>1 DEF FirstReplay
    <3>2. CASE current = Absent
      <4>1. /\ history' = {e \in history : e.time < arg[c]}
            /\ UNCHANGED <<indexed, recoveries, arg, target, replay, task>>
            /\ pc[c] = "pitrLink" /\ current' = target[c] /\ pc' = [pc EXCEPT ![c] = "pitrDone"]
        BY <1>13, <3>2 DEF PitrLink, locals, Goto
      <4>2. Before(history', arg[c]) = Before(history, arg[c])
        BY <4>1 DEF Before
      <4>3. recoveries = 1 => indexed[target[c]] = Due(arg[c])
        BY <1>b, <4>1 DEF PitrStages, Filling, ContentInv, FirstReplay
      <4>4. \A d \in Client : Recovering(d)' => d = c
        BY <1>0, <1>b, <4>1 DEF Recovering, Idle, PitrStages, Filling
      <4>5. recoveries = 1 => (indexed[current] = Due(arg[c]))'
        BY <1>0, <4>1, <4>2, <4>3 DEF Due
      <4>6. pc'[c] = "pitrDone"
        BY <1>0, <4>1
      <4> QED BY <4>1, <4>4, <4>5, <4>6 DEF FirstReplay
    <3> QED BY <3>1, <3>2
  <2> QED BY <2>1, <2>2, <2>3, <2>4 DEF ContentInv
<1>14. ASSUME NEW c \in Client, PitrAnswer(c) PROVE ContentInv'
  <2>1. OpenedHere'
    BY <1>0, <1>b, <1>14
    DEF PitrAnswer, Goto, env, VersionInv, RecoverySteps, Recovering, Idle, PitrStages,
        OpenedHere, Untouched
  <2>2. OwedSeen'
    BY <1>0, <1>b, <1>14
    DEF PitrAnswer, env, VersionInv, RecoverySteps, PitrStages, OwedSeen
  <2>3. FreshVersions'
    BY <1>0, <1>b, <1>14
    DEF PitrAnswer, Goto, files, locals, Recovering, Idle, ContentInv, FreshVersions
  <2>4. FirstReplay'
    BY <1>0, <1>b, <1>14
    DEF PitrAnswer, Goto, locals, VersionInv, OneRecovery, Recovering, Idle, FirstReplay
  <2> QED BY <2>1, <2>2, <2>3, <2>4 DEF ContentInv
<1>15. ASSUME WakeWorker PROVE ContentInv'
  <2>1. OpenedHere'
    BY <1>0, <1>15
    DEF WakeWorker, Goto, files, locals, env, VersionInv, OneRecovery, Recovering, Idle,
        ContentInv, OpenedHere, Untouched
  <2>2. OwedSeen'
    BY <1>0, <1>15 DEF WakeWorker, env, ContentInv, OwedSeen
  <2>3. FreshVersions'
    BY <1>0, <1>15
    DEF WakeWorker, Goto, files, locals, Recovering, Idle, ContentInv, FreshVersions
  <2>4. FirstReplay'
    BY <1>0, <1>15
    DEF WakeWorker, Goto, files, locals, env, Recovering, Idle, ContentInv, FirstReplay,
        Switched, Due
  <2> QED BY <2>1, <2>2, <2>3, <2>4 DEF ContentInv
<1>16. ASSUME CommitLogged PROVE ContentInv'
  <2>1. OpenedHere'
    BY <1>0, <1>16
    DEF CommitLogged, Goto, locals, env, VersionInv, OneRecovery, Recovering, Idle,
        ContentInv, OpenedHere, Untouched
  <2>2. OwedSeen'
    BY <1>0, <1>16 DEF CommitLogged, env, ContentInv, OwedSeen
  <2>3. FreshVersions'
    BY <1>0, <1>16
    DEF CommitLogged, Goto, locals, Recovering, Idle, Filling, ContentInv, FreshVersions
  <2>4. FirstReplay'
    BY <1>0, <1>16
    DEF CommitLogged, Goto, locals, env, Recovering, Idle, Filling, ContentInv,
        FirstReplay, FreshVersions, Switched, Due
  <2> QED BY <2>1, <2>2, <2>3, <2>4 DEF ContentInv
<1>17. ASSUME Crash PROVE ContentInv'
  <2>1. OpenedHere'
    BY <1>0, <1>17
    DEF Crash, files, VersionInv, OneRecovery, Recovering, Idle, ContentInv, OpenedHere,
        Untouched
  <2>2. OwedSeen'
    BY <1>0, <1>17 DEF Crash, ContentInv, OwedSeen
  <2>3. FreshVersions'
    BY <1>0, <1>17 DEF Crash, files, Recovering, Idle, ContentInv, FreshVersions
  <2>4. FirstReplay'
    BY <1>0, <1>17 DEF Crash, Recovering, Idle, FirstReplay
  <2> QED BY <2>1, <2>2, <2>3, <2>4 DEF ContentInv
<1>18. ASSUME Tick PROVE ContentInv'
  <2>1. OpenedHere'
    BY <1>0, <1>18
    DEF Tick, files, locals, Recovering, Idle, ContentInv, OpenedHere, Untouched
  <2>2. OwedSeen'
    BY <1>0, <1>18 DEF Tick, ContentInv, OwedSeen
  <2>3. FreshVersions'
    BY <1>0, <1>18 DEF Tick, files, locals, Recovering, Idle, ContentInv, FreshVersions
  <2>4. FirstReplay'
    BY <1>0, <1>18
    DEF Tick, files, locals, Recovering, Idle, ContentInv, FirstReplay, Switched, Due
  <2> QED BY <2>1, <2>2, <2>3, <2>4 DEF ContentInv
<1>19. ASSUME UNCHANGED vars PROVE ContentInv'
  <2>1. OpenedHere'
    BY <1>0, <1>19
    DEF vars, files, locals, env, Recovering, Idle, ContentInv, OpenedHere, Untouched
  <2>2. OwedSeen'
    BY <1>0, <1>19 DEF vars, env, ContentInv, OwedSeen
  <2>3. FreshVersions'
    BY <1>0, <1>19 DEF vars, files, locals, Recovering, Idle, ContentInv, FreshVersions
  <2>4. FirstReplay'
    BY <1>0, <1>19
    DEF vars, files, locals, env, Recovering, Idle, ContentInv, FirstReplay, Switched,
        Due
  <2> QED BY <2>1, <2>2, <2>3, <2>4 DEF ContentInv
<1> QED BY <1>1, <1>2, <1>3, <1>4, <1>5, <1>6, <1>7, <1>8, <1>9, <1>10, <1>11, <1>12,
           <1>13, <1>14, <1>15, <1>16, <1>17, <1>18, <1>19
        DEF AloneNext, Serve, Open, Pitr

-----------------------------------------------------------------------------
(***************************************************************************)
(* What is owed, when one recovery is made: the link is removed from the   *)
(* first version only.                                                     *)
(***************************************************************************)
Hashes(d) == {e.hash : e \in logged[d]}

OwedInv ==
    /\ \A c \in Client : pc[c] = "log" => current # Absent /\ place[c] = current
    /\ current = Absent => owed \subseteq Hashes(0)
    /\ OwedIsLogged

LEMMA OwedInit == Init => OwedInv
  BY Constants DEF Init, IdleProcesses, OwedInv, OwedIsLogged

LEMMA OwedStep ==
    MaxRecoveries = 1 /\ VersionInv /\ VersionInv' /\ OwedInv /\ [AloneNext]_vars => OwedInv'
<1> SUFFICES ASSUME MaxRecoveries = 1, VersionInv, VersionInv', OwedInv, [AloneNext]_vars
             PROVE  OwedInv'
  OBVIOUS
<1> USE Constants
<1>0. /\ pc \in [Process -> Stages] /\ task \in [Process -> Tasks]
      /\ place \in [Process -> Place] /\ target \in [Process -> Version]
      /\ logged \in [Place -> SUBSET Entry]
  BY DEF VersionInv, TypeOK
<1>b. ASSUME NEW c \in Client, pc[c] \in PitrStages
      PROVE  /\ Recovering(c) /\ 0 \in versions
             /\ \A d \in Client : d # c => pc[d] = "idle"
  BY <1>b
  DEF VersionInv, OneRecovery, VersionsMade, Recovering, Idle, PitrStages, Filling
<1>1. ASSUME AddApart PROVE OwedInv'
  BY <1>0, <1>1
  DEF AddApart, AddVector, Request, Goto, files, OwedInv, OwedIsLogged, Hashes
<1>2. ASSUME RecoverAlone PROVE OwedInv'
  BY <1>0, <1>2
  DEF RecoverAlone, Recover, Request, Goto, files, OwedInv, OwedIsLogged, Hashes
<1>3. ASSUME NEW p \in Process, ListVersions(p) PROVE OwedInv'
  BY <1>0, <1>3
  DEF ListVersions, Goto, files, locals, env, OwedInv, OwedIsLogged, Hashes
<1>4. ASSUME NEW p \in Process, MakeFirst(p) PROVE OwedInv'
  BY <1>0, <1>4 DEF MakeFirst, Goto, locals, env, OwedInv, OwedIsLogged, Hashes
<1>5. ASSUME NEW p \in Process, LinkFirst(p) PROVE OwedInv'
  BY <1>0, <1>5 DEF LinkFirst, Goto, Panic, locals, env, OwedInv, OwedIsLogged, Hashes
<1>6. ASSUME NEW p \in Process, Enter(p) PROVE OwedInv'
  BY <1>0, <1>6 DEF Enter, Goto, Made, env, OwedInv, OwedIsLogged
<1>7. ASSUME NEW c \in Client, LogCommit(c) PROVE OwedInv'
  <2> DEFINE e == [time |-> now, hash |-> arg[c]]
  <2>1. /\ logged' = [logged EXCEPT ![place[c]] = @ \cup {e}] /\ owed' = owed \cup {arg[c]}
        /\ pc[c] = "log" /\ pc' = [pc EXCEPT ![c] = "idle"] /\ UNCHANGED <<current, place>>
    BY <1>7 DEF LogCommit, Goto, locals
  <2>2. e.hash = arg[c]
    OBVIOUS
  <2> HIDE DEF e
  <2>3. current # Absent /\ place[c] = current /\ current \in Place
    BY <2>1 DEF OwedInv, VersionInv, TypeOK
  <2>4. logged'[current] = logged[current] \cup {e}
    BY <1>0, <2>1, <2>3
  <2>5. OwedIsLogged'
    BY <2>1, <2>2, <2>4 DEF OwedInv, OwedIsLogged
  <2>6. \A d \in Client : pc'[d] = "log" => pc[d] = "log"
    BY <1>0, <2>1
  <2> QED BY <2>1, <2>3, <2>5, <2>6 DEF OwedInv
<1>8. ASSUME NEW c \in Client, PitrList(c) PROVE OwedInv'
  BY <1>0, <1>b, <1>8
  DEF PitrList, Goto, files, env, Idle, OwedInv, OwedIsLogged, Hashes
<1>9. ASSUME NEW c \in Client, PitrCreate(c) PROVE OwedInv'
  BY <1>0, <1>b, <1>9 DEF PitrCreate, Goto, locals, env, OwedInv, OwedIsLogged, Hashes
<1>10. ASSUME NEW c \in Client, PitrCollect(c) PROVE OwedInv'
  BY <1>0, <1>b, <1>10 DEF PitrCollect, Goto, files, env, OwedInv, OwedIsLogged, Hashes
<1>11. ASSUME NEW c \in Client, NEW x \in replay[c], PitrReplay(c, x) PROVE OwedInv'
  BY <1>0, <1>b, <1>11 DEF PitrReplay, Goto, env, OwedInv, OwedIsLogged, Hashes
<1>12. ASSUME NEW c \in Client, PitrRemove(c) PROVE OwedInv'
  BY <1>0, <1>b, <1>12
  DEF PitrRemove, Goto, Panic, env, VersionInv, RecoverySteps, NeverPartlyRecovered,
      Filling, PitrStages, OwedInv, OwedIsLogged, Hashes
<1>13. ASSUME NEW c \in Client, PitrLink(c) PROVE OwedInv'
  BY <1>0, <1>b, <1>13 DEF PitrLink, Goto, Panic, locals, OwedInv, OwedIsLogged
<1>14. ASSUME NEW c \in Client, PitrAnswer(c) PROVE OwedInv'
  BY <1>0, <1>b, <1>14
  DEF PitrAnswer, Goto, files, locals, env, OwedInv, OwedIsLogged, Hashes
<1>15. ASSUME WakeWorker PROVE OwedInv'
  BY <1>0, <1>15 DEF WakeWorker, Goto, files, locals, env, OwedInv, OwedIsLogged, Hashes
<1>16. ASSUME CommitLogged PROVE OwedInv'
  BY <1>0, <1>16 DEF CommitLogged, Goto, locals, env, OwedInv, OwedIsLogged, Hashes
<1>17. ASSUME Crash PROVE OwedInv'
  BY <1>0, <1>17 DEF Crash, files, OwedInv, OwedIsLogged, Hashes
<1>18. ASSUME Tick PROVE OwedInv'
  BY <1>0, <1>18 DEF Tick, files, locals, OwedInv, OwedIsLogged, Hashes
<1>19. ASSUME UNCHANGED vars PROVE OwedInv'
  BY <1>0, <1>19 DEF vars, files, locals, env, OwedInv, OwedIsLogged, Hashes
<1> QED BY <1>1, <1>2, <1>3, <1>4, <1>5, <1>6, <1>7, <1>8, <1>9, <1>10, <1>11, <1>12,
           <1>13, <1>14, <1>15, <1>16, <1>17, <1>18, <1>19
        DEF AloneNext, Serve, Open, Pitr

-----------------------------------------------------------------------------
LEMMA VersionInvariant == AloneSpec => []VersionInv
  BY VersionInit, VersionStep, PTL DEF AloneSpec

(***************************************************************************)
(* Files and locals keep their types: whatever the requests, the worker    *)
(* and crashes do, nobody works in a place that does not exist, and no     *)
(* recovery is given a version number past the recoveries asked for.       *)
(***************************************************************************)
THEOREM NamespaceTypeCorrect == AloneSpec => []TypeOK
<1>1. VersionInv => TypeOK
  BY DEF VersionInv
<1> QED BY VersionInvariant, <1>1, PTL

(***************************************************************************)
(* No recovery, however many are made one after another and wherever they  *)
(* died, fills a version that the link names.                              *)
(***************************************************************************)
THEOREM NeverPartly == AloneSpec => []NeverPartlyRecovered
<1>1. VersionInv => NeverPartlyRecovered
  BY DEF VersionInv
<1> QED BY VersionInvariant, <1>1, PTL

LEMMA ContentInvariant == AloneSpec => []ContentInv
<1>1. VersionInv /\ VersionInv' /\ ContentInv /\ [AloneNext]_vars => ContentInv'
  BY ContentStep
<1> QED BY ContentInit, VersionInvariant, <1>1, PTL DEF AloneSpec

(***************************************************************************)
(* However many first requests race to create the namespace, and however   *)
(* often the process dies doing so, what was answered is where "current"   *)
(* leads.                                                                  *)
(***************************************************************************)
THEOREM FirstRequestsKept == AloneSpec => []OwedIsWhereCurrentLeads
<1>1. ContentInv => OwedIsWhereCurrentLeads
  BY DEF ContentInv, OwedSeen, OpenedHere, Untouched, OwedIsWhereCurrentLeads
<1> QED BY ContentInvariant, <1>1, PTL

(***************************************************************************)
(* The one recovery of a namespace is exact.  A second one need not be:    *)
(* see the run namespace_twice.                                            *)
(***************************************************************************)
THEOREM OneRecoveryExact ==
    ASSUME MaxRecoveries = 1
    PROVE  AloneSpec => []RecoveryIsExact
<1>1. VersionInv /\ ContentInv => RecoveryIsExact
  <2> SUFFICES ASSUME VersionInv, ContentInv, NEW c \in Client, Switched(c)
               PROVE  indexed[current] = Due(arg[c])
    BY DEF RecoveryIsExact
  <2>1. Recovering(c) /\ recoveries > 0
    BY Constants
    DEF Switched, VersionInv, OneRecovery, RecoverySteps, PitrStages, Recovering, Idle
  <2>2. recoveries = 1
    BY <2>1 DEF VersionInv, VersionsMade
  <2> QED BY <2>1, <2>2 DEF ContentInv, FirstReplay
<1> QED BY VersionInvariant, ContentInvariant, <1>1, PTL

(***************************************************************************)
(* Through that recovery, what is owed is in the log the link names.       *)
(***************************************************************************)
THEOREM OneRecoveryKeepsOwed ==
    ASSUME MaxRecoveries = 1
    PROVE  AloneSpec => []OwedIsLogged
<1>1. VersionInv /\ VersionInv' /\ OwedInv /\ [AloneNext]_vars => OwedInv'
  BY OwedStep
<1>2. OwedInv => OwedIsLogged
  BY DEF OwedInv
<1> QED BY VersionInvariant, OwedInit, <1>1, <1>2, PTL DEF AloneSpec
=============================================================================
