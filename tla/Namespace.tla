----------------------------- MODULE Namespace ------------------------------
(***************************************************************************)
(* The versions of a namespace: services/namespace_state.rs opens the one  *)
(* that the symbolic link "current" names, creating the first, and         *)
(* CommitService::recover_point_in_time replays the log of the current one *)
(* into a new version and moves the link to it.  Every request, and every  *)
(* tick of the commit worker, opens the namespace anew (main.rs), and no   *)
(* lock orders them.                                                       *)
(*                                                                         *)
(* A place is a version, or Dir: the directory that create_dir_all makes   *)
(* of "current" when the link is missing.  Logging a commit, and one run   *)
(* of the worker, are one step here; their own steps are WalCommit.        *)
(***************************************************************************)
EXTENDS Integers, FiniteSets

CONSTANTS
    Client,         \* requests that may run at the same time
    Worker,         \* the commit worker
    Hash,           \* commits
    Absent, Dir,    \* what "current" may be besides a link to a version
    MaxTime,        \* bound: the clock stops there
    MaxRecoveries,  \* bound: point-in-time recoveries
    MaxCrashes      \* bound: process deaths

ASSUME NamespaceAssumption ==
    /\ Worker \notin Client
    /\ {Absent, Dir} \cap Nat = {}
    /\ Absent # Dir
    /\ {MaxTime, MaxRecoveries, MaxCrashes} \subseteq Nat

Time == 0..MaxTime
Version == 0..MaxRecoveries
Place == Version \cup {Dir}
Process == Client \cup {Worker}

Entry == [time : Time, hash : Hash]

VARIABLES
    versions,   \* the directories v0, v1, ...
    current,    \* what the path "current" is
    logged,     \* the log of each place
    indexed,    \* the commits in the vectors and indexes of each place
    pc,         \* what each process does next
    task,       \* what it does once the namespace is open
    arg,        \* the commit to log, or the time to recover
    place,      \* where the files it has open are
    target,     \* the version it recovers into
    replay,     \* the commits it has still to replay
    spawned,    \* the worker has been started by this process ...
    dead,       \* ... and has panicked
    now, crashes, recoveries,
    history,    \* what a client may expect to be logged: all, less what was rolled back
    owed        \* commits answered since the last recovery

files == <<versions, current, logged, indexed>>
locals == <<task, arg, place, target, replay>>
worker == <<spawned, dead>>
env == <<now, crashes, recoveries, history, owed>>
vars == <<files, pc, locals, worker, env>>

Opening == {"list", "makeFirst", "linkFirst", "enter"}
Stages == Opening \cup {"idle", "log", "commit", "pitrList", "pitrCreate", "pitrCollect",
                        "pitrReplay", "pitrRemove", "pitrLink", "pitrDone"}
Tasks == {"log", "commit", "pitrList"}

NoCommit == 0

-----------------------------------------------------------------------------
IdleProcesses ==
    /\ pc = [p \in Process |-> "idle"]
    /\ task = [p \in Process |-> "commit"]
    /\ arg = [p \in Process |-> NoCommit]
    /\ place = [p \in Process |-> Dir]
    /\ target = [p \in Process |-> 0]
    /\ replay = [p \in Process |-> {}]

(***************************************************************************)
(* A namespace nobody has used yet.                                        *)
(***************************************************************************)
Init ==
    /\ versions = {}
    /\ current = Absent
    /\ logged = [d \in Place |-> {}]
    /\ indexed = [d \in Place |-> {}]
    /\ IdleProcesses
    /\ spawned = FALSE
    /\ dead = FALSE
    /\ now = 0
    /\ crashes = 0
    /\ recoveries = 0
    /\ history = {}
    /\ owed = {}

-----------------------------------------------------------------------------
Goto(p, stage) == pc' = [pc EXCEPT ![p] = stage]

(***************************************************************************)
(* A panic ends a request; the worker it ends for good: its join handle    *)
(* stays in the map of active namespaces.                                  *)
(***************************************************************************)
Panic(p) ==
    /\ Goto(p, "idle")
    /\ dead' = (dead \/ p = Worker)
    /\ UNCHANGED spawned

(***************************************************************************)
(* A request starts the worker if none was started; every 10 seconds the   *)
(* worker opens the namespace, the first time at once.                     *)
(***************************************************************************)
Request(c, t, a) ==
    /\ pc[c] = "idle"
    /\ spawned' = TRUE
    /\ task' = [task EXCEPT ![c] = t]
    /\ arg' = [arg EXCEPT ![c] = a]
    /\ Goto(c, "list")
    /\ UNCHANGED <<files, place, target, replay, dead, now, crashes, history, owed>>

AddVector(c, h) ==
    /\ h \notin {e.hash : e \in history}
    /\ Request(c, "log", h)
    /\ UNCHANGED recoveries

Recover(c, t) ==
    /\ recoveries < MaxRecoveries
    /\ recoveries' = recoveries + 1
    /\ Request(c, "pitrList", t)

WakeWorkerOnce ==       \* a mutant: the interval fires once
    /\ spawned
    /\ ~dead
    /\ pc[Worker] = "idle"
    /\ place[Worker] = Dir
    /\ Goto(Worker, "list")
    /\ UNCHANGED <<files, locals, worker, env>>

WakeWorker ==
    /\ spawned
    /\ ~dead
    /\ pc[Worker] = "idle"
    /\ Goto(Worker, "list")
    /\ UNCHANGED <<files, locals, worker, env>>

(***************************************************************************)
(* NamespaceState::new.                                                    *)
(***************************************************************************)
ListVersions(p) ==
    /\ pc[p] = "list"
    /\ Goto(p, IF versions = {} THEN "makeFirst" ELSE "enter")
    /\ UNCHANGED <<files, locals, worker, env>>

MakeFirst(p) ==
    /\ pc[p] = "makeFirst"
    /\ versions' = versions \cup {0}
    /\ Goto(p, "linkFirst")
    /\ UNCHANGED <<current, logged, indexed, locals, worker, env>>

(***************************************************************************)
(* LinkFirst, were it to replace what is there.                            *)
(***************************************************************************)
LinkFirstForced(p) ==
    /\ pc[p] = "linkFirst"
    /\ current' = 0
    /\ Goto(p, "enter")
    /\ UNCHANGED <<versions, logged, indexed, locals, worker, env>>

LinkFirst(p) ==
    /\ pc[p] = "linkFirst"
    /\ \/ /\ current = Absent
          /\ current' = 0
          /\ Goto(p, "enter")
          /\ UNCHANGED worker
       \/ /\ current # Absent
          /\ Panic(p)
          /\ UNCHANGED current
    /\ UNCHANGED <<versions, logged, indexed, locals, env>>

Unmade == current       \* a mutant: no directory made

Made == IF current = Absent THEN Dir ELSE current

EnterFirst(p) ==        \* a mutant: the files of the first version, wherever the link leads
    /\ pc[p] = "enter"
    /\ current' = Made
    /\ place' = [place EXCEPT ![p] = 0]
    /\ Goto(p, task[p])
    /\ UNCHANGED <<versions, logged, indexed, task, arg, target, replay, worker, env>>

Enter(p) ==
    /\ pc[p] = "enter"
    /\ current' = Made
    /\ place' = [place EXCEPT ![p] = current']
    /\ Goto(p, task[p])
    /\ UNCHANGED <<versions, logged, indexed, task, arg, target, replay, worker, env>>

-----------------------------------------------------------------------------
(***************************************************************************)
(* The addVector route, in the log of the place it has open.               *)
(***************************************************************************)
LogCommit(c) ==
    /\ pc[c] = "log"
    /\ LET e == [time |-> now, hash |-> arg[c]]
       IN  /\ logged' = [logged EXCEPT ![place[c]] = @ \cup {e}]
           /\ history' = history \cup {e}
    /\ owed' = owed \cup {arg[c]}
    /\ Goto(c, "idle")
    /\ UNCHANGED <<versions, current, indexed, locals, worker, now, crashes, recoveries>>

(***************************************************************************)
(* CommitService::commit, in the place it has open.                        *)
(***************************************************************************)
CommitLogged ==
    /\ pc[Worker] = "commit"
    /\ indexed' = [indexed EXCEPT ![place[Worker]] =
                      @ \cup {e.hash : e \in logged[place[Worker]]}]
    /\ Goto(Worker, "idle")
    /\ UNCHANGED <<versions, current, logged, locals, worker, env>>

(***************************************************************************)
(* recover_point_in_time.  The fresh version is opened as a namespace of   *)
(* its own, which makes its directory.                                     *)
(***************************************************************************)
Greatest(S) == CHOOSE v \in S : \A u \in S : u <= v

(***************************************************************************)
(* PitrList, were it to recover into the newest version there is.          *)
(***************************************************************************)
PitrListNewest(c) ==
    /\ pc[c] = "pitrList"
    /\ target' = [target EXCEPT ![c] = Greatest(versions)]
    /\ Goto(c, "pitrCreate")
    /\ UNCHANGED <<files, task, arg, place, replay, worker, env>>

PitrList(c) ==
    /\ pc[c] = "pitrList"
    /\ target' = [target EXCEPT ![c] = Greatest(versions) + 1]
    /\ Goto(c, "pitrCreate")
    /\ UNCHANGED <<files, task, arg, place, replay, worker, env>>

PitrCreate(c) ==
    /\ pc[c] = "pitrCreate"
    /\ versions' = versions \cup {target[c]}
    /\ Goto(c, "pitrCollect")
    /\ UNCHANGED <<current, logged, indexed, locals, worker, env>>

(***************************************************************************)
(* Before, were the second asked for included.                             *)
(***************************************************************************)
BeforeOrAt(entries, t) == {e.hash : e \in {f \in entries : f.time <= t}}

Before(entries, t) == {e.hash : e \in {f \in entries : f.time < t}}

PitrCollect(c) ==
    /\ pc[c] = "pitrCollect"
    /\ LET commits == Before(logged[place[c]], arg[c])
       IN  /\ replay' = [replay EXCEPT ![c] = commits]
           /\ Goto(c, IF commits = {} THEN "pitrDone" ELSE "pitrReplay")
    /\ UNCHANGED <<files, task, arg, place, target, worker, env>>

(***************************************************************************)
(* The vectors and indexes of one commit; the log of the fresh version     *)
(* gets the mark that it is finished, but not the commit.                  *)
(***************************************************************************)
PitrReplay(c, h) ==
    /\ pc[c] = "pitrReplay"
    /\ h \in replay[c]
    /\ indexed' = [indexed EXCEPT ![target[c]] = @ \cup {h}]
    /\ replay' = [replay EXCEPT ![c] = @ \ {h}]
    /\ Goto(c, IF replay[c] = {h} THEN "pitrRemove" ELSE "pitrReplay")
    /\ UNCHANGED <<versions, current, logged, task, arg, place, target, worker, env>>

PitrRemove(c) ==
    /\ pc[c] = "pitrRemove"
    /\ \/ /\ current \in Version
          /\ current' = Absent
          /\ Goto(c, "pitrLink")
          /\ UNCHANGED worker
       \/ /\ current \notin Version
          /\ Panic(c)
          /\ UNCHANGED current
    /\ UNCHANGED <<versions, logged, indexed, locals, env>>

PitrLink(c) ==
    /\ pc[c] = "pitrLink"
    /\ \/ /\ current = Absent
          /\ current' = target[c]
          /\ Goto(c, "pitrDone")
          /\ history' = {e \in history : e.time < arg[c]}
          /\ owed' = {}
          /\ UNCHANGED worker
       \/ /\ current # Absent
          /\ Panic(c)
          /\ UNCHANGED <<current, history, owed>>
    /\ UNCHANGED <<versions, logged, indexed, locals, now, crashes, recoveries>>

(***************************************************************************)
(* The answer is "Success".                                                *)
(***************************************************************************)
PitrAnswer(c) ==
    /\ pc[c] = "pitrDone"
    /\ Goto(c, "idle")
    /\ UNCHANGED <<files, locals, worker, env>>

-----------------------------------------------------------------------------
Crash ==
    /\ crashes < MaxCrashes
    /\ crashes' = crashes + 1
    /\ pc' = [p \in Process |-> "idle"]
    /\ spawned' = FALSE
    /\ dead' = FALSE
    /\ UNCHANGED <<files, locals, now, recoveries, history, owed>>

Tick ==
    /\ now < MaxTime
    /\ now' = now + 1
    /\ UNCHANGED <<files, pc, locals, worker, crashes, recoveries, history, owed>>

Open(p) == ListVersions(p) \/ MakeFirst(p) \/ LinkFirst(p) \/ Enter(p)

Pitr(c) == \/ PitrList(c) \/ PitrCreate(c) \/ PitrCollect(c)
           \/ \E h \in replay[c] : PitrReplay(c, h)
           \/ PitrRemove(c) \/ PitrLink(c) \/ PitrAnswer(c)

Serve == \/ \E p \in Process : Open(p)
         \/ \E c \in Client : LogCommit(c) \/ Pitr(c)

Next == \/ \E c \in Client : \/ \E h \in Hash : AddVector(c, h)
                             \/ \E t \in Time : Recover(c, t)
        \/ Serve
        \/ WakeWorker
        \/ CommitLogged
        \/ Crash
        \/ Tick

Spec == Init /\ [][Next]_vars

(***************************************************************************)
(* Recoveries served alone: no other request is under way.  The worker     *)
(* goes on, and so do requests among themselves.                           *)
(***************************************************************************)
Idle(c) == pc[c] = "idle"

Recovering(c) == ~Idle(c) /\ task[c] = "pitrList"

AddApart == \E c \in Client, h \in Hash :
                (\A d \in Client : ~Recovering(d)) /\ AddVector(c, h)

RecoverAlone == \E c \in Client, t \in Time :
                    (\A d \in Client : Idle(d)) /\ Recover(c, t)

(***************************************************************************)
(* The interval of the worker keeps firing and its task keeps being        *)
(* scheduled; requests may come or not.                                    *)
(***************************************************************************)
Work == WakeWorker \/ Open(Worker) \/ CommitLogged

AloneNext == \/ AddApart \/ RecoverAlone \/ Serve
             \/ WakeWorker \/ CommitLogged \/ Crash \/ Tick

AloneSpec == Init /\ [][AloneNext]_vars /\ WF_vars(Work)

-----------------------------------------------------------------------------
(***************************************************************************)
(* The types: in particular, no process ever opens a path that leads       *)
(* nowhere (namespace_state.rs:72 makes the directory when it must).       *)
(***************************************************************************)
TypeOK ==
    /\ versions \subseteq Version
    /\ current \in Place \cup {Absent}
    /\ logged \in [Place -> SUBSET Entry]
    /\ indexed \in [Place -> SUBSET Hash]
    /\ pc \in [Process -> Stages]
    /\ task \in [Process -> Tasks]
    /\ place \in [Process -> Place]
    /\ target \in [Process -> Version]
    /\ replay \in [Process -> SUBSET Hash]
    /\ spawned \in BOOLEAN
    /\ dead \in BOOLEAN
    /\ now \in Time
    /\ history \subseteq Entry
    /\ owed \subseteq Hash

Due(t) == Before(history, t)

(***************************************************************************)
(* A recovery that moves the link has put into the new version exactly the *)
(* commits logged before the given second, those the worker had not        *)
(* indexed yet included, whatever worker runs and crashes came between.    *)
(* These are sets: how often each is replayed is not counted.              *)
(***************************************************************************)
Switched(c) == pc[c] = "pitrDone" /\ current = target[c]

RecoveryIsExact ==
    \A c \in Client : Switched(c) => indexed[current] = Due(arg[c])

(***************************************************************************)
(* "Durable (WAL), persistent data", README.md:10: what was answered since *)
(* the last recovery is in the log that the link leads to.                 *)
(***************************************************************************)
OwedIsLogged ==
    current \in Version => owed \subseteq {e.hash : e \in logged[current]}

(***************************************************************************)
(* Until the first recovery, what was answered is in the log "current"     *)
(* leads to, whatever the first requests and the worker, racing to create  *)
(* it, made of it: a link or, after a crash between mkdir and symlink or   *)
(* when one of them enters too early, a directory.                         *)
(***************************************************************************)
OwedIsWhereCurrentLeads ==
    recoveries = 0 /\ current # Absent => owed \subseteq {e.hash : e \in logged[current]}

(***************************************************************************)
(* The version that the link names is not one a recovery is still filling: *)
(* requests that come during a recovery see the old data, all of it.       *)
(***************************************************************************)
NeverPartlyRecovered ==
    \A c \in Client : pc[c] \in {"pitrCollect", "pitrReplay", "pitrRemove"} => current # target[c]

(***************************************************************************)
(* Again and again the worker has indexed all that is logged where         *)
(* "current" leads, across crashes and through a recovery that moves the   *)
(* link under it: unless it has panicked (main.rs:159 keeps its handle, so *)
(* no request starts another), no request has come since a restart, or     *)
(* there is no link.                                                       *)
(***************************************************************************)
CaughtUp ==
    current # Absent => {e.hash : e \in logged[current]} \subseteq indexed[current]

WorkerCatchesUp == []<>(CaughtUp \/ dead \/ ~spawned)
=============================================================================
