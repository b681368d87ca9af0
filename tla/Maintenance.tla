----------------------------- MODULE Maintenance -----------------------------
(***************************************************************************)
(* Which ffmpegfs process prunes the cache (src/src/cache_maintenance.cc). *)
(*                                                                         *)
(* All mounted processes attach one shared memory segment, which holds the *)
(* pid of the master, and open one named semaphore.  A timer makes each of *)
(* them look whether the master still exists and take its place if not.   *)
(* The master then runs the maintenance.                                   *)
(*                                                                         *)
(* A process is mounted once and is known by its pid.  Segments and        *)
(* semaphores are known by the process that created them.  The timer's     *)
(* signals are handled one after the other, as by the main thread.         *)
(***************************************************************************)
EXTENDS Naturals, FiniteSets

CONSTANTS
    Processes,  \* processes that may mount a file system
    None,       \* no process; also the zero in a segment just created
    MaxFaults   \* bound: crashes and reused pids

ASSUME ProcessesAssumption ==
    None \notin Processes /\ MaxFaults \in Nat

VARIABLES
    key,        \* the segment that shmget finds
    pid_master, \* per segment, the pid it holds
    name,       \* the semaphore that sem_open finds
    value,      \* per semaphore, its value
    pc,         \* where each process is
    shmid,      \* the segment a process uses
    sem,        \* the semaphore a process uses
    master,     \* the flag of each process
    reused,     \* pids that belong to some other program by now
    faults,     \* crashes and reused pids so far
    contested   \* history, for the properties: segments of colliding mounts

shared  == <<key, pid_master, name, value>>
process == <<shmid, sem, master>>
world   == <<reused, faults>>
vars    == <<shared, pc, process, world, contested>>

Init ==
    /\ key = None /\ name = None
    /\ pid_master = [p \in Processes |-> None]
    /\ value = [p \in Processes |-> 0]
    /\ pc = [p \in Processes |-> "out"]
    /\ shmid = [p \in Processes |-> None]
    /\ sem = [p \in Processes |-> None]
    /\ master = [p \in Processes |-> FALSE]
    /\ reused = {} /\ faults = 0
    /\ contested = {}

-----------------------------------------------------------------------------
Linking     == {"create", "attach", "claim", "open",
                   "stat", "remove", "unlink"}
Inspecting  == {"look", "take", "post"}
UpPlaces    == {"up", "wait"} \cup Inspecting
Ended       == {"gone", "dead", "diedInspecting"}
Places      == Linking \cup UpPlaces \cup Ended \cup {"out", "leave"}

\* The processes that have a segment attached (shm_nattch).
Users(s) == {p \in Processes : /\ shmid[p] = s
                               /\ pc[p] \in {"claim", "open"} \cup UpPlaces}

\* A removed segment lives on until the last one detaches it.
Exists(s) == s = key \/ Users(s) # {}

\* getpgid finds a process; for pid zero it finds the caller's own group.
Running(q) == \/ q = None
              \/ q \in reused
              \/ pc[q] \notin Ended \cup {"out"}

Goto(p, from, to) == pc[p] = from /\ pc' = [pc EXCEPT ![p] = to]

-----------------------------------------------------------------------------
(* link_up *)

\* The segment exists already: the process is a client.
LinkUp(p) ==
    /\ Goto(p, "out", IF key = None THEN "create" ELSE "attach")
    /\ shmid' = [shmid EXCEPT ![p] = key]
    /\ UNCHANGED <<shared, sem, master, world, contested>>

\* shmget with IPC_CREAT but not IPC_EXCL, which opens a segment that has
\* appeared meanwhile: it then has two masters.
Create(p) ==
    /\ Goto(p, "create", "attach")
    /\ key' = (IF key = None THEN p ELSE key)
    /\ shmid' = [shmid EXCEPT ![p] = key']
    /\ master' = [master EXCEPT ![p] = TRUE]
    /\ contested' = (IF key = None THEN contested ELSE contested \cup {key})
    /\ UNCHANGED <<pid_master, name, value, sem, world>>

\* The result of shmat is used unseen: without a segment the process faults.
Attach(p) ==
    /\ Goto(p, "attach", IF Exists(shmid[p]) THEN "claim" ELSE "dead")
    /\ UNCHANGED <<shared, process, world, contested>>

Claim(p) ==
    /\ Goto(p, "claim", "open")
    /\ pid_master' = (IF master[p] THEN [pid_master EXCEPT ![shmid[p]] = p]
                                   ELSE pid_master)
    /\ UNCHANGED <<key, name, value, process, world, contested>>

Open(p) ==
    /\ Goto(p, "open", "up")
    /\ IF name = None
         THEN name' = p /\ value' = [value EXCEPT ![p] = 1]
         ELSE UNCHANGED <<name, value>>
    /\ sem' = [sem EXCEPT ![p] = name']
    /\ UNCHANGED <<key, pid_master, shmid, master, world, contested>>

\* sem_open failed: link_down detaches the segment, and the process exits.
OpenFails(p) ==
    /\ Goto(p, "open", "stat")
    /\ UNCHANGED <<shared, process, world, contested>>

-----------------------------------------------------------------------------
(* maintenance_handler and master_check *)

\* A process that is registered returns at once.  The maintenance, which the
\* handler runs then if it is the master, changes nothing here.
Tick(p) ==
    /\ Goto(p, "up", "wait")
    /\ pid_master[shmid[p]] # p
    /\ UNCHANGED <<shared, process, world, contested>>

Wait(p) ==
    /\ Goto(p, "wait", "look")
    /\ value[sem[p]] > 0
    /\ value' = [value EXCEPT ![sem[p]] = @ - 1]
    /\ UNCHANGED <<key, pid_master, name, process, world, contested>>

\* Mutant: a process that has exited still counts.
LookTrusting(p) ==
    /\ Goto(p, "look", IF pid_master[shmid[p]] # None THEN "post" ELSE "take")
    /\ UNCHANGED <<shared, process, world, contested>>
Look(p) ==
    /\ Goto(p, "look", IF Running(pid_master[shmid[p]]) THEN "post" ELSE "take")
    /\ UNCHANGED <<shared, process, world, contested>>

\* Registers as the master.  Mutant: in its own flag only.
TakeUnregistered(p) ==
    /\ Goto(p, "take", "post")
    /\ master' = [master EXCEPT ![p] = TRUE]
    /\ UNCHANGED <<shared, shmid, sem, world, contested>>
Take(p) ==
    /\ Goto(p, "take", "post")
    /\ pid_master' = [pid_master EXCEPT ![shmid[p]] = p]
    /\ master' = [master EXCEPT ![p] = TRUE]
    /\ UNCHANGED <<key, name, value, shmid, sem, world, contested>>

Post(p) ==
    /\ Goto(p, "post", "up")
    /\ value' = [value EXCEPT ![sem[p]] = @ + 1]
    /\ UNCHANGED <<key, pid_master, name, process, world, contested>>

-----------------------------------------------------------------------------
(* link_down, after the timer was stopped *)

\* The semaphore is closed and the segment detached.
LinkDown(p) ==
    /\ Goto(p, "up", "stat")
    /\ UNCHANGED <<shared, process, world, contested>>

\* Nobody is attached any more: remove the segment and the semaphore's name.
Stat(p) ==
    /\ Goto(p, "stat", IF shmid[p] = key /\ Users(key) = {} THEN "remove" ELSE "leave")
    /\ UNCHANGED <<shared, process, world, contested>>

\* Who has attached the segment since it was looked at keeps it, unseen by the
\* processes that mount later.
Remove(p) ==
    /\ Goto(p, "remove", "unlink")
    /\ key' = (IF key = shmid[p] THEN None ELSE key)
    /\ contested' = (IF key = shmid[p] /\ Users(key) # {} THEN contested \cup {key}
                     ELSE contested)
    /\ UNCHANGED <<pid_master, name, value, process, world>>

\* Whatever semaphore has the name: one that mounted processes share is then
\* theirs alone.  Mutant: the name stays.
UnlinkForgets(p) ==
    /\ Goto(p, "unlink", "leave")
    /\ UNCHANGED <<shared, process, world, contested>>
Unlink(p) ==
    /\ Goto(p, "unlink", "leave")
    /\ name' = None
    /\ contested' = contested \cup
         {shmid[q] : q \in {r \in Processes : pc[r] \in UpPlaces /\ sem[r] = name}}
    /\ UNCHANGED <<key, pid_master, value, process, world>>

Exit(p) ==
    /\ Goto(p, "leave", "gone")
    /\ shmid' = [shmid EXCEPT ![p] = None]
    /\ sem' = [sem EXCEPT ![p] = None]
    /\ master' = [master EXCEPT ![p] = FALSE]
    /\ UNCHANGED <<shared, world, contested>>

-----------------------------------------------------------------------------
(* The world outside. *)

\* A process dies; the kernel detaches its segment, but posts no semaphore.
Crash(p) ==
    /\ faults < MaxFaults /\ faults' = faults + 1
    /\ pc[p] \notin Ended \cup {"out"}
    /\ \/ pc[p] \in Inspecting /\ pc' = [pc EXCEPT ![p] = "diedInspecting"]
          /\ UNCHANGED sem
       \/ pc[p] \notin Inspecting /\ pc' = [pc EXCEPT ![p] = "dead"]
          /\ sem' = [sem EXCEPT ![p] = None]
    /\ shmid' = [shmid EXCEPT ![p] = None]
    /\ master' = [master EXCEPT ![p] = FALSE]
    /\ UNCHANGED <<shared, reused, contested>>

\* Another program is given the pid of a process that has ended.
Reuse(q) ==
    /\ faults < MaxFaults /\ faults' = faults + 1
    /\ pc[q] \in Ended /\ q \notin reused
    /\ reused' = reused \cup {q}
    /\ UNCHANGED <<shared, pc, process, contested>>

-----------------------------------------------------------------------------
Maybe == Processes \cup {None}

TypeOK ==
    /\ key \in Maybe /\ name \in Maybe
    /\ pid_master \in [Processes -> Maybe]
    /\ value \in [Processes -> {0, 1}]
    /\ pc \in [Processes -> Places]
    /\ shmid \in [Processes -> Maybe] /\ sem \in [Processes -> Maybe]
    /\ master \in [Processes -> BOOLEAN]
    /\ reused \subseteq Processes /\ faults \in 0..MaxFaults
    /\ contested \subseteq Processes

Up(p) == pc[p] \in UpPlaces

\* At most one mounted process takes itself for the master: no two see the same
\* master gone and both register, and none registers while one is mounted.  Two
\* masters may only be left where a mount met another mount or unmount halfway:
\* one created a segment that was there by then, or had it or the semaphore's
\* name removed under it.
OneMaster ==
    \A p, q \in Processes :
      Up(p) /\ Up(q) /\ master[p] /\ master[q] =>
        p = q \/ {shmid[p], shmid[q]} \cap contested # {}

\* "Only one FFmpegfs process will do the maintenance by becoming the master"
\* (ffmpegfs.1.txt:450), whenever they are mounted.
AlwaysOneMaster ==
    \A p, q \in Processes : Up(p) /\ Up(q) /\ master[p] /\ master[q] => p = q

\* Unmounting the last file system leaves no segment and no semaphore behind,
\* whoever that is and whoever mounts or unmounts meanwhile, unless a process
\* died or two met halfway: a segment that stayed would name a master that is
\* gone, and the next mount would be a client.
LeavesNothing ==
    contested = {} /\ (\A p \in Processes : pc[p] \in {"out", "gone"})
      => key = None /\ name = None

\* Why a mounted process may be left without a master for ever: the segment was
\* never claimed, its pid is that of some other program, or a process died
\* that held the semaphore.
Orphaned(p) == pid_master[shmid[p]] \in {None} \cup reused
Stuck(p)    == \E q \in Processes : pc[q] = "diedInspecting" /\ sem[q] = sem[p]

\* Somebody is mounted who could have a master, and there is none.
Abandoned ==
    /\ \E p \in Processes : Up(p) /\ ~Orphaned(p) /\ ~Stuck(p)
    /\ \A q \in Processes : ~(Up(q) /\ master[q])

\* "If that process exits, another will take over" (ffmpegfs.1.txt:450): however a
\* master ends, its clients' timers find out and one of them registers.
MasterReturns == []<>~Abandoned

-----------------------------------------------------------------------------
Proceed(p) ==
    \/ Create(p) \/ Attach(p) \/ Claim(p) \/ Open(p)
    \/ Tick(p) \/ Wait(p) \/ Look(p) \/ Take(p) \/ Post(p)
    \/ Stat(p) \/ Remove(p) \/ Unlink(p) \/ Exit(p)

Happens(p) == LinkUp(p) \/ OpenFails(p) \/ LinkDown(p) \/ Crash(p) \/ Reuse(p)

Next == \E p \in Processes : Proceed(p) \/ Happens(p)

Spec == Init /\ [][Next]_vars

\* Processes run and timers fire.  Whoever keeps another from the semaphore
\* looks for the master as well.
Fairness == \A p \in Processes : WF_vars(Proceed(p))

FairSpec == Spec /\ Fairness
=============================================================================
