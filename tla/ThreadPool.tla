----------------------------- MODULE ThreadPool -----------------------------
(***************************************************************************)
(* The thread pool (src/src/thread_pool.cc).  Threads wait for jobs on the *)
(* condition variable m_queue_cond; schedule_thread pushes a job under     *)
(* m_queue_mutex and notifies one of them after giving the mutex back;     *)
(* tear_down sets the shutdown flag and notifies all.  What is done under  *)
(* the mutex is one step; the predicate of the wait is evaluated under it, *)
(* so falling asleep belongs to the step that found nothing to do.         *)
(***************************************************************************)
EXTENDS Naturals, Sequences, FiniteSets

CONSTANTS
    Threads,    \* the threads init() creates
    Jobs,       \* functions that may be scheduled, one call at a time each
    NoJob       \* what a thread without a job runs

ASSUME PoolAssumption ==
    /\ IsFiniteSet(Threads) /\ Threads # {}
    /\ IsFiniteSet(Jobs)
    /\ NoJob \notin Jobs

VARIABLES
    queue,      \* m_thread_queue
    shutdown,   \* m_queue_shutdown
    tpc,        \* where each thread is in loop_function
    job,        \* the function each thread runs
    spc,        \* where the caller of schedule_thread(j) is
    tear        \* where tear_down is

vars == <<queue, shutdown, tpc, job, spc, tear>>

Asleep  == {t \in Threads : tpc[t] = "asleep"}
Ready   == {t \in Threads : tpc[t] = "ready"}
Busy    == {t \in Threads : tpc[t] = "run"}
Running == {job[t] : t \in Busy}
Queued  == {queue[k] : k \in DOMAIN queue}
Pending == {j \in Jobs : spc[j] = "notify"}

TypeOK ==
    /\ queue \in Seq(Jobs)
    /\ shutdown \in BOOLEAN
    /\ tpc \in [Threads -> {"unborn", "ready", "asleep", "run", "gone"}]
    /\ job \in [Threads -> Jobs \cup {NoJob}]
    /\ spc \in [Jobs -> {"out", "push", "notify"}]
    /\ tear \in {"no", "flag", "join", "done"}

Init ==
    /\ queue = <<>>
    /\ shutdown = FALSE
    /\ tpc = [t \in Threads |-> "unborn"]
    /\ job = [t \in Threads |-> NoJob]
    /\ spc = [j \in Jobs |-> "out"]
    /\ tear = "no"

-----------------------------------------------------------------------------
(* init and loop_function *)

Move(t, from, to) == tpc[t] = from /\ tpc' = [tpc EXCEPT ![t] = to]

Create(t) ==
    /\ Move(t, "unborn", "ready")
    /\ UNCHANGED <<queue, shutdown, job, spc, tear>>

Sleep(t) ==
    /\ Move(t, "ready", "asleep")
    /\ queue = <<>> /\ ~shutdown
    /\ UNCHANGED <<queue, shutdown, job, spc, tear>>

\* The oldest job.  Mutant: the youngest.
TakeLast(t) ==
    /\ Move(t, "ready", "run")
    /\ queue # <<>> /\ ~shutdown
    /\ job' = [job EXCEPT ![t] = queue[Len(queue)]]
    /\ queue' = SubSeq(queue, 1, Len(queue) - 1)
    /\ UNCHANGED <<shutdown, spc, tear>>
Take(t) ==
    /\ Move(t, "ready", "run")
    /\ queue # <<>> /\ ~shutdown
    /\ job' = [job EXCEPT ![t] = Head(queue)]
    /\ queue' = Tail(queue)
    /\ UNCHANGED <<shutdown, spc, tear>>

Quit(t) ==
    /\ Move(t, "ready", "gone")
    /\ shutdown
    /\ UNCHANGED <<queue, shutdown, job, spc, tear>>

\* info() returns.
Return(t) ==
    /\ Move(t, "run", "ready")
    /\ job' = [job EXCEPT ![t] = NoJob]
    /\ UNCHANGED <<queue, shutdown, spc, tear>>

\* A condition variable may wake up without reason.
WakeUp(t) ==
    /\ Move(t, "asleep", "ready")
    /\ UNCHANGED <<queue, shutdown, job, spc, tear>>

-----------------------------------------------------------------------------
(* schedule_thread: a look at the flag without the mutex, push, notify_one.  *)
(* The pool exists once init() has returned; a job that was scheduled is     *)
(* scheduled again only after it has returned.                               *)

Look(j) ==
    /\ spc[j] = "out" /\ spc' = [spc EXCEPT ![j] = "push"]
    /\ ~shutdown
    /\ \A t \in Threads : tpc[t] # "unborn"
    /\ j \notin Queued \cup Running
    /\ UNCHANGED <<queue, shutdown, tpc, job, tear>>

Push(j) ==
    /\ spc[j] = "push" /\ spc' = [spc EXCEPT ![j] = "notify"]
    /\ queue' = Append(queue, j)
    /\ UNCHANGED <<shutdown, tpc, job, tear>>

\* Mutant: nobody is notified.
NotifyNone(j) ==
    /\ spc[j] = "notify" /\ spc' = [spc EXCEPT ![j] = "out"]
    /\ UNCHANGED <<queue, shutdown, tpc, job, tear>>
NotifyOne(j) ==
    /\ spc[j] = "notify" /\ spc' = [spc EXCEPT ![j] = "out"]
    /\ \/ Asleep = {} /\ UNCHANGED tpc
       \/ \E t \in Asleep : tpc' = [tpc EXCEPT ![t] = "ready"]
    /\ UNCHANGED <<queue, shutdown, job, tear>>

-----------------------------------------------------------------------------
(* tear_down: set the flag, notify_all, join every thread. *)

RaiseFlag ==
    /\ tear = "no" /\ tear' = "flag"
    /\ \A t \in Threads : tpc[t] # "unborn"
    /\ shutdown' = TRUE
    /\ UNCHANGED <<queue, tpc, job, spc>>

\* Mutant: notify_one.
NotifyAny ==
    /\ tear = "flag" /\ tear' = "join"
    /\ \/ Asleep = {} /\ UNCHANGED tpc
       \/ \E t \in Asleep : tpc' = [tpc EXCEPT ![t] = "ready"]
    /\ UNCHANGED <<queue, shutdown, job, spc>>
NotifyAll ==
    /\ tear = "flag" /\ tear' = "join"
    /\ tpc' = [t \in Threads |-> IF tpc[t] = "asleep" THEN "ready" ELSE tpc[t]]
    /\ UNCHANGED <<queue, shutdown, job, spc>>

Join ==
    /\ tear = "join" /\ tear' = "done"
    /\ \A t \in Threads : tpc[t] = "gone"
    /\ UNCHANGED <<queue, shutdown, tpc, job, spc>>

Loop(t) == Create(t) \/ Sleep(t) \/ Take(t) \/ Quit(t) \/ Return(t)
Call(j) == Push(j) \/ NotifyOne(j)

Next ==
    \/ \E t \in Threads : Loop(t) \/ WakeUp(t)
    \/ \E j \in Jobs : Look(j) \/ Call(j)
    \/ RaiseFlag \/ NotifyAll \/ Join

Spec == Init /\ [][Next]_vars

\* Threads run, jobs return (Transcode!WorkersEnd), and calls once begun are
\* finished; nobody has to schedule a job or to tear the pool down.
Fairness ==
    /\ \A t \in Threads : WF_vars(Loop(t))
    /\ \A j \in Jobs : WF_vars(Call(j))
    /\ WF_vars(NotifyAll) /\ WF_vars(Join)

FairSpec == Spec /\ Fairness

-----------------------------------------------------------------------------
(* Properties. *)

\* No job waits for ever because every thread that could take it is asleep:
\* while threads sleep, each job in the queue has a thread already on its way
\* to look at the queue, or a notification still to come.
NoLostJob ==
    ~shutdown /\ Asleep # {} =>
        Len(queue) <= Cardinality(Ready) + Cardinality(Pending)

\* After the notification of tear_down nobody is left asleep, so that the
\* join cannot block on a waiting thread.
NoSleeperJoined == tear \in {"join", "done"} => Asleep = {}

\* A job is in the queue or with one thread, at most once.
JobOnce ==
    /\ \A k, m \in DOMAIN queue : queue[k] = queue[m] => k = m
    /\ \A t, u \in Busy : job[t] = job[u] => t = u
    /\ Queued \cap Running = {}

\* tear_down returns.
TearDownEnds == tear = "flag" ~> tear = "done"

\* The pool does what start_transcoder_thread relies on.
Abstract == INSTANCE JobQueue
              WITH running <- Running, down <- shutdown,
                   Slots <- Cardinality(Threads)

ImplementsJobQueue     == Abstract!Spec
ImplementsFairJobQueue == Abstract!FairSpec
=============================================================================
