------------------------------ MODULE JobQueue ------------------------------
(***************************************************************************)
(* What transcode.cc relies on when it hands a transcoder_thread to the    *)
(* thread pool (src/src/thread_pool.h): a job is started once per time it  *)
(* was scheduled, in the order of scheduling, by one of Slots threads, and *)
(* none is started once the pool was told to shut down.                    *)
(***************************************************************************)
EXTENDS Naturals, Sequences, FiniteSets

CONSTANTS
    Jobs,       \* functions that may be scheduled
    Slots       \* number of threads

VARIABLES
    queue,      \* jobs scheduled and not started
    running,    \* jobs started and not returned
    down        \* no job starts any more

vars == <<queue, running, down>>

Queued == {queue[k] : k \in DOMAIN queue}

Init == queue = <<>> /\ running = {} /\ down = FALSE

\* Scheduling never blocks, not even while the pool shuts down.
Schedule(j) ==
    /\ j \notin Queued \cup running
    /\ queue' = Append(queue, j)
    /\ UNCHANGED <<running, down>>

Start ==
    /\ ~down /\ queue # <<>>
    /\ Cardinality(running) < Slots
    /\ running' = running \cup {Head(queue)}
    /\ queue' = Tail(queue)
    /\ UNCHANGED down

Return(j) ==
    /\ j \in running
    /\ running' = running \ {j}
    /\ UNCHANGED <<queue, down>>

ShutDown ==
    /\ down' = TRUE
    /\ UNCHANGED <<queue, running>>

Next ==
    \/ \E j \in Jobs : Schedule(j) \/ Return(j)
    \/ Start
    \/ ShutDown

Spec == Init /\ [][Next]_vars

\* A free thread takes the oldest job.
FairSpec == Spec /\ WF_vars(Start)
=============================================================================
