-------------------------- MODULE ThreadPool_proofs --------------------------
(***************************************************************************)
(* What the thread pool guarantees for every number of threads and jobs:   *)
(* no job is stranded by a lost notification, no job runs twice, and the   *)
(* pool implements the queue of JobQueue.                                  *)
(***************************************************************************)
EXTENDS ThreadPool, FiniteSetTheorems, SequenceTheorems, TLAPS

-----------------------------------------------------------------------------
(* Sequences without duplicates. *)

Elements(s) == {s[k] : k \in DOMAIN s}
Distinct(s) == \A k, m \in DOMAIN s : s[k] = s[m] => k = m

\* Appending a new element keeps a sequence free of duplicates.
LEMMA AppendDistinct ==
    ASSUME NEW S, NEW s \in Seq(S), NEW e \in S, Distinct(s), e \notin Elements(s)
    PROVE  /\ Append(s, e) \in Seq(S)
           /\ Distinct(Append(s, e))
           /\ Elements(Append(s, e)) = Elements(s) \cup {e}
<1> DEFINE a == Append(s, e)
<1>1. /\ a \in Seq(S) /\ Len(a) = Len(s) + 1
      /\ \A i \in 1..Len(s) : a[i] = s[i]
      /\ a[Len(s) + 1] = e
  BY AppendProperties
<1>2. /\ DOMAIN s = 1..Len(s) /\ DOMAIN a = 1..Len(s) + 1 /\ Len(s) \in Nat
  BY <1>1, LenProperties
<1>3. \A i \in DOMAIN a : i \in DOMAIN s \/ i = Len(s) + 1
  BY <1>2
<1>4. Distinct(a)
  BY <1>1, <1>2, <1>3 DEF Distinct, Elements
<1>5. Elements(a) = Elements(s) \cup {e}
  BY <1>1, <1>2, <1>3 DEF Elements
<1> QED  BY <1>1, <1>4, <1>5

\* Taking the head off a sequence without duplicates takes it out altogether.
LEMMA TailDistinct ==
    ASSUME NEW S, NEW s \in Seq(S), s # <<>>, Distinct(s)
    PROVE  /\ Tail(s) \in Seq(S) /\ Head(s) \in S
           /\ Distinct(Tail(s))
           /\ Head(s) \in Elements(s)
           /\ Elements(Tail(s)) = Elements(s) \ {Head(s)}
<1> DEFINE t == Tail(s)
<1>1. /\ t \in Seq(S) /\ Head(s) \in S /\ Len(t) = Len(s) - 1
      /\ \A i \in 1..Len(t) : t[i] = s[i + 1]
  BY HeadTailProperties
<1>2. /\ Len(s) \in Nat \ {0} /\ DOMAIN s = 1..Len(s)
      /\ DOMAIN t = 1..Len(s) - 1 /\ Head(s) = s[1]
  BY <1>1, LenProperties, EmptySeq
<1>3. Distinct(t)
  <2> SUFFICES ASSUME NEW k \in DOMAIN t, NEW m \in DOMAIN t, t[k] = t[m]
               PROVE  k = m
    BY DEF Distinct
  <2>1. k + 1 \in DOMAIN s /\ m + 1 \in DOMAIN s /\ s[k + 1] = s[m + 1]
    BY <1>1, <1>2
  <2> QED  BY <2>1, <1>2 DEF Distinct
<1>4. Head(s) \in Elements(s)
  BY <1>2 DEF Elements
<1>5. Elements(t) \subseteq Elements(s) \ {Head(s)}
  <2> SUFFICES ASSUME NEW k \in DOMAIN t
               PROVE  t[k] \in Elements(s) /\ t[k] # Head(s)
    BY DEF Elements
  <2>1. k + 1 \in DOMAIN s /\ t[k] = s[k + 1] /\ 1 \in DOMAIN s /\ k + 1 # 1
    BY <1>1, <1>2
  <2> QED  BY <2>1, <1>2 DEF Elements, Distinct
<1>6. Elements(s) \ {Head(s)} \subseteq Elements(t)
  <2> SUFFICES ASSUME NEW k \in DOMAIN s, s[k] # Head(s)
               PROVE  s[k] \in Elements(t)
    BY DEF Elements
  <2>1. k - 1 \in DOMAIN t /\ t[k - 1] = s[k]
    BY <1>1, <1>2
  <2> QED  BY <2>1 DEF Elements
<1> QED  BY <1>1, <1>3, <1>4, <1>5, <1>6

-----------------------------------------------------------------------------
(* The inductive invariant: types, no job twice, and what tear_down did. *)

\* A caller that has passed the look at the flag holds a job nobody else has,
\* and every thread that runs, runs a job.
Tidy ==
    /\ \A j \in Jobs : spc[j] = "push" => j \notin Queued \cup Running
    /\ \A t \in Busy : job[t] \in Jobs
    /\ tear # "no" => shutdown

Inv == TypeOK /\ Tidy /\ JobOnce

\* The initial state satisfies the invariant.
LEMMA InitInv == Init => Inv
<1> SUFFICES ASSUME Init PROVE Inv
  OBVIOUS
<1>1. queue \in Seq(Jobs) /\ DOMAIN queue = {}
  BY DEF Init
<1>2. Busy = {}
  BY DEF Init, Busy
<1>3. Queued = {} /\ Running = {}
  BY <1>1, <1>2 DEF Queued, Running
<1>4. TypeOK
  BY <1>1 DEF Init, TypeOK
<1>5. Tidy /\ JobOnce
  BY <1>1, <1>2, <1>3 DEF Init, Tidy, JobOnce
<1> QED  BY <1>4, <1>5 DEF Inv

\* Every step preserves it; the cases that matter are Take, which moves a job
\* from the queue to a thread, Return, and Push.
LEMMA NextInv == Inv /\ [Next]_vars => Inv'
<1> SUFFICES ASSUME Inv, [Next]_vars PROVE Inv'
  OBVIOUS
<1> USE DEF Inv
<1> DEFINE Same == UNCHANGED <<queue, job, Busy>>
<1>0. queue \in Seq(Jobs) /\ Distinct(queue) /\ Queued = Elements(queue)
  BY DEF TypeOK, JobOnce, Distinct, Queued, Elements
<1>S. ASSUME Same, TypeOK', (tear # "no" => shutdown)',
             \A j \in Jobs : spc'[j] = "push" => j \notin Queued \cup Running
      PROVE  Inv'
  BY <1>S DEF Tidy, JobOnce, Queued, Running
<1>1. ASSUME NEW t \in Threads, Create(t) PROVE Inv'
  <2>1. TypeOK' /\ Same BY <1>1 DEF Create, Move, TypeOK, Busy
  <2> QED  BY <1>1, <2>1, <1>S DEF Create, Tidy
<1>2. ASSUME NEW t \in Threads, Sleep(t) PROVE Inv'
  <2>1. TypeOK' /\ Same BY <1>2 DEF Sleep, Move, TypeOK, Busy
  <2> QED  BY <1>2, <2>1, <1>S DEF Sleep, Tidy
<1>3. ASSUME NEW t \in Threads, Take(t) PROVE Inv'
  <2> DEFINE h == Head(queue)
  <2>1. /\ queue' \in Seq(Jobs) /\ h \in Jobs
        /\ Distinct(queue') /\ h \in Queued
        /\ Elements(queue') = Queued \ {h}
    BY <1>0, <1>3, TailDistinct DEF Take
  <2>2. /\ Busy' = Busy \cup {t} /\ t \notin Busy
        /\ job'[t] = h /\ \A u \in Busy : job'[u] = job[u]
    BY <1>3 DEF Take, Move, Busy, TypeOK
  <2>3. Running' = Running \cup {h} /\ Queued' = Queued \ {h}
    BY <2>1, <2>2 DEF Running, Queued, Elements
  <2>4. h \notin Running
    BY <2>1 DEF JobOnce
  <2>5. TypeOK'
    BY <1>3, <2>1 DEF Take, Move, TypeOK
  <2>6. Tidy'
    <3>1. \A j \in Jobs : spc'[j] = "push" => j \notin Queued' \cup Running'
      BY <1>3, <2>1, <2>3 DEF Take, Tidy
    <3>2. \A u \in Busy' : job'[u] \in Jobs
      BY <2>1, <2>2 DEF Tidy
    <3> QED  BY <1>3, <3>1, <3>2 DEF Take, Tidy
  <2>7. \A u, v \in Busy' : job'[u] = job'[v] => u = v
    BY <2>2, <2>4 DEF JobOnce, Running
  <2>8. JobOnce'
    BY <2>1, <2>3, <2>4, <2>7 DEF JobOnce, Distinct
  <2> QED  BY <2>5, <2>6, <2>8
<1>4. ASSUME NEW t \in Threads, Quit(t) PROVE Inv'
  <2>1. TypeOK' /\ Same BY <1>4 DEF Quit, Move, TypeOK, Busy
  <2> QED  BY <1>4, <2>1, <1>S DEF Quit, Tidy
<1>5. ASSUME NEW t \in Threads, Return(t) PROVE Inv'
  <2>1. /\ Busy' = Busy \ {t}
        /\ \A u \in Busy' : job'[u] = job[u]
    BY <1>5 DEF Return, Move, Busy, TypeOK
  <2>2. Running' \subseteq Running /\ Queued' = Queued
    BY <1>5, <2>1 DEF Running, Queued, Return
  <2>3. TypeOK'
    BY <1>5 DEF Return, Move, TypeOK
  <2>4. Tidy'
    BY <1>5, <2>1, <2>2 DEF Return, Tidy
  <2>5. JobOnce'
    BY <1>5, <2>1, <2>2 DEF Return, JobOnce
  <2> QED  BY <2>3, <2>4, <2>5
<1>6. ASSUME NEW t \in Threads, WakeUp(t) PROVE Inv'
  <2>1. TypeOK' /\ Same BY <1>6 DEF WakeUp, Move, TypeOK, Busy
  <2> QED  BY <1>6, <2>1, <1>S DEF WakeUp, Tidy
<1>7. ASSUME NEW j \in Jobs, Look(j) PROVE Inv'
  <2>1. TypeOK' /\ Same BY <1>7 DEF Look, TypeOK, Busy
  <2>2. \A i \in Jobs : spc'[i] = "push" => i \notin Queued \cup Running
    BY <1>7 DEF Look, Tidy, TypeOK
  <2> QED  BY <1>7, <2>1, <2>2, <1>S DEF Look, Tidy
<1>8. ASSUME NEW j \in Jobs, Push(j) PROVE Inv'
  <2>1. j \notin Queued /\ j \notin Running
    BY <1>8 DEF Push, Tidy
  <2>2. /\ queue' \in Seq(Jobs) /\ Distinct(queue')
        /\ Elements(queue') = Queued \cup {j}
    BY <1>0, <1>8, <2>1, AppendDistinct DEF Push
  <2>3. Queued' = Queued \cup {j} /\ Busy' = Busy /\ Running' = Running
    BY <1>8, <2>2 DEF Queued, Elements, Push, Running, Busy
  <2>4. TypeOK'
    BY <1>8, <2>2 DEF Push, TypeOK
  <2>5. Tidy'
    BY <1>8, <2>3 DEF Push, Tidy, TypeOK
  <2>6. JobOnce'
    BY <1>8, <2>1, <2>2, <2>3 DEF Push, JobOnce, Distinct
  <2> QED  BY <2>4, <2>5, <2>6
<1>9. ASSUME NEW j \in Jobs, NotifyOne(j) PROVE Inv'
  <2>1. TypeOK' BY <1>9 DEF NotifyOne, TypeOK, Asleep
  <2>2. Same BY <1>9 DEF NotifyOne, TypeOK, Asleep, Busy
  <2>3. \A i \in Jobs : spc'[i] = "push" => spc[i] = "push"
    BY <1>9 DEF NotifyOne, TypeOK
  <2> QED  BY <1>9, <2>1, <2>2, <2>3, <1>S DEF NotifyOne, Tidy
<1>10. ASSUME RaiseFlag PROVE Inv'
  <2>1. TypeOK' /\ Same BY <1>10 DEF RaiseFlag, TypeOK, Busy
  <2> QED  BY <1>10, <2>1, <1>S DEF RaiseFlag, Tidy
<1>11. ASSUME NotifyAll PROVE Inv'
  <2>1. TypeOK' /\ Same BY <1>11 DEF NotifyAll, TypeOK, Busy
  <2> QED  BY <1>11, <2>1, <1>S DEF NotifyAll, Tidy
<1>12. ASSUME Join PROVE Inv'
  <2>1. TypeOK' /\ Same BY <1>12 DEF Join, TypeOK, Busy
  <2> QED  BY <1>12, <2>1, <1>S DEF Join, Tidy
<1>13. CASE UNCHANGED vars
  <2>1. TypeOK' /\ Same BY <1>13 DEF vars, TypeOK, Busy
  <2> QED  BY <1>13, <2>1, <1>S DEF vars, Tidy
<1> QED
  BY <1>1, <1>2, <1>3, <1>4, <1>5, <1>6, <1>7, <1>8, <1>9, <1>10, <1>11,
     <1>12, <1>13 DEF Next, Loop, Call

\* thread_pool.cc:70-71, 90: a job leaves the queue exactly once, for exactly
\* one thread, however the threads and the callers interleave.
THEOREM JobOnceHolds == Spec => [](TypeOK /\ JobOnce)
<1>1. Inv => TypeOK /\ JobOnce
  BY DEF Inv
<1> QED  BY InitInv, NextInv, <1>1, PTL DEF Spec
-----------------------------------------------------------------------------
(* Lost notifications. *)

\* The sets that NoLostJob counts are finite.
LEMMA Counted ==
    /\ IsFiniteSet(Ready) /\ IsFiniteSet(Pending) /\ IsFiniteSet(Busy)
    /\ Cardinality(Ready) \in Nat /\ Cardinality(Pending) \in Nat
<1>1. Ready \subseteq Threads /\ Pending \subseteq Jobs /\ Busy \subseteq Threads
  BY DEF Ready, Pending, Busy
<1> QED  BY <1>1, PoolAssumption, FS_Subset, FS_CardinalityType

\* Removing a job from the queue is paid for by the thread that took it, a
\* notification used up by the thread it woke.
LEMMA NextNoLostJob == Inv /\ NoLostJob /\ [Next]_vars => NoLostJob'
<1> SUFFICES ASSUME Inv, NoLostJob, [Next]_vars, ~shutdown', Asleep' # {}
             PROVE  Len(queue') <= Cardinality(Ready') + Cardinality(Pending')
  BY DEF NoLostJob
<1> DEFINE Goal == Len(queue') <= Cardinality(Ready') + Cardinality(Pending')
<1>0. /\ queue \in Seq(Jobs) /\ Len(queue) \in Nat
      /\ IsFiniteSet(Ready) /\ IsFiniteSet(Pending)
      /\ Cardinality(Ready) \in Nat /\ Cardinality(Pending) \in Nat
  BY Counted, LenProperties DEF Inv, TypeOK
<1>S. ASSUME Len(queue') = Len(queue), Pending' = Pending, ~shutdown,
             Asleep # {}, \/ Ready' = Ready
                          \/ \E t : t \notin Ready /\ Ready' = Ready \cup {t}
      PROVE  Goal
  <2>1. /\ Cardinality(Ready') \in Nat
        /\ Cardinality(Ready) <= Cardinality(Ready')
    <3>1. CASE Ready' = Ready
      BY <3>1, <1>0
    <3>2. ASSUME NEW t, t \notin Ready, Ready' = Ready \cup {t}
          PROVE  Cardinality(Ready') = Cardinality(Ready) + 1
      BY <3>2, <1>0, FS_AddElement
    <3> QED  BY <3>1, <3>2, <1>0, <1>S
  <2> QED  BY <1>0, <1>S, <2>1 DEF NoLostJob
<1>1. ASSUME NEW t \in Threads, Create(t) \/ Return(t) PROVE Goal
  <2>1. Ready' = Ready \cup {t} /\ t \notin Ready /\ Asleep' = Asleep
    BY <1>1 DEF Create, Return, Move, Ready, Asleep, Inv, TypeOK
  <2> QED  BY <1>1, <2>1, <1>S DEF Create, Return, Pending
<1>2. ASSUME NEW t \in Threads, Sleep(t) PROVE Goal
  <2>1. Ready' \subseteq Ready /\ Pending' = Pending /\ Len(queue') = 0
    BY <1>2, EmptySeq DEF Sleep, Move, Ready, Pending, Inv, TypeOK
  <2>2. Cardinality(Ready') \in Nat
    BY <1>0, <2>1, FS_Subset, FS_CardinalityType
  <2> QED  BY <1>0, <2>1, <2>2
<1>3. ASSUME NEW t \in Threads, Take(t) PROVE Goal
  <2>1. Ready' = Ready \ {t} /\ t \in Ready /\ Asleep' = Asleep
        /\ Pending' = Pending
    BY <1>3 DEF Take, Move, Ready, Asleep, Pending, Inv, TypeOK
  <2>2. Len(queue') = Len(queue) - 1
    BY <1>0, <1>3, HeadTailProperties DEF Take
  <2>3. Cardinality(Ready') = Cardinality(Ready) - 1
    BY <1>0, <2>1, FS_RemoveElement
  <2>4. Len(queue) <= Cardinality(Ready) + Cardinality(Pending)
    BY <1>3, <2>1 DEF NoLostJob, Take
  <2> QED  BY <1>0, <2>1, <2>2, <2>3, <2>4
<1>4. ASSUME NEW t \in Threads, Quit(t) PROVE Goal
  BY <1>4 DEF Quit
<1>5. ASSUME NEW t \in Threads, WakeUp(t) PROVE Goal
  <2>1. Ready' = Ready \cup {t} /\ t \notin Ready /\ Asleep # {}
    BY <1>5 DEF WakeUp, Move, Ready, Asleep, Inv, TypeOK
  <2> QED  BY <1>5, <2>1, <1>S DEF WakeUp, Pending
<1>6. ASSUME NEW j \in Jobs, Look(j) PROVE Goal
  <2>1. Ready' = Ready /\ Asleep' = Asleep /\ Pending' = Pending
    BY <1>6 DEF Look, Ready, Asleep, Pending, Inv, TypeOK
  <2> QED  BY <1>6, <2>1, <1>S DEF Look
<1>7. ASSUME NEW j \in Jobs, Push(j) PROVE Goal
  <2>1. /\ Pending' = Pending \cup {j} /\ j \notin Pending
        /\ Ready' = Ready /\ Asleep' = Asleep /\ ~shutdown
    BY <1>7 DEF Push, Pending, Ready, Asleep, Inv, TypeOK
  <2>2. Len(queue') = Len(queue) + 1
    BY <1>0, <1>7, AppendProperties DEF Push
  <2>3. Cardinality(Pending') = Cardinality(Pending) + 1
    BY <1>0, <2>1, FS_AddElement
  <2>4. Len(queue) <= Cardinality(Ready) + Cardinality(Pending)
    BY <2>1 DEF NoLostJob
  <2> QED  BY <1>0, <2>1, <2>2, <2>3, <2>4
<1>8. ASSUME NEW j \in Jobs, NotifyOne(j) PROVE Goal
  <2>1. Pending' = Pending \ {j} /\ j \in Pending /\ queue' = queue /\ ~shutdown
    BY <1>8 DEF NotifyOne, Pending, Inv, TypeOK
  <2>2. Cardinality(Pending') = Cardinality(Pending) - 1
    BY <1>0, <2>1, FS_RemoveElement
  <2>3. Asleep # {}
    BY <1>8 DEF NotifyOne, Asleep
  <2>4. PICK t \in Asleep : tpc' = [tpc EXCEPT ![t] = "ready"]
    BY <1>8, <2>3 DEF NotifyOne
  <2>5. Ready' = Ready \cup {t} /\ t \notin Ready
    BY <2>4 DEF Ready, Asleep, Inv, TypeOK
  <2>6. Cardinality(Ready') = Cardinality(Ready) + 1
    BY <1>0, <2>5, FS_AddElement
  <2>7. Len(queue) <= Cardinality(Ready) + Cardinality(Pending)
    BY <2>1, <2>3 DEF NoLostJob
  <2> QED  BY <1>0, <2>1, <2>2, <2>6, <2>7
<1>9. ASSUME RaiseFlag PROVE Goal
  BY <1>9 DEF RaiseFlag
<1>10. ASSUME NotifyAll PROVE Goal
  BY <1>10 DEF NotifyAll, Inv, Tidy
<1>11. ASSUME Join PROVE Goal
  BY <1>11 DEF Join, Inv, Tidy
<1>12. CASE UNCHANGED vars
  <2>1. Ready' = Ready /\ Asleep' = Asleep /\ Pending' = Pending
    BY <1>12 DEF vars, Ready, Asleep, Pending
  <2> QED  BY <1>12, <2>1, <1>S DEF vars
<1> QED
  BY <1>1, <1>2, <1>3, <1>4, <1>5, <1>6, <1>7, <1>8, <1>9, <1>10, <1>11,
     <1>12 DEF Next, Loop, Call

\* thread_pool.cc:65, 88-93: although notify_one comes after the mutex was
\* given back, no scheduled job is left behind with every thread asleep.
THEOREM NoLostJobHolds == Spec => []NoLostJob
<1>1. Init => NoLostJob
  BY DEF Init, NoLostJob, Asleep
<1>2. Inv /\ NoLostJob /\ [Next]_vars => Inv' /\ NoLostJob'
  BY NextInv, NextNoLostJob
<1> QED  BY InitInv, <1>1, <1>2, PTL DEF Spec

-----------------------------------------------------------------------------
(* The pool implements JobQueue. *)

\* A thread that takes a job finds at least itself free.
LEMMA FreeSlot ==
    ASSUME Inv, NEW t \in Threads, t \notin Busy
    PROVE  IsFiniteSet(Running) /\ Cardinality(Running) < Cardinality(Threads)
<1> DEFINE f == [u \in Busy |-> job[u]]
<1>1. IsFiniteSet(Busy) /\ Cardinality(Busy) \in Nat
  BY Counted, FS_CardinalityType
<1>2. f \in Surjection(Busy, Running)
  BY DEF Surjection, Running
<1>3. IsFiniteSet(Running) /\ Cardinality(Running) <= Cardinality(Busy)
  BY <1>1, <1>2, FS_Surjection
<1>4. Busy \subseteq Threads /\ Busy # Threads
  BY DEF Busy
<1>5. /\ Cardinality(Busy) <= Cardinality(Threads)
      /\ Cardinality(Busy) # Cardinality(Threads)
      /\ Cardinality(Threads) \in Nat
  BY <1>4, PoolAssumption, FS_Subset, FS_CardinalityType
<1>6. Cardinality(Running) \in Nat
  BY <1>3, FS_CardinalityType
<1> QED  BY <1>1, <1>3, <1>5, <1>6

\* Every step of the pool is a step of the queue or changes nothing in it.
LEMMA StepImplements == Inv /\ [Next]_vars => [Abstract!Next]_(Abstract!vars)
<1> SUFFICES ASSUME Inv, [Next]_vars PROVE [Abstract!Next]_(Abstract!vars)
  OBVIOUS
<1> DEFINE Step == [Abstract!Next]_(Abstract!vars)
<1>S. ASSUME UNCHANGED <<queue, job, Busy, shutdown>> PROVE Step
  BY <1>S DEF Abstract!vars, Running
<1>1. ASSUME NEW t \in Threads, Create(t) \/ Sleep(t) \/ Quit(t) \/ WakeUp(t)
      PROVE  Step
  <2>1. UNCHANGED <<queue, job, Busy, shutdown>>
    BY <1>1 DEF Create, Sleep, Quit, WakeUp, Move, Busy, Inv, TypeOK
  <2> QED  BY <2>1, <1>S
<1>2. ASSUME NEW t \in Threads, Take(t) PROVE Step
  <2>1. /\ Busy' = Busy \cup {t} /\ t \notin Busy
        /\ job'[t] = Head(queue) /\ \A u \in Busy : job'[u] = job[u]
    BY <1>2 DEF Take, Move, Busy, Inv, TypeOK
  <2>2. Running' = Running \cup {Head(queue)}
    BY <2>1 DEF Running
  <2>3. Cardinality(Running) < Cardinality(Threads)
    BY <2>1, FreeSlot
  <2>4. Abstract!Cardinality(Running) = Cardinality(Running)
    BY DEF Abstract!Cardinality, Cardinality
  <2>5. /\ ~shutdown /\ queue # <<>> /\ queue' = Tail(queue)
        /\ shutdown' = shutdown
    BY <1>2 DEF Take
  <2>6. Abstract!Start
    BY <2>2, <2>3, <2>4, <2>5 DEF Abstract!Start
  <2> QED  BY <2>6 DEF Abstract!Next
<1>3. ASSUME NEW t \in Threads, Return(t) PROVE Step
  <2>1. /\ Busy' = Busy \ {t} /\ t \in Busy
        /\ \A u \in Busy' : job'[u] = job[u]
    BY <1>3 DEF Return, Move, Busy, Inv, TypeOK
  <2>2. \A u \in Busy' : job[u] # job[t]
    BY <2>1 DEF Inv, JobOnce
  <2>3. Running' = Running \ {job[t]} /\ job[t] \in Running
    BY <2>1, <2>2 DEF Running
  <2>4. job[t] \in Jobs
    BY <2>1 DEF Inv, Tidy
  <2>5. Abstract!Return(job[t])
    BY <1>3, <2>3 DEF Abstract!Return, Return
  <2> QED  BY <2>4, <2>5 DEF Abstract!Next
<1>4. ASSUME NEW j \in Jobs, Push(j) PROVE Step
  <2>1. j \notin Abstract!Queued \cup Running
    BY <1>4 DEF Push, Inv, Tidy, Queued, Abstract!Queued
  <2>2. Running' = Running
    BY <1>4 DEF Push, Running, Busy
  <2>3. Abstract!Schedule(j)
    BY <1>4, <2>1, <2>2 DEF Abstract!Schedule, Push
  <2> QED  BY <2>3 DEF Abstract!Next
<1>5. ASSUME NEW j \in Jobs, Look(j) \/ NotifyOne(j) PROVE Step
  <2>1. UNCHANGED <<queue, job, Busy, shutdown>>
    BY <1>5 DEF Look, NotifyOne, Asleep, Busy, Inv, TypeOK
  <2> QED  BY <2>1, <1>S
<1>6. ASSUME RaiseFlag PROVE Step
  <2>1. Running' = Running
    BY <1>6 DEF RaiseFlag, Running, Busy
  <2>2. Abstract!ShutDown
    BY <1>6, <2>1 DEF RaiseFlag, Abstract!ShutDown
  <2> QED  BY <2>2 DEF Abstract!Next
<1>7. ASSUME NotifyAll \/ Join PROVE Step
  <2>1. UNCHANGED <<queue, job, Busy, shutdown>>
    BY <1>7 DEF NotifyAll, Join, Busy, Inv, TypeOK
  <2> QED  BY <2>1, <1>S
<1>8. CASE UNCHANGED vars
  <2>1. UNCHANGED <<queue, job, Busy, shutdown>>
    BY <1>8 DEF vars, Busy
  <2> QED  BY <2>1, <1>S
<1> QED
  BY <1>1, <1>2, <1>3, <1>4, <1>5, <1>6, <1>7, <1>8 DEF Next, Loop, Call

\* The thread pool keeps the promise that transcode.cc builds on: jobs start
\* in the order they were scheduled, at most one per thread at a time, and
\* none after the shutdown.
THEOREM PoolImplementsQueue == Spec => ImplementsJobQueue
<1>1. Init => Abstract!Init
  BY DEF Init, Abstract!Init, Running, Busy
<1> QED
  BY <1>1, InitInv, NextInv, StepImplements, PTL
  DEF Spec, ImplementsJobQueue, Abstract!Spec

\* thread_pool.cc:150-160: when tear_down starts to join, no thread is left
\* waiting on the condition variable.
THEOREM NoSleeperJoinedHolds == Spec => []NoSleeperJoined
<1>1. Init => NoSleeperJoined
  BY DEF Init, NoSleeperJoined
<1>2. Inv /\ NoSleeperJoined /\ [Next]_vars => NoSleeperJoined'
  <2> SUFFICES ASSUME Inv, NoSleeperJoined, [Next]_vars,
                      tear' \in {"join", "done"}
               PROVE  Asleep' = {}
    BY DEF NoSleeperJoined
  <2>1. CASE NotifyAll
    BY <2>1 DEF NotifyAll, Asleep
  <2>2. CASE ~NotifyAll
    <3>1. tear \in {"join", "done"} /\ shutdown
      BY <2>2 DEF Next, Loop, Call, vars, Create, Sleep, Take, Quit, Return,
         WakeUp, Look, Push, NotifyOne, RaiseFlag, Join, Inv, Tidy
    <3>2. Asleep = {}
      BY <3>1 DEF NoSleeperJoined
    <3>3. \A t \in Threads : tpc'[t] = "asleep" => tpc[t] = "asleep"
      BY <3>1, <3>2, <2>2 DEF Next, Loop, Call, vars, Create, Sleep, Take, Quit,
         Return, WakeUp, Look, Push, NotifyOne, RaiseFlag, Join, Move, Inv,
         TypeOK
    <3> QED  BY <3>2, <3>3 DEF Asleep
  <2> QED  BY <2>1, <2>2
<1> QED  BY InitInv, NextInv, <1>1, <1>2, PTL DEF Spec
=============================================================================
