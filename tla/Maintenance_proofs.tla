-------------------------- MODULE Maintenance_proofs --------------------------
(***************************************************************************)
(* For every number of processes, mounted and unmounted in any order: the  *)
(* semaphore excludes (Exclusive); on a segment that no two processes met  *)
(* on halfway there is one master (Linked); and the last one to unmount    *)
(* cleans up, unless there was such a meeting (Cleaner).                   *)
(***************************************************************************)
EXTENDS Maintenance, TLAPS

-----------------------------------------------------------------------------
(* The semaphore. *)

\* Nobody uses the semaphore of a process that has not opened one.
Fresh ==
    \A p \in Processes :
      pc[p] \in {"out", "create", "attach", "claim", "open"} =>
        name # p /\ \A q \in Processes : sem[q] # p

\* Who knows a segment knows one that was created, and a mounted process has a
\* semaphore.  Who looks for the master holds it.
Excludes ==
    /\ \A p \in Processes :
         pc[p] \in {"attach", "claim", "open", "stat", "remove"} \cup UpPlaces =>
           shmid[p] \in Processes
    /\ \A p \in Processes : Up(p) => sem[p] \in Processes
    /\ \A p \in Processes : pc[p] \in Inspecting => value[sem[p]] = 0
    /\ \A p, q \in Processes :
         pc[p] \in Inspecting /\ pc[q] \in Inspecting /\ sem[p] = sem[q] => p = q

Exclusive == TypeOK /\ Fresh /\ Excludes

-----------------------------------------------------------------------------
(* The link.  Nothing is said of contested segments. *)

\* The processes that have a segment attached, or are about to attach it.
Attached(p) == pc[p] \in {"claim", "open"} \cup UpPlaces
Joining(p)  == pc[p] = "attach" \/ Attached(p)

\* p has segment s, on which no two processes met halfway.
On(p, s) == Joining(p) /\ shmid[p] = s /\ s \notin contested

\* Nobody knows of the segment of a process that has not created one.
NewSegment ==
    \A p \in Processes : pc[p] \in {"out", "create"} =>
      /\ pid_master[p] = None /\ key # p /\ p \notin contested
      /\ \A q \in Processes : shmid[q] # p

\* Who has a segment attached has the one that is found by its key, and who is
\* mounted has the semaphore that is found by its name.
SameLink ==
    /\ \A p \in Processes : Attached(p) /\ shmid[p] \notin contested => shmid[p] = key
    /\ \A p \in Processes : Up(p) /\ shmid[p] \notin contested => sem[p] = name

\* A segment has one master, and holds its pid once that has claimed it.
OneEach ==
    /\ \A p \in Processes : pc[p] = "out" => ~master[p]
    /\ \A p, q \in Processes, s \in Processes :
         On(p, s) /\ On(q, s) /\ master[p] /\ master[q] => p = q
    /\ \A p, s \in Processes :
         On(p, s) /\ master[p] =>
           pid_master[s] = IF pc[p] \in {"attach", "claim"} THEN None ELSE p

\* Who is about to take the place of the master has seen that there is none.
Vacant ==
    \A p, q, s \in Processes : pc[p] = "take" /\ On(p, s) /\ On(q, s) => ~master[q]

Linked == NewSegment /\ SameLink /\ OneEach /\ Vacant

\* While there is a segment somebody is left to remove it, and with it the name of
\* the semaphore.
Smooth == contested = {} /\ \A p \in Processes : pc[p] \notin {"dead", "diedInspecting"}
Cleaner ==
    Smooth =>
      /\ key # None =>
           \E p \in Processes : shmid[p] = key /\ (Joining(p) \/ pc[p] \in {"stat", "remove"})
      /\ name # None => key # None \/ \E p \in Processes : pc[p] = "unlink"

-----------------------------------------------------------------------------
(* The semaphore excludes. *)

LEMMA ExclusiveInit == Init => Exclusive
  BY ProcessesAssumption
     DEF Init, Exclusive, TypeOK, Fresh, Excludes, Up, Linking, Inspecting,
         UpPlaces, Ended, Places, Maybe

LEMMA ExclusiveNext == Exclusive /\ [Next]_vars => Exclusive'
<1> SUFFICES ASSUME Exclusive, [Next]_vars PROVE Exclusive'
  OBVIOUS
<1> USE ProcessesAssumption
    DEF Exclusive, TypeOK, Fresh, Excludes, Up, Linking, Inspecting, UpPlaces,
        Ended, Places, Maybe, Goto, shared, process, world
<1>1. CASE UNCHANGED vars
  BY <1>1 DEF vars
<1>2. ASSUME NEW p \in Processes, LinkUp(p) PROVE Exclusive'
  BY <1>2 DEF LinkUp
<1>3. ASSUME NEW p \in Processes, Create(p) PROVE Exclusive'
  BY <1>3 DEF Create
<1>4. ASSUME NEW p \in Processes, Attach(p) PROVE Exclusive'
  BY <1>4 DEF Attach
<1>5. ASSUME NEW p \in Processes, Claim(p) PROVE Exclusive'
  BY <1>5 DEF Claim
<1>6. ASSUME NEW p \in Processes, Open(p) PROVE Exclusive'
  BY <1>6 DEF Open
<1>7. ASSUME NEW p \in Processes, OpenFails(p) PROVE Exclusive'
  BY <1>7 DEF OpenFails
<1>8. ASSUME NEW p \in Processes, Tick(p) PROVE Exclusive'
  BY <1>8 DEF Tick
<1>9. ASSUME NEW p \in Processes, Wait(p) PROVE Exclusive'
  BY <1>9 DEF Wait
<1>10. ASSUME NEW p \in Processes, Look(p) PROVE Exclusive'
  BY <1>10 DEF Look
<1>11. ASSUME NEW p \in Processes, Take(p) PROVE Exclusive'
  BY <1>11 DEF Take
<1>12. ASSUME NEW p \in Processes, Post(p) PROVE Exclusive'
  BY <1>12 DEF Post
<1>13. ASSUME NEW p \in Processes, LinkDown(p) PROVE Exclusive'
  BY <1>13 DEF LinkDown
<1>14. ASSUME NEW p \in Processes, Stat(p) PROVE Exclusive'
  BY <1>14 DEF Stat
<1>15. ASSUME NEW p \in Processes, Remove(p) PROVE Exclusive'
  BY <1>15 DEF Remove
<1>16. ASSUME NEW p \in Processes, Unlink(p) PROVE Exclusive'
  BY <1>16 DEF Unlink
<1>17. ASSUME NEW p \in Processes, Exit(p) PROVE Exclusive'
  BY <1>17 DEF Exit
<1>18. ASSUME NEW p \in Processes, Crash(p) PROVE Exclusive'
  BY <1>18 DEF Crash
<1>19. ASSUME NEW p \in Processes, Reuse(p) PROVE Exclusive'
  BY <1>19 DEF Reuse
<1> QED
  BY <1>1, <1>2, <1>3, <1>4, <1>5, <1>6, <1>7, <1>8, <1>9, <1>10, <1>11,
     <1>12, <1>13, <1>14, <1>15, <1>16, <1>17, <1>18, <1>19
     DEF Next, Proceed, Happens

\* Every variable keeps its type: no semaphore is ever posted twice, because
\* only who took it gives it back, even when its name was removed meanwhile.
THEOREM TypeHolds == Spec => []TypeOK
<1>1. Exclusive => TypeOK
  BY DEF Exclusive
<1> QED
  BY <1>1, ExclusiveInit, ExclusiveNext, PTL DEF Spec

-----------------------------------------------------------------------------
(* Uncontested segments. *)

LEMMA LinkedInit == Init => Linked
  BY ProcessesAssumption
     DEF Init, Linked, NewSegment, SameLink, OneEach, Vacant, Attached, Joining, On, Up,
         UpPlaces, Inspecting

LEMMA LinkedNext == ASSUME Exclusive, Linked, [Next]_vars PROVE Linked'
<1> USE ProcessesAssumption
    DEF Linked, Attached, Joining, On, Exclusive, TypeOK, Up, Linking, Inspecting,
        UpPlaces, Ended, Places, Maybe, Goto, shared, process, world
<1>1. CASE UNCHANGED vars
  BY <1>1 DEF vars, NewSegment, SameLink, OneEach, Vacant
<1>2. ASSUME NEW p \in Processes, LinkUp(p) PROVE Linked'
  <2>1. NewSegment'
    BY <1>2 DEF NewSegment, SameLink, Excludes, LinkUp
  <2>2. SameLink'
    BY <1>2 DEF NewSegment, SameLink, Excludes, LinkUp
  <2>3. OneEach'
    BY <1>2 DEF NewSegment, SameLink, Excludes, OneEach, Vacant, LinkUp
  <2>4. Vacant'
    BY <1>2 DEF NewSegment, SameLink, Excludes, OneEach, Vacant, LinkUp
  <2> QED
    BY <2>1, <2>2, <2>3, <2>4
<1>3. ASSUME NEW p \in Processes, Create(p) PROVE Linked'
  <2>1. NewSegment'
    BY <1>3 DEF NewSegment, SameLink, Excludes, Create
  <2>2. SameLink'
    BY <1>3 DEF NewSegment, SameLink, Excludes, Create
  <2>3. OneEach'
    BY <1>3 DEF NewSegment, SameLink, Excludes, OneEach, Vacant, Create
  <2>4. Vacant'
    BY <1>3 DEF NewSegment, SameLink, Excludes, OneEach, Vacant, Create
  <2> QED
    BY <2>1, <2>2, <2>3, <2>4
<1>4. ASSUME NEW p \in Processes, Attach(p) PROVE Linked'
  <2>1. NewSegment'
    BY <1>4 DEF NewSegment, SameLink, Excludes, Attach, Exists, Users
  <2>2. SameLink'
    BY <1>4 DEF NewSegment, SameLink, Excludes, Attach, Exists, Users
  <2>3. OneEach'
    BY <1>4 DEF NewSegment, SameLink, Excludes, OneEach, Vacant, Attach, Exists, Users
  <2>4. Vacant'
    BY <1>4 DEF NewSegment, SameLink, Excludes, OneEach, Vacant, Attach, Exists, Users
  <2> QED
    BY <2>1, <2>2, <2>3, <2>4
<1>5. ASSUME NEW p \in Processes, Claim(p) PROVE Linked'
  <2>1. NewSegment'
    BY <1>5 DEF NewSegment, SameLink, Excludes, Claim
  <2>2. SameLink'
    BY <1>5 DEF NewSegment, SameLink, Excludes, Claim
  <2>3. OneEach'
    BY <1>5 DEF NewSegment, SameLink, Excludes, OneEach, Vacant, Claim
  <2>4. Vacant'
    BY <1>5 DEF NewSegment, SameLink, Excludes, OneEach, Vacant, Claim
  <2> QED
    BY <2>1, <2>2, <2>3, <2>4
<1>6. ASSUME NEW p \in Processes, Open(p) PROVE Linked'
  <2>1. NewSegment'
    BY <1>6 DEF NewSegment, SameLink, Excludes, Open
  <2>2. SameLink'
    BY <1>6 DEF NewSegment, SameLink, Excludes, Open
  <2>3. OneEach'
    BY <1>6 DEF NewSegment, SameLink, Excludes, OneEach, Vacant, Open
  <2>4. Vacant'
    BY <1>6 DEF NewSegment, SameLink, Excludes, OneEach, Vacant, Open
  <2> QED
    BY <2>1, <2>2, <2>3, <2>4
<1>7. ASSUME NEW p \in Processes, OpenFails(p) PROVE Linked'
  <2>1. NewSegment'
    BY <1>7 DEF NewSegment, SameLink, Excludes, OpenFails
  <2>2. SameLink'
    BY <1>7 DEF NewSegment, SameLink, Excludes, OpenFails
  <2>3. OneEach'
    BY <1>7 DEF NewSegment, SameLink, Excludes, OneEach, Vacant, OpenFails
  <2>4. Vacant'
    BY <1>7 DEF NewSegment, SameLink, Excludes, OneEach, Vacant, OpenFails
  <2> QED
    BY <2>1, <2>2, <2>3, <2>4
<1>8. ASSUME NEW p \in Processes, Tick(p) PROVE Linked'
  <2>1. NewSegment'
    BY <1>8 DEF NewSegment, SameLink, Excludes, Tick
  <2>2. SameLink'
    BY <1>8 DEF NewSegment, SameLink, Excludes, Tick
  <2>3. OneEach'
    BY <1>8 DEF NewSegment, SameLink, Excludes, OneEach, Vacant, Tick
  <2>4. Vacant'
    BY <1>8 DEF NewSegment, SameLink, Excludes, OneEach, Vacant, Tick
  <2> QED
    BY <2>1, <2>2, <2>3, <2>4
<1>9. ASSUME NEW p \in Processes, Wait(p) PROVE Linked'
  <2>1. NewSegment'
    BY <1>9 DEF NewSegment, SameLink, Excludes, Wait
  <2>2. SameLink'
    BY <1>9 DEF NewSegment, SameLink, Excludes, Wait
  <2>3. OneEach'
    BY <1>9 DEF NewSegment, SameLink, Excludes, OneEach, Vacant, Wait
  <2>4. Vacant'
    BY <1>9 DEF NewSegment, SameLink, Excludes, OneEach, Vacant, Wait
  <2> QED
    BY <2>1, <2>2, <2>3, <2>4
<1>10. ASSUME NEW p \in Processes, Look(p) PROVE Linked'
  <2>1. NewSegment'
    BY <1>10 DEF NewSegment, SameLink, Excludes, Look, Running
  <2>2. SameLink'
    BY <1>10 DEF NewSegment, SameLink, Excludes, Look, Running
  <2>3. OneEach'
    BY <1>10 DEF NewSegment, SameLink, Excludes, OneEach, Vacant, Look, Running
  <2>4. Vacant'
    BY <1>10 DEF NewSegment, SameLink, Excludes, OneEach, Vacant, Look, Running
  <2> QED
    BY <2>1, <2>2, <2>3, <2>4
<1>11. ASSUME NEW p \in Processes, Take(p) PROVE Linked'
  <2>1. NewSegment'
    BY <1>11 DEF NewSegment, SameLink, Excludes, Take
  <2>2. SameLink'
    BY <1>11 DEF NewSegment, SameLink, Excludes, Take
  <2>3. OneEach'
    BY <1>11 DEF NewSegment, SameLink, Excludes, OneEach, Vacant, Take
  <2>4. Vacant'
    BY <1>11 DEF NewSegment, SameLink, Excludes, OneEach, Vacant, Take
  <2> QED
    BY <2>1, <2>2, <2>3, <2>4
<1>12. ASSUME NEW p \in Processes, Post(p) PROVE Linked'
  <2>1. NewSegment'
    BY <1>12 DEF NewSegment, SameLink, Excludes, Post
  <2>2. SameLink'
    BY <1>12 DEF NewSegment, SameLink, Excludes, Post
  <2>3. OneEach'
    BY <1>12 DEF NewSegment, SameLink, Excludes, OneEach, Vacant, Post
  <2>4. Vacant'
    BY <1>12 DEF NewSegment, SameLink, Excludes, OneEach, Vacant, Post
  <2> QED
    BY <2>1, <2>2, <2>3, <2>4
<1>13. ASSUME NEW p \in Processes, LinkDown(p) PROVE Linked'
  <2>1. NewSegment'
    BY <1>13 DEF NewSegment, SameLink, Excludes, LinkDown
  <2>2. SameLink'
    BY <1>13 DEF NewSegment, SameLink, Excludes, LinkDown
  <2>3. OneEach'
    BY <1>13 DEF NewSegment, SameLink, Excludes, OneEach, Vacant, LinkDown
  <2>4. Vacant'
    BY <1>13 DEF NewSegment, SameLink, Excludes, OneEach, Vacant, LinkDown
  <2> QED
    BY <2>1, <2>2, <2>3, <2>4
<1>14. ASSUME NEW p \in Processes, Stat(p) PROVE Linked'
  <2>1. NewSegment'
    BY <1>14 DEF NewSegment, SameLink, Excludes, Stat, Users
  <2>2. SameLink'
    BY <1>14 DEF NewSegment, SameLink, Excludes, Stat, Users
  <2>3. OneEach'
    BY <1>14 DEF NewSegment, SameLink, Excludes, OneEach, Vacant, Stat, Users
  <2>4. Vacant'
    BY <1>14 DEF NewSegment, SameLink, Excludes, OneEach, Vacant, Stat, Users
  <2> QED
    BY <2>1, <2>2, <2>3, <2>4
<1>15. ASSUME NEW p \in Processes, Remove(p) PROVE Linked'
  <2>1. NewSegment'
    BY <1>15 DEF NewSegment, SameLink, Excludes, Remove, Users
  <2>2. SameLink'
    BY <1>15 DEF NewSegment, SameLink, Excludes, Remove, Users
  <2>3. OneEach'
    BY <1>15 DEF NewSegment, SameLink, Excludes, OneEach, Vacant, Remove, Users
  <2>4. Vacant'
    BY <1>15 DEF NewSegment, SameLink, Excludes, OneEach, Vacant, Remove, Users
  <2> QED
    BY <2>1, <2>2, <2>3, <2>4
<1>16. ASSUME NEW p \in Processes, Unlink(p) PROVE Linked'
  <2>1. NewSegment'
    BY <1>16 DEF NewSegment, SameLink, Excludes, Unlink
  <2>2. SameLink'
    BY <1>16 DEF NewSegment, SameLink, Excludes, Unlink
  <2>3. OneEach'
    BY <1>16 DEF NewSegment, SameLink, Excludes, OneEach, Vacant, Unlink
  <2>4. Vacant'
    BY <1>16 DEF NewSegment, SameLink, Excludes, OneEach, Vacant, Unlink
  <2> QED
    BY <2>1, <2>2, <2>3, <2>4
<1>17. ASSUME NEW p \in Processes, Exit(p) PROVE Linked'
  <2>1. NewSegment'
    BY <1>17 DEF NewSegment, SameLink, Excludes, Exit
  <2>2. SameLink'
    BY <1>17 DEF NewSegment, SameLink, Excludes, Exit
  <2>3. OneEach'
    BY <1>17 DEF NewSegment, SameLink, Excludes, OneEach, Vacant, Exit
  <2>4. Vacant'
    BY <1>17 DEF NewSegment, SameLink, Excludes, OneEach, Vacant, Exit
  <2> QED
    BY <2>1, <2>2, <2>3, <2>4
<1>18. ASSUME NEW p \in Processes, Crash(p) PROVE Linked'
  <2>1. NewSegment'
    BY <1>18 DEF NewSegment, SameLink, Excludes, Crash
  <2>2. SameLink'
    BY <1>18 DEF NewSegment, SameLink, Excludes, Crash
  <2>3. OneEach'
    BY <1>18 DEF NewSegment, SameLink, Excludes, OneEach, Vacant, Crash
  <2>4. Vacant'
    BY <1>18 DEF NewSegment, SameLink, Excludes, OneEach, Vacant, Crash
  <2> QED
    BY <2>1, <2>2, <2>3, <2>4
<1>19. ASSUME NEW p \in Processes, Reuse(p) PROVE Linked'
  <2>1. NewSegment'
    BY <1>19 DEF NewSegment, SameLink, Excludes, Reuse
  <2>2. SameLink'
    BY <1>19 DEF NewSegment, SameLink, Excludes, Reuse
  <2>3. OneEach'
    BY <1>19 DEF NewSegment, SameLink, Excludes, OneEach, Vacant, Reuse
  <2>4. Vacant'
    BY <1>19 DEF NewSegment, SameLink, Excludes, OneEach, Vacant, Reuse
  <2> QED
    BY <2>1, <2>2, <2>3, <2>4
<1> QED
  BY <1>1, <1>2, <1>3, <1>4, <1>5, <1>6, <1>7, <1>8, <1>9, <1>10, <1>11,
     <1>12, <1>13, <1>14, <1>15, <1>16, <1>17, <1>18, <1>19
     DEF Next, Proceed, Happens

\* The last one cleans up.
LEMMA CleanerInit == Init => Cleaner
  BY DEF Init, Cleaner

LEMMA CleanerNext == ASSUME Exclusive, Linked, Cleaner, [Next]_vars PROVE Cleaner'
<1> USE ProcessesAssumption
    DEF Smooth, Attached, Joining, Exclusive, TypeOK, Up, Linking, Inspecting, UpPlaces,
        Ended, Places, Maybe, Goto, shared, process, world, Cleaner
<1>1. CASE UNCHANGED vars
  BY <1>1 DEF vars
<1>2. ASSUME NEW p \in Processes, LinkUp(p) PROVE Cleaner'
  BY <1>2 DEF LinkUp
<1>3. ASSUME NEW p \in Processes, Create(p) PROVE Cleaner'
  BY <1>3 DEF Create
<1>4. ASSUME NEW p \in Processes, Attach(p) PROVE Cleaner'
  BY <1>4 DEF Attach, Exists, Users, Linked, SameLink, Excludes
<1>5. ASSUME NEW p \in Processes, Claim(p) PROVE Cleaner'
  BY <1>5 DEF Claim, Linked, SameLink, Excludes
<1>6. ASSUME NEW p \in Processes, Open(p) PROVE Cleaner'
  BY <1>6 DEF Open, Linked, SameLink, Excludes
<1>7. ASSUME NEW p \in Processes, OpenFails(p) PROVE Cleaner'
  BY <1>7 DEF OpenFails
<1>8. ASSUME NEW p \in Processes, Tick(p) PROVE Cleaner'
  BY <1>8 DEF Tick
<1>9. ASSUME NEW p \in Processes, Wait(p) PROVE Cleaner'
  BY <1>9 DEF Wait
<1>10. ASSUME NEW p \in Processes, Look(p) PROVE Cleaner'
  BY <1>10 DEF Look
<1>11. ASSUME NEW p \in Processes, Take(p) PROVE Cleaner'
  BY <1>11 DEF Take
<1>12. ASSUME NEW p \in Processes, Post(p) PROVE Cleaner'
  BY <1>12 DEF Post
<1>13. ASSUME NEW p \in Processes, LinkDown(p) PROVE Cleaner'
  BY <1>13 DEF LinkDown
<1>14. ASSUME NEW p \in Processes, Stat(p) PROVE Cleaner'
  BY <1>14 DEF Stat, Users
<1>15. ASSUME NEW p \in Processes, Remove(p) PROVE Cleaner'
  BY <1>15 DEF Remove, Users
<1>16. ASSUME NEW p \in Processes, Unlink(p) PROVE Cleaner'
  BY <1>16 DEF Unlink
<1>17. ASSUME NEW p \in Processes, Exit(p) PROVE Cleaner'
  BY <1>17 DEF Exit
<1>18. ASSUME NEW p \in Processes, Crash(p) PROVE Cleaner'
  BY <1>18 DEF Crash
<1>19. ASSUME NEW p \in Processes, Reuse(p) PROVE Cleaner'
  BY <1>19 DEF Reuse
<1> QED
  BY <1>1, <1>2, <1>3, <1>4, <1>5, <1>6, <1>7, <1>8, <1>9, <1>10, <1>11,
     <1>12, <1>13, <1>14, <1>15, <1>16, <1>17, <1>18, <1>19
     DEF Next, Proceed, Happens

\* The link stays as it should be.
LEMMA LinkHolds == Spec => [](Exclusive /\ Linked /\ Cleaner)
<1>1. Exclusive /\ Linked /\ Cleaner /\ [Next]_vars => (Exclusive /\ Linked /\ Cleaner)'
  BY ExclusiveNext, LinkedNext, CleanerNext
<1> QED
  BY <1>1, ExclusiveInit, LinkedInit, CleanerInit, PTL DEF Spec

\* Of any number of processes, mounted, unmounted, killed and replaced in any
\* order, at most one mounted process takes itself for the master, unless two of
\* them met halfway in link_up or link_down on the segment of one of the masters.
THEOREM OneMasterHolds == Spec => []OneMaster
<1>1. Exclusive /\ Linked => OneMaster
  <2> SUFFICES ASSUME Exclusive, Linked, NEW p \in Processes, NEW q \in Processes,
                      Up(p), Up(q), master[p], master[q],
                      {shmid[p], shmid[q]} \cap contested = {}
               PROVE  p = q
    BY DEF OneMaster
  <2>1. shmid[p] = key /\ shmid[q] = key /\ key \in Processes /\ key \notin contested
    BY DEF Exclusive, Excludes, Linked, SameLink, Attached, Joining, Up
  <2>2. On(p, key) /\ On(q, key)
    BY <2>1 DEF On, Joining, Attached, Up
  <2> QED
    BY <2>1, <2>2 DEF Linked, OneEach
<1> QED
  BY <1>1, LinkHolds, PTL

\* The last one to unmount leaves no segment and no semaphore behind, whoever
\* mounts and unmounts at the same time, if no process died and no two met
\* halfway.
THEOREM LeavesNothingHolds == Spec => []LeavesNothing
<1>1. Exclusive /\ Cleaner => LeavesNothing
  BY DEF Cleaner, Smooth, LeavesNothing, Joining, Attached, UpPlaces, Inspecting
<1> QED
  BY <1>1, LinkHolds, PTL
=============================================================================
