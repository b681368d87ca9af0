--------------------------- MODULE Transcode_proofs ---------------------------
(***************************************************************************)
(* Facts about a shared cache entry for any number of clients, jobs, items *)
(* and pool threads, with or without HLS, prebuffering, disable_cache and  *)
(* faults: first its types, then who holds it, then what the flags shared  *)
(* by starters and workers mean (m_is_decoding,                            *)
(* m_thread_running_lock_guard), and last that a finished cache is whole.  *)
(***************************************************************************)
EXTENDS Transcode, FiniteSetTheorems, SequenceTheorems, TLAPS

USE DEF info, entry, buffer, world, pool, client
USE DEF Opened, LastRef, MustErase, AtEnd, Verdict

-----------------------------------------------------------------------------
(* Types. *)

\* The initial values of the local variables have the right types.
LEMMA Locals == Idle0 \in CallLocals /\ Local0 \in RunLocals
<1>1. 1 \in Items
  BY NumbersAssumption DEF Items
<1>2. <<>> \in Seq(Items)
  BY EmptySeq
<1> QED  BY <1>1, <1>2 DEF Idle0, Local0, CallLocals, RunLocals

\* Moving a client keeps the types of its place and its locals.
LEMMA GotoType ==
    ASSUME TypeOK, NEW c \in Clients, NEW from, NEW to \in ClientPlaces,
           Goto(c, from, to)
    PROVE  cpc' \in [Clients -> ClientPlaces] /\ l' \in [Clients -> CallLocals]
BY Locals DEF Goto, TypeOK

LEMMA GotoWithType ==
    ASSUME TypeOK, NEW c \in Clients, NEW from, NEW to \in ClientPlaces,
           NEW local \in CallLocals, GotoWith(c, from, to, local)
    PROVE  cpc' \in [Clients -> ClientPlaces] /\ l' \in [Clients -> CallLocals]
BY DEF GotoWith, TypeOK

LEMMA PlainType ==
    ASSUME TypeOK, NEW c \in Clients
    PROVE  Plain(c) \in CallLocals
<1>1. l[c].item \in Items
  BY DEF TypeOK, CallLocals
<1> QED  BY <1>1, Locals DEF Plain, CallLocals

\* Moving a job keeps the types of its place and its locals.
LEMMA StepType ==
    ASSUME TypeOK, NEW j \in Jobs, NEW from, NEW to \in JobPlaces,
           NEW local \in RunLocals, Step(j, from, to, local)
    PROVE  wpc' \in [Jobs -> JobPlaces] /\ w' \in [Jobs -> RunLocals]
BY DEF Step, TypeOK

\* Clearing and invalidating keep the types of the buffer and its flags.
LEMMA ClearType ==
    ASSUME TypeOK, ClearBuffer
    PROVE  written' \subseteq Items /\ fin' \subseteq Items
           /\ disk' \subseteq Items /\ cursor' \in Items
BY DEF ClearBuffer, TypeOK

\* What each of the requests of a client does to the types.
LEMMA TypeOpening ==
    ASSUME TypeOK, NEW c \in Clients,
           \/ Find(c) \/ NewLost(c) \/ New(c) \/ NewFails(c)
           \/ NewOutdated(c) \/ NewClear(c)
           \/ NewWant(c) \/ NewAbort(c) \/ NewDrop(c) \/ Delete(c)
    PROVE  TypeOK'
<1>1. ASSUME New(c) PROVE TypeOK'
  <2>1. cpc' \in [Clients -> ClientPlaces] /\ l' \in [Clients -> CallLocals]
    BY <1>1, GotoType DEF New, ClientPlaces
  <2>2. 1 \in Items
    BY NumbersAssumption DEF Items
  <2>3. /\ written' \subseteq Items /\ disk' \subseteq Items /\ cursor' \in Items
    BY <1>1, <2>2 DEF New, TypeOK
  <2>4. refs' \in Int /\ lock' \in Clients \cup {None} /\ handle' \subseteq Clients
    BY <1>1 DEF New, TypeOK
  <2> QED  BY <1>1, <2>1, <2>3, <2>4 DEF New, TypeOK
<1>2. ASSUME NewFails(c) PROVE TypeOK'
  <2>1. cpc' \in [Clients -> ClientPlaces] /\ l' \in [Clients -> CallLocals]
    BY <1>2, GotoType DEF NewFails, ClientPlaces
  <2>2. /\ written' \subseteq Items /\ fin' \subseteq Items
        /\ disk' \subseteq Items /\ cursor' \in Items
    BY <1>2, ClearType DEF NewFails
  <2>3. refs' \in Int /\ lock' \in Clients \cup {None} /\ handle' \subseteq Clients
    BY <1>2 DEF NewFails, TypeOK
  <2> QED  BY <1>2, <2>1, <2>2, <2>3 DEF NewFails, TypeOK
<1>3. ASSUME NewOutdated(c) PROVE TypeOK'
  <2>1. cpc' \in [Clients -> ClientPlaces] /\ l' \in [Clients -> CallLocals]
    BY <1>3, GotoType DEF NewOutdated, ClientPlaces
  <2> QED  BY <1>3, <2>1 DEF NewOutdated, TypeOK
<1>4. ASSUME NewClear(c) PROVE TypeOK'
  <2>1. cpc' \in [Clients -> ClientPlaces] /\ l' \in [Clients -> CallLocals]
    BY <1>4, GotoType DEF NewClear, ClientPlaces
  <2>2. ClearBuffer BY <1>4 DEF NewClear, Clear
  <2> QED  BY <1>4, <2>1, <2>2, ClearType DEF NewClear, Clear, TypeOK
<1>5. ASSUME NewWant(c) PROVE TypeOK'
  <2>1. \E to \in {"idle", "cas", "abort"} : Goto(c, "want", to)
    BY <1>5 DEF NewWant
  <2>2. cpc' \in [Clients -> ClientPlaces] /\ l' \in [Clients -> CallLocals]
    BY <2>1, GotoType DEF ClientPlaces
  <2>3. lock' \in {lock, None}
    BY <1>5 DEF NewWant
  <2> QED  BY <1>5, <2>2, <2>3 DEF NewWant, TypeOK
<1>6. ASSUME NewAbort(c) PROVE TypeOK'
  <2>1. cpc' \in [Clients -> ClientPlaces] /\ l' \in [Clients -> CallLocals]
    BY <1>6, GotoType DEF NewAbort, ClientPlaces
  <2> QED  BY <1>6, <2>1 DEF NewAbort, TypeOK
<1>7. ASSUME NewDrop(c) PROVE TypeOK'
  <2>1. cpc' \in [Clients -> ClientPlaces] /\ l' \in [Clients -> CallLocals]
    BY <1>7, GotoType DEF NewDrop, ClientPlaces
  <2>2. /\ written' \subseteq Items /\ disk' \subseteq Items /\ fin' \subseteq Items
        /\ freed' \in BOOLEAN
    BY <1>7 DEF NewDrop, TypeOK
  <2>3. refs' \in Int /\ handle' \subseteq Clients
    BY <1>7 DEF NewDrop, TypeOK
  <2> QED  BY <1>7, <2>1, <2>2, <2>3 DEF NewDrop, TypeOK
<1>8. ASSUME Delete(c) PROVE TypeOK'
  BY <1>8 DEF Delete, TypeOK
<1>9. ASSUME Find(c) \/ NewLost(c) PROVE TypeOK'
  <2>1. cpc' \in [Clients -> ClientPlaces] /\ l' \in [Clients -> CallLocals]
    BY <1>9, GotoType DEF Find, NewLost, ClientPlaces
  <2> QED  BY <1>9, <2>1 DEF Find, NewLost, TypeOK
<1> QED  BY <1>1, <1>2, <1>3, <1>4, <1>5, <1>6, <1>7, <1>8, <1>9

\* Returning from start_transcoder_thread leads to a place of the caller.
LEMMA ReturnType ==
    ASSUME TypeOK, NEW c \in Clients, NEW from, NEW zero \in BOOLEAN,
           Return(c, from, zero)
    PROVE  /\ cpc' \in [Clients -> ClientPlaces] /\ l' \in [Clients -> CallLocals]
           /\ lock' \in Clients \cup {None}
<1>1. l[c].cont \in {"new", "serve", "poll"}
  BY DEF TypeOK, CallLocals
<1>2. Returned(c, zero) \in ClientPlaces
  BY <1>1 DEF Returned, ClientPlaces
<1>3. lock' \in {None, lock}
  BY DEF Return
<1>4. \E local \in CallLocals : GotoWith(c, from, Returned(c, zero), local)
  BY Locals, PlainType DEF Return
<1>5. cpc' \in [Clients -> ClientPlaces] /\ l' \in [Clients -> CallLocals]
  BY <1>2, <1>4, GotoWithType
<1> QED  BY <1>3, <1>5 DEF TypeOK

LEMMA TypeStarting ==
    ASSUME TypeOK, NEW c \in Clients,
           \/ StartClaim(c) \/ StartTryLock(c) \/ StartReclaim(c)
           \/ StartUnpredictable(c) \/ StartSubmit(c) \/ StartCheck(c)
           \/ StartBlock(c) \/ StartAfter(c)
    PROVE  TypeOK'
<1> DEFINE Client == /\ cpc' \in [Clients -> ClientPlaces]
                     /\ l' \in [Clients -> CallLocals]
                     /\ lock' \in Clients \cup {None}
<1>1. ASSUME StartClaim(c) PROVE TypeOK'
  <2>1. Client
    BY <1>1, GotoType DEF StartClaim, ClientPlaces, TypeOK
  <2> QED  BY <1>1, <2>1 DEF StartClaim, TypeOK
<1>2. ASSUME StartTryLock(c) PROVE TypeOK'
  <2>1. Client
    <3>1. CASE active # None
      BY <1>2, <3>1, ReturnType DEF StartTryLock
    <3>2. CASE active = None
      BY <1>2, <3>2, GotoType DEF StartTryLock, ClientPlaces, TypeOK
    <3> QED  BY <3>1, <3>2
  <2> QED  BY <1>2, <2>1 DEF StartTryLock, TypeOK
<1>3. ASSUME StartReclaim(c) PROVE TypeOK'
  <2>1. Client
    <3>1. CASE decoding
      BY <1>3, <3>1, ReturnType DEF StartReclaim
    <3>2. CASE ~decoding
      BY <1>3, <3>2, GotoType DEF StartReclaim, ClientPlaces, TypeOK
    <3> QED  BY <3>1, <3>2
  <2> QED  BY <1>3, <2>1 DEF StartReclaim, TypeOK
<1>4. ASSUME StartUnpredictable(c) PROVE TypeOK'
  <2>1. Client
    BY <1>4, ReturnType DEF StartUnpredictable
  <2> QED  BY <1>4, <2>1 DEF StartUnpredictable, TypeOK
<1>5. ASSUME StartSubmit(c) PROVE TypeOK'
  <2>1. PICK j \in Jobs :
          /\ wpc[j] = "free" /\ ~Awaited(j)
          /\ GotoWith(c, "submit", "check", [l[c] EXCEPT !.ticket = j])
          /\ queue' = Append(queue, j)
          /\ wpc' = [wpc EXCEPT ![j] = "queued"]
          /\ guard' = guard \ {j}
          /\ UNCHANGED <<entry, buffer, world, w, holding, bell, handle>>
    BY <1>5 DEF StartSubmit
  <2>2. [l[c] EXCEPT !.ticket = j] \in CallLocals
    BY DEF TypeOK, CallLocals
  <2>3. cpc' \in [Clients -> ClientPlaces] /\ l' \in [Clients -> CallLocals]
    BY <2>1, <2>2, GotoWithType DEF ClientPlaces
  <2>4. queue' \in Seq(Jobs)
    BY <2>1, AppendProperties DEF TypeOK
  <2>5. wpc' \in [Jobs -> JobPlaces]
    BY <2>1 DEF TypeOK, JobPlaces
  <2> QED  BY <2>1, <2>3, <2>4, <2>5 DEF TypeOK
<1>6. ASSUME StartCheck(c) PROVE TypeOK'
  <2>1. Client
    BY <1>6, GotoType DEF StartCheck, ClientPlaces, TypeOK
  <2> QED  BY <1>6, <2>1 DEF StartCheck, TypeOK
<1>7. ASSUME StartBlock(c) PROVE TypeOK'
  <2>1. Client
    BY <1>7, GotoType DEF StartBlock, ClientPlaces, TypeOK
  <2> QED  BY <1>7, <2>1 DEF StartBlock, TypeOK
<1>8. ASSUME StartAfter(c) PROVE TypeOK'
  <2>1. Client
    BY <1>8, ReturnType DEF StartAfter, TypeOK
  <2> QED  BY <1>8, <2>1 DEF StartAfter, TypeOK
<1> QED  BY <1>1, <1>2, <1>3, <1>4, <1>5, <1>6, <1>7, <1>8

\* Taking an item off the cache keeps the types.
LEMMA InvalidateType ==
    ASSUME TypeOK, NEW i \in Items, Invalidate(i)
    PROVE  /\ written' \subseteq Items /\ fin' \subseteq Items
           /\ disk' \subseteq Items /\ cursor' \in Items
           /\ result' \in {"none", "incomplete", "success"}
           /\ error' \in BOOLEAN /\ seek' \in {0} \cup Items
BY DEF Invalidate, TypeOK

LEMMA ReopenType ==
    ASSUME TypeOK, NEW i \in Items, Reopen(i)
    PROVE  /\ result' \in {"none", "incomplete", "success"}
           /\ error' \in BOOLEAN /\ seek' \in {0} \cup Items
BY DEF Reopen, TypeOK

LEMMA TypeReading ==
    ASSUME TypeOK, NEW c \in Clients,
           \/ \E i \in Items : Read(c, i)
           \/ ReadAwait(c) \/ ReadStale(c) \/ ReadMissing(c) \/ ReadReopen(c)
           \/ ReadPush(c) \/ ReadGate(c) \/ ReadUntil(c) \/ ReadTail(c)
           \/ ReadPoll(c) \/ ReadInterrupted(c) \/ ReadCopy(c)
    PROVE  TypeOK'
<1> DEFINE Client == /\ cpc' \in [Clients -> ClientPlaces]
                     /\ l' \in [Clients -> CallLocals]
           Info == /\ result' \in {"none", "incomplete", "success"}
                   /\ error' \in BOOLEAN /\ seek' \in {0} \cup Items
           Data == /\ written' \subseteq Items /\ fin' \subseteq Items
                   /\ disk' \subseteq Items /\ cursor' \in Items
           Rest == UNCHANGED <<decoding, active, lock, refs, outdated, freed,
                               exit, pool, handle>>
<1>0. l[c] \in CallLocals /\ l[c].item \in Items
  BY DEF TypeOK, CallLocals
<1>S. ASSUME Client, Info, Data, Rest, events' \in 0..MaxEvents PROVE TypeOK'
  BY <1>S DEF TypeOK
<1>T. ASSUME Client, UNCHANGED <<info, buffer>>, Rest, events' \in 0..MaxEvents
      PROVE  TypeOK'
  BY <1>T DEF TypeOK
<1>E. events \in 0..MaxEvents
  BY DEF TypeOK
<1>1. ASSUME NEW i \in Items, Read(c, i) PROVE TypeOK'
  <2> DEFINE local == [l[c] EXCEPT !.item = i,
                         !.need = IF Hls /\ ~Logically(i) THEN "segment" ELSE @]
             to == IF ~Logically(i) THEN IF Hls THEN "missing" ELSE "gate"
                   ELSE IF i \in disk THEN "gate"
                   ELSE IF decoding THEN "await" ELSE "stale"
  <2>1. local \in CallLocals
    BY <1>0 DEF CallLocals
  <2>2. to \in ClientPlaces
    BY DEF ClientPlaces
  <2>3. GotoWith(c, "idle", to, local)
    BY <1>1 DEF Read
  <2> HIDE DEF local, to
  <2>4. Client
    BY <2>1, <2>2, <2>3, GotoWithType
  <2> QED  BY <1>1, <1>E, <1>T, <2>4 DEF Read
<1>2. ASSUME ReadAwait(c) PROVE TypeOK'
  <2>1. Client BY <1>2, GotoType DEF ReadAwait, ClientPlaces
  <2> QED  BY <1>2, <1>E, <1>T, <2>1 DEF ReadAwait
<1>3. ASSUME ReadStale(c) PROVE TypeOK'
  <2>1. CASE l[c].item \in disk
    <3>1. Client BY <1>3, <2>1, GotoType DEF ReadStale, ClientPlaces
    <3> QED  BY <1>3, <2>1, <1>E, <1>T, <3>1 DEF ReadStale
  <2>2. CASE l[c].item \notin disk
    <3>1. [l[c] EXCEPT !.need = "repair"] \in CallLocals
      BY <1>0 DEF CallLocals
    <3>2. Client
      BY <1>3, <2>2, <3>1, GotoWithType DEF ReadStale, ClientPlaces
    <3>3. Info /\ Data
      BY <1>0, <1>3, <2>2, InvalidateType DEF ReadStale
    <3> QED  BY <1>3, <1>E, <1>S, <3>2, <3>3 DEF ReadStale
  <2> QED  BY <2>1, <2>2
<1>4. ASSUME ReadMissing(c) PROVE TypeOK'
  <2>1. Client BY <1>4, GotoType DEF ReadMissing, ClientPlaces
  <2> QED  BY <1>4, <1>E, <1>T, <2>1 DEF ReadMissing
<1>5. ASSUME ReadReopen(c) PROVE TypeOK'
  <2>1. Client BY <1>5, GotoType DEF ReadReopen, ClientPlaces
  <2>2. Info BY <1>0, <1>5, ReopenType DEF ReadReopen
  <2>3. Data BY <1>5 DEF ReadReopen, TypeOK
  <2> QED  BY <1>5, <1>E, <1>S, <2>1, <2>2, <2>3 DEF ReadReopen
<1>6. ASSUME ReadPush(c) PROVE TypeOK'
  <2>1. Client BY <1>6, GotoType DEF ReadPush, ClientPlaces
  <2>2. Info /\ Data BY <1>0, <1>6 DEF ReadPush, TypeOK
  <2> QED  BY <1>6, <1>E, <1>S, <2>1, <2>2 DEF ReadPush
<1>7. ASSUME ReadGate(c) PROVE TypeOK'
  <2>1. [l[c] EXCEPT !.cont = "serve"] \in CallLocals
    BY <1>0 DEF CallLocals
  <2>2. \E to \in {"cas", "until"}, local \in CallLocals :
          GotoWith(c, "gate", to, local)
    BY <1>7, <2>1, PlainType DEF ReadGate
  <2>3. Client BY <2>2, GotoWithType DEF ClientPlaces
  <2> QED  BY <1>7, <1>E, <1>T, <2>3 DEF ReadGate
<1>8. ASSUME ReadUntil(c) PROVE TypeOK'
  <2>1. \E to \in {"copy", "poll", "idle"} : Goto(c, "until", to)
    BY <1>8 DEF ReadUntil
  <2>2. Client BY <2>1, GotoType DEF ClientPlaces
  <2>3. Invalidate(l[c].item) \/ UNCHANGED <<info, buffer>>
    BY <1>8 DEF ReadUntil
  <2>4. Rest /\ events' = events
    BY <1>8 DEF ReadUntil
  <2> QED  BY <1>0, <1>E, <1>S, <1>T, <2>2, <2>3, <2>4, InvalidateType
<1>9. ASSUME ReadTail(c) PROVE TypeOK'
  <2>1. Client BY <1>9, GotoType DEF ReadTail, ClientPlaces
  <2> QED  BY <1>9, <1>E, <1>T, <2>1 DEF ReadTail
<1>10. ASSUME ReadPoll(c) PROVE TypeOK'
  <2>1. [l[c] EXCEPT !.cont = "poll"] \in CallLocals
    BY <1>0 DEF CallLocals
  <2>2. \/ \E to \in {"copy", "poll", "idle"} : Goto(c, "poll", to)
        \/ GotoWith(c, "poll", "cas", [l[c] EXCEPT !.cont = "poll"])
    BY <1>10 DEF ReadPoll
  <2>3. Client BY <2>1, <2>2, GotoType, GotoWithType DEF ClientPlaces
  <2>4. \/ Invalidate(l[c].item)
        \/ UNCHANGED <<info, buffer>>
        \/ Reopen(l[c].item) /\ UNCHANGED buffer
    BY <1>10 DEF ReadPoll
  <2>5. Rest /\ events' = events
    BY <1>10 DEF ReadPoll
  <2>6. CASE Reopen(l[c].item) /\ UNCHANGED buffer
    <3>1. Info BY <1>0, <2>6, ReopenType
    <3>2. Data BY <2>6 DEF TypeOK
    <3> QED  BY <1>E, <1>S, <2>3, <2>5, <3>1, <3>2
  <2> QED  BY <1>0, <1>E, <1>S, <1>T, <2>3, <2>4, <2>5, <2>6, InvalidateType
<1>11. ASSUME ReadInterrupted(c) PROVE TypeOK'
  <2>1. Client BY <1>11, GotoType DEF ReadInterrupted, ClientPlaces
  <2>2. events' \in 0..MaxEvents
    BY <1>11, <1>E, NumbersAssumption DEF ReadInterrupted
  <2> QED  BY <1>11, <2>2, <1>T, <2>1 DEF ReadInterrupted
<1>12. ASSUME ReadCopy(c) PROVE TypeOK'
  <2>1. Client BY <1>12, GotoType DEF ReadCopy, ClientPlaces
  <2> QED  BY <1>12, <1>E, <1>T, <2>1 DEF ReadCopy
<1> QED  BY <1>1, <1>2, <1>3, <1>4, <1>5, <1>6, <1>7, <1>8, <1>9, <1>10,
            <1>11, <1>12

\* Updating the locals of a job.
LEMMA RunLocalsType ==
    ASSUME NEW r \in RunLocals
    PROVE  /\ r.cur \in Items /\ r.fifo \in Seq(Items)
           /\ r.wrote \in BOOLEAN /\ r.seeked \in BOOLEAN
           /\ \A b \in BOOLEAN :
                /\ [r EXCEPT !.timeout = b] \in RunLocals
                /\ [r EXCEPT !.ok = b] \in RunLocals
                /\ [r EXCEPT !.wrote = b] \in RunLocals
                /\ [r EXCEPT !.eof = b] \in RunLocals
                /\ [r EXCEPT !.unlocked = b] \in RunLocals
           /\ \A q \in Seq(Items) :
                [r EXCEPT !.timeout = FALSE, !.fifo = q] \in RunLocals
BY DEF RunLocals

\* Stacking a request, and what transcode() leaves behind.
LEMMA StackedType ==
    ASSUME TypeOK, NEW j \in Jobs
    PROVE  Stacked(j) \in Seq(Items)
<1>1. w[j].fifo \in Seq(Items)
  BY DEF TypeOK, RunLocals
<1>2. seek # 0 => Append(w[j].fifo, seek) \in Seq(Items)
  BY <1>1, AppendProperties DEF TypeOK
<1> QED  BY <1>1, <1>2 DEF Stacked

LEMMA ClosedType ==
    ASSUME TypeOK, NEW j \in Jobs
    PROVE  Closed(j) \in RunLocals /\ [Closed(j) EXCEPT !.ok = FALSE] \in RunLocals
<1>1. w[j] \in RunLocals
  BY DEF TypeOK
<1> QED  BY <1>1 DEF Closed, RunLocals

LEMMA TypeRunning ==
    ASSUME TypeOK, NEW j \in Jobs,
           \/ LockActive(j) \/ Begin(j) \/ OpenInput(j) \/ Looping(j)
           \/ Write(j) \/ Finish(j) \/ After(j) \/ Suspended(j) \/ Release(j)
           \/ Retry(j) \/ Undecode(j) \/ Report(j) \/ CloseIo(j) \/ Leave(j)
           \/ (\E from \in {"output", "work"} : Throw(j, from))
    PROVE  TypeOK'
<1> DEFINE Run == wpc' \in [Jobs -> JobPlaces] /\ w' \in [Jobs -> RunLocals]
           Signals == guard' \subseteq Jobs /\ bell' \subseteq Jobs
<1>0. w[j] \in RunLocals
  BY DEF TypeOK
<1>L. \A b \in BOOLEAN :
        /\ [w[j] EXCEPT !.timeout = b] \in RunLocals
        /\ [w[j] EXCEPT !.ok = b] \in RunLocals
        /\ [w[j] EXCEPT !.wrote = b] \in RunLocals
        /\ [w[j] EXCEPT !.eof = b] \in RunLocals
        /\ [w[j] EXCEPT !.unlocked = b] \in RunLocals
  BY <1>0, RunLocalsType
<1>Q. Quiet \/ Signal(j) => Signals
  BY DEF Quiet, Signal, TypeOK
<1>1. ASSUME LockActive(j) PROVE TypeOK'
  <2>1. Run BY <1>0, <1>1, StepType DEF LockActive, JobPlaces
  <2> QED  BY <1>1, <2>1 DEF LockActive, TypeOK
<1>2. ASSUME Begin(j) PROVE TypeOK'
  <2>2. Run BY <1>2, <1>L, StepType DEF Begin, JobPlaces
  <2>3. /\ result' = "none" /\ error' = FALSE /\ seek' = seek
        /\ outdated' \in {outdated, FALSE}
        /\ ClearBuffer \/ UNCHANGED buffer
    BY <1>2 DEF Begin, Clear
  <2>4. /\ written' \subseteq Items /\ fin' \subseteq Items
        /\ disk' \subseteq Items /\ cursor' \in Items
    BY <2>3, ClearType DEF TypeOK
  <2> QED  BY <1>2, <2>2, <2>3, <2>4 DEF Begin, TypeOK
<1>3. ASSUME OpenInput(j) PROVE TypeOK'
  <2>1. Run BY <1>0, <1>3, StepType DEF OpenInput, JobPlaces
  <2> QED  BY <1>3, <2>1 DEF OpenInput, TypeOK
<1>4. ASSUME Looping(j) PROVE TypeOK'
  <2>1. \E to \in {"release", "work"}, r \in RunLocals : Step(j, "loop", to, r)
    <3>1. [w[j] EXCEPT !.timeout = FALSE, !.fifo = IF Hls THEN Stacked(j) ELSE @]
            \in RunLocals
      BY <1>0, RunLocalsType, StackedType
    <3>2. CASE \E b \in BOOLEAN :
                 Step(j, "loop", "release", [w[j] EXCEPT !.timeout = b])
      BY <1>L, <3>2
    <3>3. CASE Step(j, "loop", "release", w[j])
      BY <1>0, <3>3
    <3>4. CASE Step(j, "loop", "work",
                    [w[j] EXCEPT !.timeout = FALSE,
                                 !.fifo = IF Hls THEN Stacked(j) ELSE @])
      BY <3>1, <3>4
    <3> QED  BY <1>4, <3>2, <3>3, <3>4 DEF Looping, Loop
  <2>2. Run BY <2>1, StepType DEF JobPlaces
  <2>3. seek' \in {0} \cup Items
    BY <1>4 DEF Looping, Loop, TypeOK
  <2> QED  BY <1>4, <2>2, <2>3 DEF Looping, TypeOK
<1>5. ASSUME Write(j) PROVE TypeOK'
  <2>0. [w[j] EXCEPT !.wrote = TRUE, !.pts = Hls] \in RunLocals
    BY <1>0, SwitchesAssumption DEF RunLocals
  <2>1. Run BY <1>5, <2>0, StepType DEF Write, JobPlaces
  <2>2. written' \subseteq Items
    BY <1>0, <1>5 DEF Write, TypeOK, RunLocals
  <2> QED  BY <1>5, <2>1, <2>2 DEF Write, TypeOK
<1>6. ASSUME Finish(j) PROVE TypeOK'
  <2>1. Run BY <1>L, <1>6, StepType DEF Finish, JobPlaces
  <2>2. fin' \subseteq Items
    BY <1>0, <1>6 DEF Finish, TypeOK, RunLocals
  <2> QED  BY <1>6, <2>1, <2>2 DEF Finish, TypeOK
<1>7. ASSUME After(j) PROVE TypeOK'
  <2>1. \E to \in {"loop", "suspended"}, r \in RunLocals : Step(j, "after", to, r)
    BY <1>0, <1>L, <1>7 DEF After
  <2>2. Run BY <2>1, StepType DEF JobPlaces
  <2>3. Signals BY <1>7, <1>Q DEF After
  <2> QED  BY <1>7, <2>2, <2>3 DEF After, TypeOK
<1>8. ASSUME Suspended(j) PROVE TypeOK'
  <2>1. \E to \in {"loop", "release"}, r \in RunLocals :
          Step(j, "suspended", to, r)
    BY <1>0, <1>L, <1>8 DEF Suspended
  <2>2. Run BY <2>1, StepType DEF JobPlaces
  <2> QED  BY <1>8, <2>2 DEF Suspended, TypeOK
<1>9. ASSUME Release(j) PROVE TypeOK'
  <2>1. Run BY <1>9, ClosedType, StepType DEF Release, JobPlaces
  <2>2. Signals BY <1>9, <1>Q DEF Release
  <2> QED  BY <1>9, <2>1, <2>2 DEF Release, TypeOK
<1>10. ASSUME Retry(j) PROVE TypeOK'
  <2>1. \E to \in {"begin", "undecode"} : Step(j, "retry", to, w[j])
    BY <1>10 DEF Retry
  <2>2. Run BY <1>0, <2>1, StepType DEF JobPlaces
  <2> QED  BY <1>10, <2>2 DEF Retry, TypeOK
<1>11. ASSUME Undecode(j) PROVE TypeOK'
  <2>1. Run BY <1>0, <1>11, StepType DEF Undecode, JobPlaces
  <2> QED  BY <1>11, <2>1 DEF Undecode, TypeOK
<1>12. ASSUME Report(j) PROVE TypeOK'
  <2>1. Run BY <1>0, <1>12, StepType DEF Report, JobPlaces
  <2>2. error' \in BOOLEAN
    BY <1>12 DEF Report
  <2> QED  BY <1>12, <2>1, <2>2 DEF Report, TypeOK
<1>13. ASSUME CloseIo(j) PROVE TypeOK'
  <2>1. Run BY <1>0, <1>13, StepType DEF CloseIo, JobPlaces
  <2>2. /\ written' \subseteq Items /\ fin' \subseteq Items
        /\ disk' \subseteq Items /\ freed' \in BOOLEAN
    BY <1>13 DEF CloseIo, TypeOK
  <2> QED  BY <1>13, <2>1, <2>2 DEF CloseIo, TypeOK
<1>14. ASSUME Leave(j) PROVE TypeOK'
  <2>1. Run BY <1>14, Locals, StepType DEF Leave, JobPlaces
  <2>2. guard' \subseteq Jobs
    BY <1>14 DEF Leave, TypeOK
  <2> QED  BY <1>14, <2>1, <2>2 DEF Leave, TypeOK
<1>15. ASSUME NEW from \in {"output", "work"}, Throw(j, from) PROVE TypeOK'
  <2>1. Run BY <1>15, ClosedType, StepType DEF Throw, JobPlaces
  <2>2. Signals BY <1>15, <1>Q DEF Throw
  <2> QED  BY <1>15, <2>1, <2>2 DEF Throw, TypeOK
<1> QED  BY <1>1, <1>2, <1>3, <1>4, <1>5, <1>6, <1>7, <1>8, <1>9, <1>10, <1>11,
            <1>12, <1>13, <1>14, <1>15

\* Opening the output, and moving on to another item.
LEMMA TypeMoving ==
    ASSUME TypeOK, NEW j \in Jobs, OpenOutput(j) \/ Advance(j)
    PROVE  TypeOK'
<1>0. w[j] \in RunLocals /\ w[j].cur \in Items /\ w[j].fifo \in Seq(Items)
  BY DEF TypeOK, RunLocals
<1>F. \A i \in Items : FileOf(i) \subseteq Items
  BY DEF FileOf
<1>1. ASSUME OpenOutput(j) PROVE TypeOK'
  <2> DEFINE again  == Hls /\ w[j].pts
             target == IF again THEN w[j].cur
                       ELSE IF Hls /\ seek > 1 /\ ~NearBeginning(seek) THEN seek
                       ELSE 1
             rest   == IF again THEN Stacked(j) ELSE <<>>
             local  == [w[j] EXCEPT !.cur = target, !.unlocked = ~Prebuffer,
                          !.seeked = @ \/ (~again /\ target > 1),
                          !.fifo = rest]
  <2>1. target \in Items
    <3>1. (seek > 1 => seek \in Items) /\ 1 \in Items
      BY NumbersAssumption DEF TypeOK, Items
    <3> QED  BY <1>0, <3>1
  <2>2. rest \in Seq(Items)
    BY EmptySeq, StackedType
  <2>3. Prebuffer \in BOOLEAN
    BY SwitchesAssumption
  <2>4. /\ Step(j, "output", "loop", local)
        /\ seek' = (IF Hls THEN 0 ELSE seek)
        /\ cursor' = (IF Hls /\ ~again THEN target ELSE cursor)
        /\ disk' = (IF again THEN disk ELSE disk \cup FileOf(target))
        /\ IF Prebuffer THEN Quiet ELSE Signal(j)
        /\ UNCHANGED <<decoding, active, lock, refs, result, error, written, fin,
                       world, queue, holding, client>>
    BY <1>1 DEF OpenOutput
  <2> HIDE DEF again, target, rest
  <2>5. local \in RunLocals
    BY <1>0, <2>1, <2>2, <2>3 DEF RunLocals
  <2> HIDE DEF local
  <2>6. wpc' \in [Jobs -> JobPlaces] /\ w' \in [Jobs -> RunLocals]
    BY <2>4, <2>5, StepType DEF JobPlaces
  <2>7. disk' \subseteq Items
    BY <1>F, <2>1, <2>4 DEF TypeOK
  <2>8. guard' \subseteq Jobs /\ bell' \subseteq Jobs
    BY <2>4 DEF Quiet, Signal, TypeOK
  <2> QED  BY <2>1, <2>4, <2>6, <2>7, <2>8 DEF TypeOK
<1>2. ASSUME NEW target \in Items, NEW seeks \in BOOLEAN,
             NEW rest \in Seq(Items), MoveTo(j, target, seeks, rest)
      PROVE  /\ wpc' \in [Jobs -> JobPlaces] /\ w' \in [Jobs -> RunLocals]
             /\ fin' \subseteq Items /\ cursor' \in Items /\ disk' \subseteq Items
  <2> DEFINE local == [w[j] EXCEPT !.cur = target, !.wrote = FALSE,
                                   !.seeked = @ \/ seeks, !.fifo = rest]
  <2>1. local \in RunLocals
    BY <1>0 DEF RunLocals
  <2>2. Step(j, "work", "after", local)
    BY <1>2 DEF MoveTo
  <2> HIDE DEF local
  <2>3. wpc' \in [Jobs -> JobPlaces] /\ w' \in [Jobs -> RunLocals]
    BY <2>1, <2>2, StepType DEF JobPlaces
  <2> QED  BY <1>0, <1>2, <2>3 DEF MoveTo, TypeOK
<1>3. ASSUME Advance(j) PROVE TypeOK'
  <2> DEFINE fifo   == w[j].fifo
             wanted(mapped) == {k \in DOMAIN fifo : Wanted(j, fifo[k], mapped)}
  <2>1. fifo \in Seq(Items) /\ DOMAIN fifo = 1..Len(fifo) /\ Len(fifo) \in Nat
    BY <1>0, LenProperties
  <2>2. \E target \in Items, seeks \in BOOLEAN, rest \in Seq(Items) :
          MoveTo(j, target, seeks, rest)
    <3>1. CASE MoveTo(j, w[j].cur + 1, FALSE, <<>>)
      <4>1. w[j].cur + 1 \in Items
        BY <1>0, <1>3, NumbersAssumption DEF Advance, Items
      <4> QED  BY <3>1, <4>1, EmptySeq
    <3>2. CASE \E mapped \in SUBSET (disk \cap written) : \E first \in wanted(mapped) :
                 MoveTo(j, fifo[first], TRUE, SubSeq(fifo, first + 1, Len(fifo)))
      <4>1. PICK first \in 1..Len(fifo) :
              MoveTo(j, fifo[first], TRUE, SubSeq(fifo, first + 1, Len(fifo)))
        BY <2>1, <3>2
      <4> HIDE DEF fifo
      <4>2. /\ fifo[first] \in Items
            /\ \A i \in first + 1 .. Len(fifo) : fifo[i] \in Items
        BY <2>1, ElementOfSeq
      <4>3. SubSeq(fifo, first + 1, Len(fifo)) \in Seq(Items)
        BY <2>1, <4>2, SubSeqProperties
      <4> QED  BY <4>1, <4>2, <4>3
    <3> QED  BY <1>3, <3>1, <3>2 DEF Advance
  <2>3. /\ wpc' \in [Jobs -> JobPlaces] /\ w' \in [Jobs -> RunLocals]
        /\ fin' \subseteq Items /\ cursor' \in Items /\ disk' \subseteq Items
    BY <1>2, <2>2
  <2>4. UNCHANGED <<decoding, active, lock, refs, info, written, world, queue,
                    holding, guard, bell, client>>
    BY <1>3 DEF Advance
  <2> QED  BY <2>3, <2>4 DEF TypeOK
<1> QED  BY <1>1, <1>3

LEMMA TypeWorld ==
    ASSUME TypeOK,
           \/ Start
           \/ \E j \in Jobs : Notify(j)
           \/ \E c \in Clients : WakeUp(c)
           \/ Environment
    PROVE  TypeOK'
<1>E. events < MaxEvents => events + 1 \in 0..MaxEvents
  BY NumbersAssumption DEF TypeOK
<1>1. ASSUME Start PROVE TypeOK'
  <2>1. queue' \in Seq(Jobs) /\ Head(queue) \in Jobs
    BY <1>1, HeadTailProperties DEF Start, TypeOK
  <2>2. wpc' \in [Jobs -> JobPlaces] /\ w' \in [Jobs -> RunLocals]
    BY <1>1, <2>1, Locals DEF Start, TypeOK, JobPlaces
  <2> QED  BY <1>1, <2>1, <2>2 DEF Start, TypeOK
<1>2. ASSUME NEW j \in Jobs, Notify(j) PROVE TypeOK'
  <2>1. cpc' \in [Clients -> ClientPlaces]
    BY <1>2 DEF Notify, TypeOK, ClientPlaces
  <2> QED  BY <1>2, <2>1 DEF Notify, TypeOK
<1>3. ASSUME NEW c \in Clients, WakeUp(c) PROVE TypeOK'
  <2>1. cpc' \in [Clients -> ClientPlaces] /\ l' \in [Clients -> CallLocals]
    BY <1>3, GotoType DEF WakeUp, ClientPlaces
  <2> QED  BY <1>3, <1>E, <2>1 DEF WakeUp, TypeOK
<1>4. ASSUME SourceChanges PROVE TypeOK'
  BY <1>4, <1>E DEF SourceChanges, TypeOK
<1>5. ASSUME SigInt PROVE TypeOK'
  BY <1>5, <1>E DEF SigInt, TypeOK
<1>6. ASSUME NEW i \in Items, LoseFile(i) PROVE TypeOK'
  BY <1>6, <1>E DEF LoseFile, TypeOK
<1> QED  BY <1>1, <1>2, <1>3, <1>4, <1>5, <1>6 DEF Environment

LEMMA InitType == Init => TypeOK
<1> SUFFICES ASSUME Init PROVE TypeOK
  OBVIOUS
<1>1. 1 \in Items /\ 0 \in 0..MaxEvents
  BY NumbersAssumption DEF Items
<1>2. wpc \in [Jobs -> JobPlaces] /\ cpc \in [Clients -> ClientPlaces]
  BY DEF Init, JobPlaces, ClientPlaces
<1>3. w \in [Jobs -> RunLocals] /\ l \in [Clients -> CallLocals]
  BY Locals DEF Init
<1>4. queue \in Seq(Jobs)
  BY EmptySeq DEF Init
<1>5. /\ written \subseteq Items /\ disk \subseteq Items
      /\ result \in {"none", "incomplete", "success"}
  BY DEF Init
<1>6. /\ decoding \in BOOLEAN /\ error \in BOOLEAN /\ outdated \in BOOLEAN
      /\ freed \in BOOLEAN /\ exit \in BOOLEAN
  BY Zenon DEF Init
<1>7. /\ active \in Clients \cup Jobs \cup {None} /\ lock \in Clients \cup {None}
      /\ refs \in Int /\ events \in 0..MaxEvents
      /\ seek \in {0} \cup Items /\ cursor \in Items /\ fin \subseteq Items
      /\ holding \subseteq Jobs /\ guard \subseteq Jobs /\ bell \subseteq Jobs
      /\ handle \subseteq Clients
  BY <1>1 DEF Init
<1> QED  BY <1>2, <1>3, <1>4, <1>5, <1>6, <1>7 DEF TypeOK

LEMMA NextType == TypeOK /\ [Next]_vars => TypeOK'
<1> SUFFICES ASSUME TypeOK, [Next]_vars PROVE TypeOK'
  OBVIOUS
<1>1. ASSUME NEW c \in Clients, Proceed(c) \/ Request(c) PROVE TypeOK'
  BY <1>1, TypeOpening, TypeStarting, TypeReading, TypeWorld
  DEF Proceed, Request
<1>2. ASSUME NEW j \in Jobs, Work(j) \/ Notify(j) PROVE TypeOK'
  BY <1>2, TypeRunning, TypeMoving, TypeWorld DEF Work
<1>3. CASE Start \/ Environment
  BY <1>3, TypeWorld
<1>4. CASE UNCHANGED vars
  BY <1>4 DEF vars, TypeOK
<1> QED  BY <1>1, <1>2, <1>3, <1>4 DEF Next

\* Every variable of the model keeps to the values the code gives it, in
\* particular the segment in work never passes the last one.
THEOREM TypeHolds == Spec => []TypeOK
BY InitType, NextType, PTL DEF Spec
-----------------------------------------------------------------------------
(* Who keeps the entry alive. *)

\* The sets the reference count is compared with are finite.
LEMMA FiniteUsers ==
    ASSUME TypeOK
    PROVE  /\ IsFiniteSet(handle) /\ Cardinality(handle) \in Nat
           /\ IsFiniteSet(holding) /\ Cardinality(holding) \in Nat
<1>1. IsFiniteSet(handle) /\ IsFiniteSet(holding)
  BY ClientsAssumption, FS_Subset DEF TypeOK
<1> QED  BY <1>1, FS_CardinalityType

\* The places where a starter waits for its job.
WaitPlaces == {"check", "block", "asleep", "after"}

LEMMA GotoIsGotoWith ==
    ASSUME NEW c \in Clients, NEW from, NEW to, Goto(c, from, to)
    PROVE  GotoWith(c, from, to, IF to = "idle" THEN Idle0 ELSE l[c])
BY DEF Goto, GotoWith

\* A call that keeps its handle and does not wait for a job touches nothing.
LEMMA CustodyCalls ==
    ASSUME TypeOK, Custody, NEW c \in Clients,
           NEW from \in ClientPlaces \ WaitPlaces,
           NEW to \in ClientPlaces \ WaitPlaces, NEW local,
           c \in handle, to \notin {"enter", "lost"},
           GotoWith(c, from, to, local),
           UNCHANGED <<handle, queue, wpc, holding, guard, freed>>
    PROVE  Custody'
<1>1. \A d \in Clients, j \in Jobs : Waiting(d, j)' <=> Waiting(d, j)
  BY DEF Waiting, GotoWith, WaitPlaces, TypeOK
<1>2. \A j \in Jobs : Awaited(j)' <=> Awaited(j)
  BY <1>1 DEF Awaited
<1>3. Handles'
  BY DEF Custody, Handles, Outside, GotoWith, TypeOK
<1>4. \A d \in Clients : cpc'[d] = "after" => l'[d].ticket \in guard
  BY DEF Custody, GotoWith, TypeOK, WaitPlaces
<1> QED  BY <1>1, <1>2, <1>3, <1>4 DEF Custody, Unopened

\* So does a starter that goes on waiting.
LEMMA CustodyWaits ==
    ASSUME TypeOK, Custody, NEW c \in Clients,
           NEW from \in WaitPlaces, NEW to \in WaitPlaces,
           to = "after" => l[c].ticket \in guard,
           Goto(c, from, to),
           UNCHANGED <<handle, queue, wpc, holding, guard, freed>>
    PROVE  Custody'
<1>0. l' = l
  BY DEF Goto, WaitPlaces, TypeOK
<1>1. \A d \in Clients, j \in Jobs : Waiting(d, j)' <=> Waiting(d, j)
  BY <1>0 DEF Waiting, Goto, WaitPlaces, TypeOK
<1>2. \A j \in Jobs : Awaited(j)' <=> Awaited(j)
  BY <1>1 DEF Awaited
<1>3. Handles'
  BY DEF Custody, Handles, Outside, Goto, TypeOK, WaitPlaces
<1>4. \A d \in Clients : cpc'[d] = "after" => l'[d].ticket \in guard
  BY <1>0 DEF Custody, Goto, TypeOK
<1> QED  BY <1>1, <1>2, <1>3, <1>4 DEF Custody, Unopened

\* A job that holds a reference and goes on holding it may set its guard.
LEMMA CustodyRuns ==
    ASSUME TypeOK, Custody, NEW j \in Jobs,
           NEW from \in HolderPlaces, NEW to \in HolderPlaces \cup {"begin"},
           NEW local, Step(j, from, to, local),
           guard' \in {guard, guard \cup {j}},
           UNCHANGED <<cpc, l, handle, queue, holding, freed>>
    PROVE  Custody'
<1>1. \A d \in Clients, k \in Jobs : Waiting(d, k)' <=> Waiting(d, k)
  BY DEF Waiting
<1>2. \A k \in Jobs : Awaited(k)' <=> Awaited(k)
  BY <1>1 DEF Awaited
<1>3. j \in holding
  BY DEF Custody, Step
<1>4. \A k \in Jobs : Unopened(k)' => Unopened(k) /\ k # j
  BY <1>3 DEF Unopened, Step, TypeOK, HolderPlaces
<1>5. \A k \in DOMAIN queue : queue[k] # j
  BY DEF Custody, Step, HolderPlaces
<1>6. \A k \in DOMAIN queue : wpc'[queue[k]] = "queued"
  <2>1. \A k \in DOMAIN queue : queue[k] \in Jobs
    BY DEF TypeOK
  <2> QED  BY <1>5, <2>1 DEF Custody, Step, TypeOK
<1>7. /\ \A k \in Jobs : wpc'[k] \in HolderPlaces => k \in holding
      /\ \A k \in holding : wpc'[k] \in HolderPlaces \cup {"begin", "open"}
  BY <1>3 DEF Custody, Step, TypeOK
<1> QED  BY <1>1, <1>2, <1>4, <1>6, <1>7 DEF Custody, Handles

\* Nothing is waited for differently and nothing is held differently.
LEMMA CustodyFrame ==
    ASSUME Custody, UNCHANGED <<cpc, l, handle, queue, wpc, holding, guard, freed>>
    PROVE  Custody'
BY DEF Custody, Handles, Outside, Waiting, Awaited, Unopened

LEMMA CoverFrame ==
    ASSUME RefsCoverUsers, UNCHANGED <<refs, handle, holding>>
    PROVE  RefsCoverUsers'
BY DEF RefsCoverUsers

\* On its way to the lock of the entry a client holds nothing, nor when the
\* entry has gone meanwhile.
LEMMA CustodyEntering ==
    ASSUME TypeOK, Custody, NEW c \in Clients, Find(c) \/ NewLost(c)
    PROVE  Custody'
<1>1. \A d \in Clients, j \in Jobs : Waiting(d, j)' <=> Waiting(d, j)
  BY DEF Waiting, Find, NewLost, Goto, TypeOK
<1>2. \A j \in Jobs : Awaited(j)' <=> Awaited(j)
  BY <1>1 DEF Awaited
<1>3. Handles'
  BY DEF Custody, Handles, Outside, Find, NewLost, Goto, TypeOK
<1>4. \A d \in Clients : cpc'[d] = "after" => l'[d].ticket \in guard
  BY DEF Custody, Find, NewLost, Goto, TypeOK
<1> QED  BY <1>1, <1>2, <1>3, <1>4 DEF Custody, Unopened, Find, NewLost

\* Opening the cache entry adds a handle and a reference.
LEMMA CustodyNew ==
    ASSUME TypeOK, Custody, RefsCoverUsers, NEW c \in Clients,
           NEW to \in {"outdated", "abort"}, Goto(c, "enter", to),
           ~freed, refs' = refs + 1, handle' = handle \cup {c},
           UNCHANGED <<queue, wpc, holding, guard, freed>>
    PROVE  Custody' /\ RefsCoverUsers'
<1>1. \A d \in Clients, j \in Jobs : Waiting(d, j)' <=> Waiting(d, j)
  BY DEF Waiting, Goto, TypeOK
<1>2. \A j \in Jobs : Awaited(j)' <=> Awaited(j)
  BY <1>1 DEF Awaited
<1>3. Handles'
  BY DEF Custody, Handles, Outside, Goto, TypeOK
<1>4. \A d \in Clients : cpc'[d] = "after" => l'[d].ticket \in guard
  BY DEF Custody, Goto, TypeOK
<1>5. Custody'
  BY <1>1, <1>2, <1>3, <1>4 DEF Custody, Unopened
<1>6. Cardinality(handle') = Cardinality(handle) + 1
  <2>1. c \notin handle
    BY DEF Custody, Handles, Goto
  <2> QED  BY <2>1, FiniteUsers, FS_AddElement
<1>7. RefsCoverUsers'
  BY <1>6, FiniteUsers DEF RefsCoverUsers, TypeOK
<1> QED  BY <1>5, <1>7

\* Closing takes the handle of a client that is in no other call and one
\* reference; if that was the last one, nobody else has any.
LEMMA CustodyDrop ==
    ASSUME TypeOK, Custody, RefsCoverUsers, NEW c \in Clients, c \in handle,
           NEW from \in {"drop", "idle"}, cpc[c] = from,
           cpc' = [cpc EXCEPT ![c] = "idle"],
           \A d \in Clients \ {c} : l'[d] = l[d],
           refs' = refs - 1, handle' = handle \ {c},
           freed' => freed \/ refs = 1,
           UNCHANGED <<queue, wpc, holding, guard>>
    PROVE  Custody' /\ RefsCoverUsers'
<1>1. \A d \in Clients, j \in Jobs : Waiting(d, j)' <=> Waiting(d, j)
  BY DEF Waiting, TypeOK
<1>2. \A j \in Jobs : Awaited(j)' <=> Awaited(j)
  BY <1>1 DEF Awaited
<1>3. Handles'
  BY DEF Custody, Handles, Outside, TypeOK
<1>4. \A d \in Clients : cpc'[d] = "after" => l'[d].ticket \in guard
  BY DEF Custody, TypeOK
<1>5. Cardinality(handle') = Cardinality(handle) - 1 /\ Cardinality(handle') \in Nat
  <2>1. IsFiniteSet(handle')
    BY FiniteUsers, FS_RemoveElement
  <2> QED  BY <2>1, FiniteUsers, FS_RemoveElement, FS_CardinalityType
<1>6. RefsCoverUsers'
  BY <1>5, FiniteUsers DEF RefsCoverUsers, TypeOK
<1>7. freed' => handle' = {} /\ holding = {}
  <2>1. ~freed
    BY DEF Custody
  <2>2. ASSUME refs = 1 PROVE handle' = {} /\ holding = {}
    <3>1. Cardinality(handle') + Cardinality(holding) <= 0
      BY <2>2, <1>6 DEF RefsCoverUsers
    <3>2. Cardinality(handle') = 0 /\ Cardinality(holding) = 0
      BY <3>1, <1>5, FiniteUsers
    <3>3. IsFiniteSet(handle') /\ IsFiniteSet(holding)
      BY FiniteUsers, FS_RemoveElement
    <3> QED  BY <3>2, <3>3, FS_EmptySet
  <2> QED  BY <2>1, <2>2
<1>8. Custody'
  BY <1>1, <1>2, <1>3, <1>4, <1>7 DEF Custody, Unopened
<1> QED  BY <1>6, <1>8

\* Submitting a job that nobody waits for.
LEMMA CustodySubmit ==
    ASSUME TypeOK, Custody, NEW c \in Clients, StartSubmit(c)
    PROVE  Custody'
<1>1. PICK j \in Jobs :
        /\ wpc[j] = "free" /\ ~Awaited(j)
        /\ GotoWith(c, "submit", "check", [l[c] EXCEPT !.ticket = j])
        /\ queue' = Append(queue, j)
        /\ wpc' = [wpc EXCEPT ![j] = "queued"]
        /\ guard' = guard \ {j}
        /\ UNCHANGED <<entry, buffer, world, w, holding, bell, handle>>
  BY DEF StartSubmit
<1>2. Waiting(c, j)' /\ l'[c].ticket = j
  BY <1>1 DEF Waiting, GotoWith, TypeOK, CallLocals
<1>3. \A d \in Clients, k \in Jobs :
        Waiting(d, k)' <=> Waiting(d, k) \/ (d = c /\ k = j)
  BY <1>1, <1>2 DEF Waiting, GotoWith, TypeOK
<1>4. \A d \in Clients : ~Waiting(d, j)
  BY <1>1 DEF Awaited
<1>5. \A d, e \in Clients, k \in Jobs : Waiting(d, k)' /\ Waiting(e, k)' => d = e
  BY <1>3, <1>4 DEF Custody
<1>6. Handles'
  BY <1>1 DEF Custody, Handles, Outside, GotoWith, TypeOK
<1>7. \A d \in Clients : cpc'[d] = "after" => l'[d].ticket \in guard'
  <2>1. \A d \in Clients : cpc[d] = "after" => l[d].ticket # j
    BY <1>4 DEF Waiting
  <2> QED  BY <1>1, <2>1 DEF Custody, GotoWith, TypeOK
<1>8. \A k \in Jobs : Unopened(k)' => k \notin guard' /\ Awaited(k)'
  <2>1. Awaited(j)' /\ j \notin guard'
    BY <1>1, <1>2 DEF Awaited
  <2>2. \A k \in Jobs : k # j /\ Unopened(k)' => Unopened(k)
    BY <1>1 DEF Unopened, TypeOK
  <2>3. \A k \in Jobs : Awaited(k) => Awaited(k)'
    BY <1>3 DEF Awaited
  <2> QED  BY <1>1, <2>1, <2>2, <2>3 DEF Custody
<1>9. /\ \A k \in Jobs : wpc'[k] \in HolderPlaces => k \in holding'
      /\ \A k \in holding' : wpc'[k] \in HolderPlaces \cup {"begin", "open"}
  BY <1>1 DEF Custody, HolderPlaces, TypeOK
<1>10. /\ \A k, m \in DOMAIN queue' : queue'[k] = queue'[m] => k = m
       /\ \A k \in DOMAIN queue' : wpc'[queue'[k]] = "queued"
  <2>1. /\ DOMAIN queue' = 1..(Len(queue) + 1) /\ DOMAIN queue = 1..Len(queue)
        /\ Len(queue) \in Nat
        /\ \A k \in DOMAIN queue : queue'[k] = queue[k] /\ queue[k] \in Jobs
        /\ queue'[Len(queue) + 1] = j
    BY <1>1 DEF TypeOK
  <2>2. \A k \in DOMAIN queue : queue[k] # j
    BY <1>1 DEF Custody
  <2> QED  BY <1>1, <2>1, <2>2 DEF Custody, TypeOK
<1> QED  BY <1>1, <1>5, <1>6, <1>7, <1>8, <1>9, <1>10 DEF Custody

LEMMA ReturnPlace ==
    ASSUME TypeOK, NEW c \in Clients, NEW from, NEW zero \in BOOLEAN,
           Return(c, from, zero)
    PROVE  \E to \in {"idle", "abort", "until", "poll"}, local \in CallLocals :
             GotoWith(c, from, to, local)
<1>1. l[c].cont \in {"new", "serve", "poll"}
  BY DEF TypeOK, CallLocals
<1>2. Returned(c, zero) \in {"idle", "abort", "until", "poll"}
  BY <1>1 DEF Returned
<1> QED  BY <1>2, Locals, PlainType DEF Return

\* A starter that goes takes its guard with it; nobody else waits for the job.
LEMMA CustodyAfter ==
    ASSUME TypeOK, Custody, NEW c \in Clients, StartAfter(c)
    PROVE  Custody'
<1>1. /\ cpc[c] = "after" /\ guard' = guard \ {l[c].ticket}
      /\ UNCHANGED <<queue, wpc, holding, handle, freed>>
  BY DEF StartAfter, Return, GotoWith
<1>2. PICK to \in {"idle", "abort", "until", "poll"}, local \in CallLocals :
        GotoWith(c, "after", to, local)
  BY ReturnPlace DEF StartAfter, TypeOK
<1>3. \A d \in Clients, j \in Jobs : Waiting(d, j)' <=> Waiting(d, j) /\ d # c
  BY <1>2 DEF Waiting, GotoWith, TypeOK
<1>4. Handles'
  BY <1>1, <1>2 DEF Custody, Handles, Outside, GotoWith, TypeOK
<1>5. \A d \in Clients : cpc'[d] = "after" => l'[d].ticket \in guard'
  <2>1. l[c].ticket \in Jobs
    BY <1>1 DEF Custody, TypeOK
  <2>2. \A d \in Clients \ {c} : cpc[d] = "after" => l[d].ticket # l[c].ticket
    BY <1>1, <2>1 DEF Custody, Waiting
  <2> QED  BY <1>1, <1>2, <2>2 DEF Custody, GotoWith, TypeOK
<1>6. \A j \in Jobs : Unopened(j)' => j \notin guard' /\ Awaited(j)'
  <2> SUFFICES ASSUME NEW j \in Jobs, Unopened(j)'
               PROVE  j \notin guard' /\ Awaited(j)'
    OBVIOUS
  <2>1. Unopened(j)
    BY <1>1 DEF Unopened
  <2>2. j \notin guard /\ Awaited(j)
    BY <2>1 DEF Custody
  <2>3. PICK d \in Clients : Waiting(d, j)
    BY <2>2 DEF Awaited
  <2>4. d # c
    BY <1>1, <2>2, <2>3 DEF Custody, Waiting
  <2> QED  BY <1>1, <1>3, <2>2, <2>3, <2>4 DEF Awaited
<1> QED  BY <1>1, <1>3, <1>4, <1>5, <1>6 DEF Custody

\* A pool thread takes the oldest job, which is in the queue only once.
LEMMA CustodyStart ==
    ASSUME TypeOK, Custody, Start
    PROVE  Custody'
<1> DEFINE j == Head(queue)
<1>1. /\ j \in Jobs /\ wpc[j] = "queued"
      /\ wpc' = [wpc EXCEPT ![j] = "ready"] /\ queue' = Tail(queue)
      /\ UNCHANGED <<cpc, l, handle, holding, guard, freed>>
  <2>1. queue # <<>> /\ queue \in Seq(Jobs)
    BY DEF Start, TypeOK
  <2>2. j \in Jobs /\ 1 \in DOMAIN queue /\ j = queue[1]
    BY <2>1, HeadTailProperties
  <2> QED  BY <2>2 DEF Start, Custody
<1>2. /\ DOMAIN queue = 1..Len(queue) /\ Len(queue) \in Nat \ {0}
      /\ DOMAIN queue' = 1..(Len(queue) - 1)
      /\ \A k \in DOMAIN queue' : /\ queue'[k] = queue[k + 1]
                                  /\ k + 1 \in DOMAIN queue /\ k + 1 # 1
      /\ j = queue[1] /\ 1 \in DOMAIN queue
  BY DEF Start, TypeOK
<1>3. \A k \in DOMAIN queue' : queue'[k] # j /\ wpc[queue'[k]] = "queued"
  BY <1>2 DEF Custody
<1>4. \A k, m \in DOMAIN queue' : queue'[k] = queue'[m] => k = m
  BY <1>2 DEF Custody
<1>5. \A k \in DOMAIN queue' : queue'[k] \in Jobs
  BY <1>2 DEF TypeOK
<1> HIDE DEF j
<1>6. \A k \in DOMAIN queue' : wpc'[queue'[k]] = "queued"
  BY <1>1, <1>3, <1>5 DEF TypeOK
<1>7. /\ \A d \in Clients, k \in Jobs : Waiting(d, k)' <=> Waiting(d, k)
      /\ \A k \in Jobs : Awaited(k)' <=> Awaited(k)
  BY <1>1 DEF Waiting, Awaited
<1>8. \A k \in Jobs : Unopened(k)' => Unopened(k)
  BY <1>1 DEF Unopened, TypeOK
<1>9. /\ \A k \in Jobs : wpc'[k] \in HolderPlaces => k \in holding
      /\ \A k \in holding : wpc'[k] \in HolderPlaces \cup {"begin", "open"}
  BY <1>1 DEF Custody, HolderPlaces, TypeOK
<1> QED  BY <1>1, <1>4, <1>6, <1>7, <1>8, <1>9 DEF Custody, Handles

\* A job on its way from the queue to the reference it will hold.
LEMMA CustodyEnters ==
    ASSUME TypeOK, Custody, NEW j \in Jobs, LockActive(j) \/ Begin(j)
    PROVE  Custody'
<1>1. /\ \/ wpc[j] = "ready" /\ wpc' = [wpc EXCEPT ![j] = "begin"]
         \/ wpc[j] = "begin" /\ wpc' = [wpc EXCEPT ![j] = "open"]
      /\ UNCHANGED <<cpc, l, handle, queue, holding, guard, freed>>
  BY DEF LockActive, Begin, Step
<1>2. /\ \A d \in Clients, k \in Jobs : Waiting(d, k)' <=> Waiting(d, k)
      /\ \A k \in Jobs : Awaited(k)' <=> Awaited(k)
  BY <1>1 DEF Waiting, Awaited
<1>3. \A k \in Jobs : Unopened(k)' => Unopened(k)
  BY <1>1 DEF Unopened, TypeOK
<1>4. /\ \A k \in Jobs : wpc'[k] \in HolderPlaces => k \in holding
      /\ \A k \in holding : wpc'[k] \in HolderPlaces \cup {"begin", "open"}
  BY <1>1 DEF Custody, HolderPlaces, TypeOK
<1>5. \A k \in DOMAIN queue : wpc'[queue[k]] = "queued"
  <2>1. \A k \in DOMAIN queue : queue[k] \in Jobs /\ queue[k] # j
    BY <1>1 DEF Custody, TypeOK
  <2> QED  BY <1>1, <2>1 DEF Custody, TypeOK
<1> QED  BY <1>1, <1>2, <1>3, <1>4, <1>5 DEF Custody, Handles

\* Opening the entry for a run: a reference, even if the job has one already.
LEMMA CustodyOpens ==
    ASSUME TypeOK, Custody, RefsCoverUsers, NEW j \in Jobs, OpenInput(j)
    PROVE  Custody' /\ RefsCoverUsers'
<1>1. /\ wpc[j] = "open" /\ wpc' = [wpc EXCEPT ![j] = "output"]
      /\ refs' = refs + 1 /\ holding' = holding \cup {j}
      /\ UNCHANGED <<cpc, l, handle, queue, guard, freed>>
  BY DEF OpenInput, Step
<1>2. /\ \A d \in Clients, k \in Jobs : Waiting(d, k)' <=> Waiting(d, k)
      /\ \A k \in Jobs : Awaited(k)' <=> Awaited(k)
  BY <1>1 DEF Waiting, Awaited
<1>3. \A k \in Jobs : Unopened(k)' => Unopened(k)
  BY <1>1 DEF Unopened, TypeOK
<1>4. /\ \A k \in Jobs : wpc'[k] \in HolderPlaces => k \in holding'
      /\ \A k \in holding' : wpc'[k] \in HolderPlaces \cup {"begin", "open"}
  BY <1>1 DEF Custody, HolderPlaces, TypeOK
<1>5. \A k \in DOMAIN queue : wpc'[queue[k]] = "queued"
  <2>1. \A k \in DOMAIN queue : queue[k] \in Jobs /\ queue[k] # j
    BY <1>1 DEF Custody, TypeOK
  <2> QED  BY <1>1, <2>1 DEF Custody, TypeOK
<1>6. ~freed
  <2>1. CASE j \in holding
    BY <2>1 DEF Custody
  <2>2. CASE j \notin holding
    <3>1. PICK c \in Clients : Waiting(c, j)
      BY <1>1, <2>2 DEF Custody, Unopened, Awaited
    <3>2. c \in handle
      BY <3>1 DEF Custody, Handles, Outside, Waiting
    <3> QED  BY <3>2 DEF Custody
  <2> QED  BY <2>1, <2>2
<1>7. Custody'
  BY <1>1, <1>2, <1>3, <1>4, <1>5, <1>6 DEF Custody, Handles
<1>8. Cardinality(holding') \in {Cardinality(holding), Cardinality(holding) + 1}
  BY <1>1, FiniteUsers, FS_AddElement
<1>9. RefsCoverUsers'
  BY <1>1, <1>8, FiniteUsers DEF RefsCoverUsers, TypeOK
<1> QED  BY <1>7, <1>9

\* The last close of a job; after a timeout it destroys what nobody holds.
LEMMA CustodyCloses ==
    ASSUME TypeOK, Custody, RefsCoverUsers, NEW j \in Jobs, CloseIo(j)
    PROVE  Custody' /\ RefsCoverUsers'
<1>1. /\ wpc[j] = "closeio" /\ wpc' = [wpc EXCEPT ![j] = "leave"]
      /\ refs' = refs - 1 /\ holding' = holding \ {j}
      /\ freed' => freed \/ refs = 1
      /\ UNCHANGED <<cpc, l, handle, queue, guard>>
  BY DEF CloseIo, Step
<1>2. j \in holding
  BY <1>1 DEF Custody, HolderPlaces
<1>3. /\ \A d \in Clients, k \in Jobs : Waiting(d, k)' <=> Waiting(d, k)
      /\ \A k \in Jobs : Awaited(k)' <=> Awaited(k)
  BY <1>1 DEF Waiting, Awaited
<1>4. \A k \in Jobs : Unopened(k)' => Unopened(k)
  BY <1>1 DEF Unopened, TypeOK
<1>5. /\ \A k \in Jobs : wpc'[k] \in HolderPlaces => k \in holding'
      /\ \A k \in holding' : wpc'[k] \in HolderPlaces \cup {"begin", "open"}
  BY <1>1 DEF Custody, HolderPlaces, TypeOK
<1>6. \A k \in DOMAIN queue : wpc'[queue[k]] = "queued"
  <2>1. \A k \in DOMAIN queue : queue[k] \in Jobs /\ queue[k] # j
    BY <1>1 DEF Custody, TypeOK
  <2> QED  BY <1>1, <2>1 DEF Custody, TypeOK
<1>7. /\ Cardinality(holding') = Cardinality(holding) - 1
      /\ Cardinality(holding') \in Nat /\ IsFiniteSet(holding')
  <2>1. IsFiniteSet(holding')
    BY <1>1, FiniteUsers, FS_RemoveElement
  <2> QED  BY <1>1, <1>2, <2>1, FiniteUsers, FS_RemoveElement, FS_CardinalityType
<1>8. RefsCoverUsers'
  BY <1>1, <1>7, FiniteUsers DEF RefsCoverUsers, TypeOK
<1>9. freed' => handle = {} /\ holding' = {}
  <2>1. ~freed
    BY <1>2 DEF Custody
  <2>2. ASSUME refs = 1 PROVE handle = {} /\ holding' = {}
    <3>1. Cardinality(handle) + Cardinality(holding') <= 0
      BY <1>1, <1>8, <2>2 DEF RefsCoverUsers
    <3>2. Cardinality(handle) = 0 /\ Cardinality(holding') = 0
      BY <3>1, <1>7, FiniteUsers
    <3> QED  BY <1>7, <3>2, FiniteUsers, FS_EmptySet
  <2> QED  BY <1>1, <2>1, <2>2
<1>10. Custody'
  BY <1>1, <1>3, <1>4, <1>5, <1>6, <1>9 DEF Custody, Handles
<1> QED  BY <1>8, <1>10

\* A job that is over gives up its guard, unless its starter still reads it.
LEMMA CustodyLeaves ==
    ASSUME TypeOK, Custody, NEW j \in Jobs, Leave(j)
    PROVE  Custody'
<1>1. /\ wpc[j] = "leave" /\ wpc' = [wpc EXCEPT ![j] = "free"]
      /\ guard' \subseteq guard
      /\ guard' = guard \/ (~Awaited(j) /\ guard' = guard \ {j})
      /\ UNCHANGED <<cpc, l, handle, queue, holding, freed>>
  BY DEF Leave, Step
<1>2. /\ \A d \in Clients, k \in Jobs : Waiting(d, k)' <=> Waiting(d, k)
      /\ \A k \in Jobs : Awaited(k)' <=> Awaited(k)
  BY <1>1 DEF Waiting, Awaited
<1>3. \A k \in Jobs : Unopened(k)' => Unopened(k)
  BY <1>1 DEF Unopened, TypeOK
<1>4. /\ \A k \in Jobs : wpc'[k] \in HolderPlaces => k \in holding
      /\ \A k \in holding : wpc'[k] \in HolderPlaces \cup {"begin", "open"}
  BY <1>1 DEF Custody, HolderPlaces, TypeOK
<1>5. \A k \in DOMAIN queue : wpc'[queue[k]] = "queued"
  <2>1. \A k \in DOMAIN queue : queue[k] \in Jobs /\ queue[k] # j
    BY <1>1 DEF Custody, TypeOK
  <2> QED  BY <1>1, <2>1 DEF Custody, TypeOK
<1>6. \A d \in Clients : cpc[d] = "after" => l[d].ticket \in guard'
  <2>1. ASSUME ~Awaited(j), NEW d \in Clients, cpc[d] = "after"
        PROVE  l[d].ticket # j
    BY <2>1 DEF Awaited, Waiting
  <2> QED  BY <1>1, <2>1 DEF Custody
<1> QED  BY <1>1, <1>2, <1>3, <1>4, <1>5, <1>6 DEF Custody, Handles

\* notify_all makes starters look again, and still wait.
LEMMA CustodyNotify ==
    ASSUME TypeOK, Custody, NEW j \in Jobs, Notify(j)
    PROVE  Custody'
<1>1. /\ cpc' = [c \in Clients |->
                   IF cpc[c] = "asleep" /\ l[c].ticket = j THEN "check" ELSE cpc[c]]
      /\ UNCHANGED <<l, handle, queue, wpc, holding, guard, freed>>
  BY DEF Notify
<1>2. /\ \A d \in Clients, k \in Jobs : Waiting(d, k)' <=> Waiting(d, k)
      /\ \A k \in Jobs : Awaited(k)' <=> Awaited(k)
  BY <1>1 DEF Waiting, Awaited, TypeOK
<1>3. /\ Handles'
      /\ \A d \in Clients : cpc'[d] = "after" => l[d].ticket \in guard
  BY <1>1 DEF Custody, Handles, Outside
<1> QED  BY <1>1, <1>2, <1>3 DEF Custody, Unopened

-----------------------------------------------------------------------------
\* All that a client does.
LEMMA CustodyClient ==
    ASSUME TypeOK, Custody, RefsCoverUsers, NEW c \in Clients,
           Proceed(c) \/ Request(c)
    PROVE  Custody' /\ RefsCoverUsers'
<1> DEFINE Kept  == UNCHANGED <<handle, queue, wpc, holding, guard, freed>>
           Quiets == ClientPlaces \ (WaitPlaces \cup {"enter", "lost"})
<1>W. ASSUME NEW from \in Quiets \ {"idle"}, NEW to \in Quiets, NEW local,
             GotoWith(c, from, to, local), Kept, refs' = refs
      PROVE  Custody' /\ RefsCoverUsers'
  <2>1. c \in handle
    BY <1>W DEF Custody, Handles, Outside, GotoWith
  <2> QED  BY <1>W, <2>1, CustodyCalls, CoverFrame
<1>C. ASSUME NEW from \in Quiets \ {"idle"}, NEW to \in Quiets,
             Goto(c, from, to), Kept, refs' = refs
      PROVE  Custody' /\ RefsCoverUsers'
  BY <1>C, <1>W, GotoIsGotoWith
<1>R. ASSUME NEW from \in Quiets \ {"idle"}, NEW zero \in BOOLEAN,
             Return(c, from, zero), Kept, refs' = refs
      PROVE  Custody' /\ RefsCoverUsers'
  BY <1>R, <1>W, ReturnPlace DEF ClientPlaces, WaitPlaces
<1>1. ASSUME \/ NewOutdated(c) \/ NewClear(c) \/ NewWant(c) \/ NewAbort(c)
      PROVE  Custody' /\ RefsCoverUsers'
  <2>1. \E from \in {"outdated", "clear", "want", "abort"},
           to \in {"clear", "want", "idle", "cas", "abort", "drop"} :
          Goto(c, from, to)
    BY <1>1 DEF NewOutdated, NewClear, NewWant, NewAbort
  <2>2. Kept /\ refs' = refs
    BY <1>1 DEF NewOutdated, NewClear, NewWant, NewAbort
  <2> HIDE DEF Kept
  <2> QED  BY <1>C, <2>1, <2>2 DEF ClientPlaces, WaitPlaces
<1>2. ASSUME \/ StartClaim(c) \/ StartTryLock(c) \/ StartReclaim(c)
             \/ StartUnpredictable(c)
      PROVE  Custody' /\ RefsCoverUsers'
  <2>1. \/ \E from \in {"cas", "trylock", "recas"},
              to \in {"trylock", "submit", "recas"} : Goto(c, from, to)
        \/ \E from \in {"trylock", "recas", "submit"}, zero \in BOOLEAN :
             Return(c, from, zero)
    BY <1>2 DEF StartClaim, StartTryLock, StartReclaim, StartUnpredictable
  <2>2. Kept /\ refs' = refs
    BY <1>2 DEF StartClaim, StartTryLock, StartReclaim, StartUnpredictable
  <2> HIDE DEF Kept
  <2> QED  BY <1>C, <1>R, <2>1, <2>2 DEF ClientPlaces, WaitPlaces
<1>3. ASSUME \/ ReadAwait(c) \/ ReadStale(c) \/ ReadMissing(c) \/ ReadReopen(c)
             \/ ReadPush(c) \/ ReadGate(c) \/ ReadUntil(c) \/ ReadTail(c)
             \/ ReadPoll(c) \/ ReadInterrupted(c) \/ ReadCopy(c)
      PROVE  Custody' /\ RefsCoverUsers'
  <2>1. \/ \E from \in {"await", "stale", "missing", "reopen", "push", "until",
                        "poll", "copy"},
              to \in {"stale", "gate", "reopen", "push", "copy", "poll", "idle"} :
             Goto(c, from, to)
        \/ \E from \in {"stale", "gate", "poll"},
              to \in {"missing", "gate", "cas", "until"} : \E local :
             GotoWith(c, from, to, local)
    BY <1>3 DEF ReadAwait, ReadStale, ReadMissing, ReadReopen, ReadPush, ReadGate,
                ReadUntil, ReadTail, ReadPoll, ReadInterrupted, ReadCopy
  <2>2. Kept /\ refs' = refs
    BY <1>3 DEF ReadAwait, ReadStale, ReadMissing, ReadReopen, ReadPush, ReadGate,
                ReadUntil, ReadTail, ReadPoll, ReadInterrupted, ReadCopy
  <2> HIDE DEF Kept
  <2> QED  BY <1>C, <1>W, <2>1, <2>2 DEF ClientPlaces, WaitPlaces
<1>4. ASSUME NEW i \in Items, Read(c, i) PROVE Custody' /\ RefsCoverUsers'
  <2>1. \E to \in {"missing", "gate", "await", "stale"} : \E local :
          GotoWith(c, "idle", to, local)
    BY <1>4 DEF Read
  <2>2. c \in handle /\ Kept /\ refs' = refs
    BY <1>4 DEF Read
  <2> QED  BY <2>1, <2>2, CustodyCalls, CoverFrame DEF ClientPlaces, WaitPlaces
<1>5. ASSUME StartCheck(c) \/ StartBlock(c) \/ WakeUp(c)
      PROVE  Custody' /\ RefsCoverUsers'
  <2>1. \E from \in WaitPlaces, to \in WaitPlaces :
          Goto(c, from, to) /\ (to = "after" => l[c].ticket \in guard)
    BY <1>5 DEF StartCheck, StartBlock, WakeUp, WaitPlaces
  <2>2. Kept /\ refs' = refs
    BY <1>5 DEF StartCheck, StartBlock, WakeUp
  <2> QED  BY <2>1, <2>2, CustodyWaits, CoverFrame
<1>6. ASSUME StartSubmit(c) PROVE Custody' /\ RefsCoverUsers'
  <2>1. UNCHANGED <<refs, handle, holding>>
    BY <1>6 DEF StartSubmit
  <2> QED  BY <1>6, <2>1, CustodySubmit, CoverFrame
<1>7. ASSUME StartAfter(c) PROVE Custody' /\ RefsCoverUsers'
  <2>1. UNCHANGED <<refs, handle, holding>>
    BY <1>7 DEF StartAfter
  <2> QED  BY <1>7, <2>1, CustodyAfter, CoverFrame
<1>8. ASSUME New(c) PROVE Custody' /\ RefsCoverUsers'
  BY <1>8, CustodyNew DEF New
<1>9. ASSUME NewFails(c) PROVE Custody' /\ RefsCoverUsers'
  BY <1>9, CustodyNew DEF NewFails
<1>10. ASSUME NewDrop(c) PROVE Custody' /\ RefsCoverUsers'
  <2>1. /\ cpc[c] = "drop" /\ c \in handle
        /\ cpc' = [cpc EXCEPT ![c] = "idle"]
        /\ \A d \in Clients \ {c} : l'[d] = l[d]
    BY <1>10 DEF NewDrop, Goto, Custody, Handles, Outside, TypeOK
  <2>2. freed' => freed \/ refs = 1
    BY <1>10 DEF NewDrop
  <2> QED  BY <1>10, <2>1, <2>2, CustodyDrop DEF NewDrop
<1>11. ASSUME Delete(c) PROVE Custody' /\ RefsCoverUsers'
  <2>1. /\ cpc[c] = "idle" /\ c \in handle
        /\ cpc' = [cpc EXCEPT ![c] = "idle"]
        /\ \A d \in Clients \ {c} : l'[d] = l[d]
    BY <1>11 DEF Delete, TypeOK
  <2> QED  BY <1>11, <2>1, CustodyDrop DEF Delete
<1>12. ASSUME Find(c) \/ NewLost(c) PROVE Custody' /\ RefsCoverUsers'
  <2>1. UNCHANGED <<refs, handle, holding>>
    BY <1>12 DEF Find, NewLost
  <2> QED  BY <1>12, <2>1, CustodyEntering, CoverFrame
<1> QED  BY <1>1, <1>2, <1>3, <1>4, <1>5, <1>6, <1>7, <1>8, <1>9, <1>10, <1>11,
            <1>12
         DEF Proceed, Request

\* All that a job does.
LEMMA CustodyJob ==
    ASSUME TypeOK, Custody, RefsCoverUsers, NEW j \in Jobs, Work(j) \/ Notify(j)
    PROVE  Custody' /\ RefsCoverUsers'
<1>1. ASSUME LockActive(j) \/ Begin(j) PROVE Custody' /\ RefsCoverUsers'
  <2>1. UNCHANGED <<refs, handle, holding>>
    BY <1>1 DEF LockActive, Begin
  <2> QED  BY <1>1, <2>1, CustodyEnters, CoverFrame
<1>2. ASSUME \/ OpenOutput(j) \/ Looping(j) \/ Write(j) \/ Advance(j) \/ Finish(j)
             \/ After(j) \/ Suspended(j) \/ Release(j) \/ Retry(j) \/ Undecode(j)
             \/ Report(j) \/ Throw(j, "output") \/ Throw(j, "work")
      PROVE  Custody' /\ RefsCoverUsers'
  <2>1. \E from \in {"output", "loop", "work", "after", "suspended", "release",
                     "retry", "undecode", "report"},
           to \in {"loop", "release", "work", "after", "suspended", "retry",
                   "begin", "undecode", "report", "closeio"} :
          \E local : Step(j, from, to, local)
    <3>1. CASE \/ OpenOutput(j) \/ Looping(j) \/ Write(j) \/ Finish(j) \/ After(j)
      BY <3>1 DEF OpenOutput, Looping, Loop, Write, Finish, After
    <3>2. CASE Advance(j)
      BY <3>2 DEF Advance, MoveTo
    <3>3. CASE \/ Suspended(j) \/ Release(j) \/ Retry(j) \/ Undecode(j) \/ Report(j)
               \/ Throw(j, "output") \/ Throw(j, "work")
      BY <3>3 DEF Suspended, Release, Retry, Undecode, Report, Throw
    <3> QED  BY <1>2, <3>1, <3>2, <3>3
  <2>2. guard' \in {guard, guard \cup {j}}
    BY <1>2 DEF OpenOutput, Looping, Loop, Write, Advance, Finish, After,
                Suspended, Release, Retry, Undecode, Report, Throw, Quiet, Signal
  <2>3. UNCHANGED <<refs, cpc, l, handle, queue, holding, freed>>
    BY <1>2 DEF OpenOutput, Looping, Loop, Write, Advance, Finish, After,
                Suspended, Release, Retry, Undecode, Report, Throw
  <2> QED  BY <2>1, <2>2, <2>3, CustodyRuns, CoverFrame DEF HolderPlaces
<1>3. ASSUME Leave(j) PROVE Custody' /\ RefsCoverUsers'
  <2>1. UNCHANGED <<refs, handle, holding>>
    BY <1>3 DEF Leave
  <2> QED  BY <1>3, <2>1, CustodyLeaves, CoverFrame
<1>4. ASSUME Notify(j) PROVE Custody' /\ RefsCoverUsers'
  <2>1. UNCHANGED <<refs, handle, holding>>
    BY <1>4 DEF Notify
  <2> QED  BY <1>4, <2>1, CustodyNotify, CoverFrame
<1> QED  BY <1>1, <1>2, <1>3, <1>4, CustodyOpens, CustodyCloses DEF Work

LEMMA CustodyOthers ==
    ASSUME TypeOK, Custody, RefsCoverUsers,
           Start \/ Environment \/ UNCHANGED vars
    PROVE  Custody' /\ RefsCoverUsers'
<1>1. CASE Start
  <2>1. UNCHANGED <<refs, handle, holding>>
    BY <1>1 DEF Start
  <2> QED  BY <1>1, <2>1, CustodyStart, CoverFrame
<1>2. CASE Environment \/ UNCHANGED vars
  <2>1. UNCHANGED <<refs, cpc, l, handle, queue, wpc, holding, guard, freed>>
    BY <1>2 DEF Environment, SourceChanges, SigInt, LoseFile, vars
  <2> QED  BY <2>1, CustodyFrame, CoverFrame
<1> QED  BY <1>1, <1>2

\* The inductive invariant behind the next two theorems.
CustodyInv == TypeOK /\ Custody /\ RefsCoverUsers

LEMMA InitCustody == Init => CustodyInv
<1> SUFFICES ASSUME Init PROVE Custody /\ RefsCoverUsers
  BY InitType DEF CustodyInv
<1>1. RefsCoverUsers
  BY FS_EmptySet DEF Init, RefsCoverUsers
<1>2. /\ \A c \in Clients : cpc[c] = "idle"
      /\ \A j \in Jobs : wpc[j] = "free"
      /\ queue = <<>> /\ holding = {} /\ ~freed
  BY DEF Init
<1> QED  BY <1>1, <1>2 DEF Custody, Handles, Outside, Waiting, Unopened, HolderPlaces

LEMMA NextCustody == CustodyInv /\ [Next]_vars => CustodyInv'
<1> SUFFICES ASSUME TypeOK, Custody, RefsCoverUsers, [Next]_vars
             PROVE  Custody' /\ RefsCoverUsers'
  BY NextType DEF CustodyInv
<1>1. ASSUME NEW c \in Clients, Proceed(c) \/ Request(c)
      PROVE  Custody' /\ RefsCoverUsers'
  BY <1>1, CustodyClient
<1>2. ASSUME NEW j \in Jobs, Work(j) \/ Notify(j)
      PROVE  Custody' /\ RefsCoverUsers'
  BY <1>2, CustodyJob
<1> QED  BY <1>1, <1>2, CustodyOthers DEF Next

LEMMA CustodyHolds == Spec => []CustodyInv
BY InitCustody, NextCustody, PTL DEF Spec

\* Whatever clients and workers do, the count of references is never lower
\* than the number of open handles and of workers that opened the entry.
THEOREM RefsCoverUsersHolds == Spec => []RefsCoverUsers
<1>1. CustodyInv => RefsCoverUsers
  BY DEF CustodyInv
<1> QED  BY <1>1, CustodyHolds, PTL

\* Who holds a reference is where it must be: handles, calls in progress, queued
\* jobs and workers agree with each other about the entry and its users.
THEOREM CustodyAlways == Spec => []Custody
<1>1. CustodyInv => Custody
  BY DEF CustodyInv
<1> QED  BY <1>1, CustodyHolds, PTL

\* An entry is destroyed only when no handle, no call that counted itself, no
\* queued job and no worker before its last close is left.  (An opener that
\* still waits for the lock of the entry has not counted itself.)
THEOREM FreedUnusedHolds == Spec => []FreedUnused
<1>1. CustodyInv => FreedUnused
  <2> SUFFICES ASSUME CustodyInv, freed PROVE FreedUnused
    BY DEF FreedUnused
  <2> USE DEF CustodyInv
  <2>1. handle = {} /\ holding = {} /\ \A c \in Clients : cpc[c] \in Outside
    BY DEF Custody, Handles
  <2>2. \A j \in Jobs : ~Unopened(j)
    BY <2>1 DEF Custody, Awaited, Waiting, Outside
  <2>3. \A j \in Jobs : wpc[j] \in {"free", "leave"}
    BY <2>1, <2>2 DEF Custody, Unopened, HolderPlaces, TypeOK, JobPlaces
  <2>4. queue = <<>>
    <3>1. \A k \in DOMAIN queue : queue[k] \in Jobs /\ wpc[queue[k]] = "queued"
      BY DEF Custody, TypeOK
    <3>2. DOMAIN queue = {}
      BY <2>3, <3>1
    <3> QED  BY <3>2 DEF TypeOK
  <2> QED  BY <2>1, <2>3, <2>4 DEF FreedUnused
<1> QED  BY <1>1, CustodyHolds, PTL

-----------------------------------------------------------------------------
(* m_is_decoding *)

\* No step of a client takes the flag's owner away and leaves the flag set.
LEMMA DecodingClient ==
    ASSUME TypeOK, DecodingHasWorker, NEW c \in Clients, Proceed(c) \/ Request(c)
    PROVE  DecodingHasWorker'
<1> DEFINE Kept == \A d \in Clients : cpc[d] = "submit" => cpc'[d] = "submit"
<1>K. ASSUME Kept, UNCHANGED wpc, decoding' => decoding PROVE DecodingHasWorker'
  BY <1>K DEF DecodingHasWorker
<1>G. ASSUME NEW from, NEW to, from # "submit", Goto(c, from, to) PROVE Kept
  BY <1>G DEF Goto, TypeOK
<1>W. ASSUME NEW from, NEW to, NEW local, from # "submit",
             GotoWith(c, from, to, local)
      PROVE  Kept
  BY <1>W DEF GotoWith, TypeOK
<1> HIDE DEF Kept
<1>1. ASSUME \/ Find(c) \/ NewLost(c) \/ New(c) \/ NewFails(c)
             \/ NewOutdated(c) \/ NewClear(c)
             \/ NewWant(c) \/ NewAbort(c) \/ NewDrop(c) \/ WakeUp(c)
             \/ StartCheck(c) \/ StartBlock(c)
      PROVE  DecodingHasWorker'
  <2>1. \E from \in {"idle", "enter", "outdated", "clear", "want", "abort", "drop",
                     "asleep", "check", "block"} :
          \E to : Goto(c, from, to)
    BY <1>1 DEF Find, NewLost, New, NewFails, NewOutdated, NewClear, NewWant,
                NewAbort, NewDrop,
                WakeUp, StartCheck, StartBlock
  <2>2. UNCHANGED wpc /\ (decoding' => decoding)
    BY <1>1 DEF Find, NewLost, New, NewFails, NewOutdated, NewClear, NewWant,
                NewAbort, NewDrop,
                WakeUp, StartCheck, StartBlock
  <2> QED  BY <1>G, <1>K, <2>1, <2>2
<1>2. ASSUME \/ ReadAwait(c) \/ ReadStale(c) \/ ReadMissing(c) \/ ReadReopen(c)
             \/ ReadPush(c) \/ ReadGate(c) \/ ReadUntil(c) \/ ReadTail(c)
             \/ ReadPoll(c) \/ ReadInterrupted(c) \/ ReadCopy(c)
             \/ \E i \in Items : Read(c, i)
      PROVE  DecodingHasWorker'
  <2>1. \/ \E from \in {"await", "stale", "missing", "reopen", "push", "until",
                        "poll", "copy"} : \E to : Goto(c, from, to)
        \/ \E from \in {"idle", "stale", "gate", "poll"} :
             \E to, local : GotoWith(c, from, to, local)
    <3>1. CASE \E i \in Items : Read(c, i)
      BY <3>1 DEF Read
    <3>2. CASE ReadGate(c)
      BY <3>2 DEF ReadGate
    <3>3. CASE \/ ReadAwait(c) \/ ReadStale(c) \/ ReadMissing(c) \/ ReadReopen(c)
               \/ ReadPush(c) \/ ReadUntil(c) \/ ReadTail(c)
               \/ ReadPoll(c) \/ ReadInterrupted(c) \/ ReadCopy(c)
      BY <3>3 DEF ReadAwait, ReadStale, ReadMissing, ReadReopen, ReadPush,
                  ReadUntil, ReadTail, ReadPoll, ReadInterrupted, ReadCopy
    <3> QED  BY <1>2, <3>1, <3>2, <3>3
  <2>2. wpc' = wpc /\ decoding' = decoding
    BY <1>2 DEF ReadAwait, ReadStale, ReadMissing, ReadReopen, ReadPush, ReadGate,
                ReadUntil, ReadTail, ReadPoll, ReadInterrupted, ReadCopy, Read
  <2>3. UNCHANGED wpc /\ (decoding' => decoding)
    BY <2>2
  <2> QED  BY <1>G, <1>K, <1>W, <2>1, <2>3
<1>3. ASSUME StartClaim(c) PROVE DecodingHasWorker'
  <2>1. Kept /\ UNCHANGED wpc
    BY <1>3, <1>G DEF StartClaim
  <2>2. CASE decoding
    BY <1>K, <2>1, <2>2
  <2>3. CASE ~decoding
    <3>1. cpc'[c] = "submit"
      BY <1>3, <2>3 DEF StartClaim, Goto, TypeOK
    <3> QED  BY <3>1 DEF DecodingHasWorker
  <2> QED  BY <2>2, <2>3
<1>4. ASSUME StartTryLock(c) PROVE DecodingHasWorker'
  <2>1. \E to, local : GotoWith(c, "trylock", to, local)
    BY <1>4, GotoIsGotoWith DEF StartTryLock, Return
  <2>2. UNCHANGED wpc /\ (decoding' => decoding)
    BY <1>4 DEF StartTryLock
  <2> QED  BY <1>K, <1>W, <2>1, <2>2
<1>5. ASSUME StartReclaim(c) PROVE DecodingHasWorker'
  <2>1. CASE decoding
    <3>1. \E to, local : GotoWith(c, "recas", to, local)
      BY <1>5, <2>1 DEF StartReclaim, Return
    <3>2. UNCHANGED wpc
      BY <1>5 DEF StartReclaim
    <3> QED  BY <1>K, <1>W, <2>1, <3>1, <3>2
  <2>2. CASE ~decoding
    <3>1. cpc'[c] = "submit"
      BY <1>5, <2>2 DEF StartReclaim, Goto, TypeOK
    <3> QED  BY <3>1 DEF DecodingHasWorker
  <2> QED  BY <2>1, <2>2
<1>6. ASSUME StartUnpredictable(c) PROVE DecodingHasWorker'
  BY <1>6 DEF StartUnpredictable, DecodingHasWorker
<1>7. ASSUME StartSubmit(c) PROVE DecodingHasWorker'
  <2>1. PICK j \in Jobs : wpc' = [wpc EXCEPT ![j] = "queued"]
    BY <1>7 DEF StartSubmit
  <2>2. wpc'[j] \in JobPlaces \ {"free", "report", "closeio", "leave"}
    BY <2>1 DEF TypeOK, JobPlaces
  <2> QED  BY <2>2 DEF DecodingHasWorker
<1>8. ASSUME StartAfter(c) PROVE DecodingHasWorker'
  <2>1. \E to, local : GotoWith(c, "after", to, local)
    BY <1>8 DEF StartAfter, Return
  <2>2. UNCHANGED wpc /\ (decoding' => decoding)
    BY <1>8 DEF StartAfter
  <2> QED  BY <1>K, <1>W, <2>1, <2>2
<1>9. ASSUME Delete(c) PROVE DecodingHasWorker'
  BY <1>9 DEF Delete, DecodingHasWorker
<1> QED  BY <1>1, <1>2, <1>3, <1>4, <1>5, <1>6, <1>7, <1>8, <1>9
         DEF Proceed, Request

\* A job on the way keeps the flag covered; the step that ends it resets it.
LEMMA DecodingJob ==
    ASSUME TypeOK, DecodingHasWorker, NEW j \in Jobs, Work(j) \/ Notify(j)
    PROVE  DecodingHasWorker'
<1>1. ASSUME \/ LockActive(j) \/ Begin(j) \/ OpenInput(j) \/ OpenOutput(j)
             \/ Looping(j) \/ Write(j) \/ Advance(j) \/ Finish(j) \/ After(j)
             \/ Suspended(j) \/ Release(j) \/ Retry(j)
             \/ Throw(j, "output") \/ Throw(j, "work")
      PROVE  DecodingHasWorker'
  <2>1. \E to \in {"begin", "open", "output", "loop", "release", "work", "after",
                   "suspended", "retry", "undecode"} :
          wpc' = [wpc EXCEPT ![j] = to]
    BY <1>1 DEF LockActive, Begin, OpenInput, OpenOutput, Looping, Loop, Write,
                Advance, MoveTo, Finish, After, Suspended, Release, Retry, Throw,
                Step
  <2>2. wpc'[j] \in JobPlaces \ {"free", "report", "closeio", "leave"}
    BY <2>1 DEF TypeOK, JobPlaces
  <2> QED  BY <2>2 DEF DecodingHasWorker
<1>2. ASSUME Undecode(j) PROVE DecodingHasWorker'
  BY <1>2 DEF Undecode, DecodingHasWorker
<1>3. ASSUME Report(j) \/ CloseIo(j) \/ Leave(j) PROVE DecodingHasWorker'
  <2>1. /\ wpc[j] \in {"report", "closeio", "leave"}
        /\ \A k \in Jobs \ {j} : wpc'[k] = wpc[k]
        /\ UNCHANGED <<decoding, cpc>>
    BY <1>3 DEF Report, CloseIo, Leave, Step, TypeOK
  <2> QED  BY <2>1 DEF DecodingHasWorker
<1>4. ASSUME Notify(j) PROVE DecodingHasWorker'
  <2>1. \A c \in Clients : cpc[c] = "submit" => cpc'[c] = "submit"
    BY <1>4 DEF Notify, TypeOK
  <2> QED  BY <1>4, <2>1 DEF Notify, DecodingHasWorker
<1> QED  BY <1>1, <1>2, <1>3, <1>4 DEF Work

\* An entry that is marked as being decoded has a starter about to submit a
\* job or a job: the flag is never left behind by a worker that is gone.
THEOREM DecodingHasWorkerHolds == Spec => []DecodingHasWorker
<1>1. Init => DecodingHasWorker
  BY DEF Init, DecodingHasWorker
<1>2. TypeOK /\ DecodingHasWorker /\ [Next]_vars => DecodingHasWorker'
  <2> SUFFICES ASSUME TypeOK, DecodingHasWorker, [Next]_vars
               PROVE  DecodingHasWorker'
    OBVIOUS
  <2>1. ASSUME NEW c \in Clients, Proceed(c) \/ Request(c) PROVE DecodingHasWorker'
    BY <2>1, DecodingClient
  <2>2. ASSUME NEW j \in Jobs, Work(j) \/ Notify(j) PROVE DecodingHasWorker'
    BY <2>2, DecodingJob
  <2>3. CASE Start
    <3>1. Head(queue) \in Jobs /\ wpc' = [wpc EXCEPT ![Head(queue)] = "ready"]
          /\ UNCHANGED <<decoding, cpc>>
      BY <2>3, HeadTailProperties DEF Start, TypeOK
    <3>2. wpc'[Head(queue)] \in JobPlaces \ {"free", "report", "closeio", "leave"}
      BY <3>1 DEF TypeOK, JobPlaces
    <3> QED  BY <3>1, <3>2 DEF DecodingHasWorker
  <2>4. CASE Environment \/ UNCHANGED vars
    <3>1. UNCHANGED <<decoding, cpc, wpc>>
      BY <2>4 DEF Environment, SourceChanges, SigInt, LoseFile, vars
    <3> QED  BY <3>1 DEF DecodingHasWorker
  <2> QED  BY <2>1, <2>2, <2>3, <2>4 DEF Next
<1> QED  BY <1>1, <1>2, TypeHolds, PTL DEF Spec

-----------------------------------------------------------------------------
(* m_thread_running_lock_guard *)

\* Where a job has signalled its starter for certain, and where it has if it
\* remembers that it did (the local variable "unlocked").
Over    == {"free", "retry", "undecode", "report", "closeio", "leave"}
Turning == {"loop", "work", "after", "suspended", "release"}
Told(j) == wpc[j] \in Over \/ (wpc[j] \in Turning /\ w[j].unlocked)

Signalled == \A c \in Clients, j \in Jobs : Waiting(c, j) /\ Told(j) => j \in guard

LEMMA SignalledClient ==
    ASSUME TypeOK, Custody, Signalled, NEW c \in Clients, Proceed(c) \/ Request(c)
    PROVE  Signalled'
<1> DEFINE Same == \A d \in Clients, k \in Jobs : Waiting(d, k)' => Waiting(d, k)
<1>F. ASSUME Same, UNCHANGED <<wpc, w, guard>> PROVE Signalled'
  BY <1>F DEF Signalled, Told
<1>G. ASSUME NEW from, NEW to \in ClientPlaces,
             to \in WaitPlaces => from \in WaitPlaces, Goto(c, from, to)
      PROVE  Same
  BY <1>G DEF Goto, Waiting, WaitPlaces, TypeOK
<1>W. ASSUME NEW from, NEW to \in ClientPlaces \ WaitPlaces, NEW local,
             GotoWith(c, from, to, local)
      PROVE  Same
  BY <1>W DEF GotoWith, Waiting, WaitPlaces, TypeOK
<1>R. ASSUME NEW from, NEW zero \in BOOLEAN, Return(c, from, zero) PROVE Same
  BY <1>R, <1>W, ReturnPlace DEF ClientPlaces, WaitPlaces
<1> HIDE DEF Same
<1>1. ASSUME \/ Find(c) \/ NewLost(c) \/ New(c) \/ NewFails(c)
             \/ NewOutdated(c) \/ NewClear(c)
             \/ NewWant(c) \/ NewAbort(c) \/ NewDrop(c)
      PROVE  Signalled'
  <2>1. \E from : \E to \in {"enter", "lost", "outdated", "abort", "clear",
                             "want", "idle", "cas", "drop"} : Goto(c, from, to)
    BY <1>1 DEF Find, NewLost, New, NewFails, NewOutdated, NewClear, NewWant,
                NewAbort, NewDrop
  <2>2. UNCHANGED <<wpc, w, guard>>
    BY <1>1 DEF Find, NewLost, New, NewFails, NewOutdated, NewClear, NewWant,
                NewAbort, NewDrop
  <2> QED  BY <1>F, <1>G, <2>1, <2>2 DEF ClientPlaces, WaitPlaces
<1>2. ASSUME \/ StartClaim(c) \/ StartTryLock(c) \/ StartReclaim(c)
             \/ StartUnpredictable(c)
      PROVE  Signalled'
  <2>1. \/ \E from : \E to \in {"trylock", "submit", "recas"} : Goto(c, from, to)
        \/ \E from : \E zero \in BOOLEAN : Return(c, from, zero)
    BY <1>2 DEF StartClaim, StartTryLock, StartReclaim, StartUnpredictable
  <2>2. UNCHANGED <<wpc, w, guard>>
    BY <1>2 DEF StartClaim, StartTryLock, StartReclaim, StartUnpredictable
  <2> QED  BY <1>F, <1>G, <1>R, <2>1, <2>2 DEF ClientPlaces, WaitPlaces
<1>3. ASSUME StartCheck(c) \/ StartBlock(c) \/ WakeUp(c) PROVE Signalled'
  <2>1. \E from \in WaitPlaces, to \in WaitPlaces : Goto(c, from, to)
    BY <1>3 DEF StartCheck, StartBlock, WakeUp, WaitPlaces
  <2>2. UNCHANGED <<wpc, w, guard>>
    BY <1>3 DEF StartCheck, StartBlock, WakeUp
  <2> QED  BY <1>F, <1>G, <2>1, <2>2 DEF ClientPlaces, WaitPlaces
<1>4. ASSUME \/ ReadAwait(c) \/ ReadStale(c) \/ ReadMissing(c) \/ ReadReopen(c)
             \/ ReadPush(c) \/ ReadUntil(c) \/ ReadTail(c)
             \/ ReadPoll(c) \/ ReadInterrupted(c) \/ ReadCopy(c)
      PROVE  Signalled'
  <2>1. \/ \E from : \E to \in {"stale", "gate", "reopen", "push", "copy", "poll",
                                "idle"} : Goto(c, from, to)
        \/ \E from : \E to \in {"missing", "gate", "cas"} :
             \E local : GotoWith(c, from, to, local)
    BY <1>4 DEF ReadAwait, ReadStale, ReadMissing, ReadReopen, ReadPush,
                ReadUntil, ReadTail, ReadPoll, ReadInterrupted, ReadCopy
  <2>2. UNCHANGED <<wpc, w, guard>>
    BY <1>4 DEF ReadAwait, ReadStale, ReadMissing, ReadReopen, ReadPush,
                ReadUntil, ReadTail, ReadPoll, ReadInterrupted, ReadCopy
  <2> QED  BY <1>F, <1>G, <1>W, <2>1, <2>2 DEF ClientPlaces, WaitPlaces
<1>5. ASSUME ReadGate(c) \/ \E i \in Items : Read(c, i) PROVE Signalled'
  <2>1. \E from : \E to \in {"cas", "until", "missing", "gate", "await", "stale"} :
          \E local : GotoWith(c, from, to, local)
    BY <1>5 DEF ReadGate, Read
  <2>2. UNCHANGED <<wpc, w, guard>>
    BY <1>5 DEF ReadGate, Read
  <2> QED  BY <1>F, <1>W, <2>1, <2>2 DEF ClientPlaces, WaitPlaces
<1>6. ASSUME Delete(c) PROVE Signalled'
  <2>1. UNCHANGED <<wpc, w, guard, cpc, l>>
    BY <1>6 DEF Delete
  <2> QED  BY <2>1 DEF Signalled, Waiting, Told
<1>7. ASSUME StartSubmit(c) PROVE Signalled'
  <2>1. PICK j \in Jobs :
          /\ ~Awaited(j) /\ wpc' = [wpc EXCEPT ![j] = "queued"]
          /\ GotoWith(c, "submit", "check", [l[c] EXCEPT !.ticket = j])
          /\ guard' = guard \ {j} /\ w' = w
    BY <1>7 DEF StartSubmit
  <2>2. ~Told(j)'
    BY <2>1 DEF Told, Over, Turning, TypeOK
  <2>3. l'[c].ticket = j
    BY <2>1 DEF GotoWith, TypeOK, CallLocals
  <2>4. \A d \in Clients, k \in Jobs : k # j /\ Waiting(d, k)' => Waiting(d, k)
    BY <2>1, <2>3 DEF Waiting, GotoWith, TypeOK
  <2>5. \A k \in Jobs : k # j /\ Told(k)' => Told(k)
    BY <2>1 DEF Told, TypeOK
  <2> QED  BY <2>1, <2>2, <2>4, <2>5 DEF Signalled
<1>8. ASSUME StartAfter(c) PROVE Signalled'
  <2>1. PICK to \in {"idle", "abort", "until", "poll"}, local \in CallLocals :
          GotoWith(c, "after", to, local)
    BY <1>8, ReturnPlace DEF StartAfter, TypeOK
  <2>2. guard' = guard \ {l[c].ticket} /\ UNCHANGED <<wpc, w>>
    BY <1>8 DEF StartAfter
  <2>3. \A d \in Clients, k \in Jobs : Waiting(d, k)' => Waiting(d, k) /\ d # c
    BY <2>1 DEF Waiting, GotoWith, TypeOK
  <2>4. \A d \in Clients, k \in Jobs :
          Waiting(d, k) /\ d # c => k # l[c].ticket
    BY <2>1 DEF Custody, Waiting, GotoWith
  <2>5. \A k \in Jobs : Told(k)' => Told(k)
    BY <2>2 DEF Told
  <2> QED  BY <2>2, <2>3, <2>4, <2>5 DEF Signalled
<1> QED  BY <1>1, <1>2, <1>3, <1>4, <1>5, <1>6, <1>7, <1>8 DEF Proceed, Request

LEMMA SignalledJob ==
    ASSUME TypeOK, Custody, Signalled, NEW j \in Jobs, Work(j) \/ Notify(j)
    PROVE  Signalled'
<1> DEFINE Same   == UNCHANGED <<cpc, l>>
           Others == \A k \in Jobs \ {j} : wpc'[k] = wpc[k] /\ w'[k] = w[k]
           Grows  == guard \subseteq guard'
<1>F. ASSUME Same, Others, Grows, Told(j)' => Told(j) \/ j \in guard'
      PROVE  Signalled'
  BY <1>F DEF Signalled, Told, Waiting
<1>S. ASSUME NEW from, NEW to, NEW local, Step(j, from, to, local)
      PROVE  /\ Others /\ wpc[j] = from
             /\ wpc'[j] = to /\ w'[j] = local
  BY <1>S DEF Step, TypeOK
<1>Q. Quiet \/ Signal(j) => Grows
  BY DEF Quiet, Signal
<1> HIDE DEF Same, Others, Grows
<1>1. ASSUME LockActive(j) \/ Begin(j) \/ OpenInput(j) PROVE Signalled'
  <2>1. \E from : \E to \in {"begin", "open", "output"} : \E local :
          Step(j, from, to, local)
    BY <1>1 DEF LockActive, Begin, OpenInput
  <2>2. Others /\ ~Told(j)'
    BY <2>1, <1>S DEF Told, Over, Turning
  <2>3. Same /\ Grows
    BY <1>1 DEF LockActive, Begin, OpenInput, Same, Grows
  <2> QED  BY <1>F, <2>2, <2>3
<1>2. ASSUME OpenOutput(j) PROVE Signalled'
  <2>1. /\ Others /\ wpc'[j] = "loop"
        /\ w'[j].unlocked = ~Prebuffer
    <3>1. \E local : /\ Step(j, "output", "loop", local)
                      /\ local.unlocked = ~Prebuffer
      <4> DEFINE again  == Hls /\ w[j].pts
                 target == IF again THEN w[j].cur
                           ELSE IF Hls /\ seek > 1 /\ ~NearBeginning(seek)
                             THEN seek ELSE 1
                 rest   == IF again THEN Stacked(j) ELSE <<>>
                 local  == [w[j] EXCEPT !.cur = target, !.unlocked = ~Prebuffer,
                              !.seeked = @ \/ (~again /\ target > 1),
                              !.fifo = rest]
      <4>1. Step(j, "output", "loop", local)
        BY <1>2 DEF OpenOutput
      <4> HIDE DEF again, target, rest
      <4>2. local.unlocked = ~Prebuffer
        BY DEF TypeOK, RunLocals
      <4> QED  BY <4>1, <4>2
    <3> QED  BY <3>1, <1>S
  <2>2. Others /\ Same
    BY <1>2, <2>1 DEF OpenOutput, Same
  <2>3. CASE Prebuffer
    <3>1. w'[j].unlocked = FALSE
      BY <2>1, <2>3
    <3>2. ~Told(j)'
      BY <2>1, <3>1 DEF Told, Over
    <3> QED  BY <1>2, <1>F, <1>Q, <2>2, <2>3, <3>2 DEF OpenOutput
  <2>4. CASE ~Prebuffer
    <3>1. Signal(j)
      BY <1>2, <2>4 DEF OpenOutput
    <3> QED  BY <1>F, <1>Q, <2>2, <3>1 DEF Signal
  <2> QED  BY <2>3, <2>4
<1>3. ASSUME \/ Looping(j) \/ Write(j) \/ Advance(j) \/ Finish(j) \/ Suspended(j)
      PROVE  Signalled'
  <2>1. \E from \in Turning, to \in Turning : \E local :
          Step(j, from, to, local) /\ local.unlocked = w[j].unlocked
    <3>1. w[j] \in RunLocals
      BY DEF TypeOK
    <3>2. CASE Looping(j)
      <4> DEFINE more == IF Hls THEN Stacked(j) ELSE w[j].fifo
                 r    == [w[j] EXCEPT !.timeout = FALSE, !.fifo = more]
      <4>1. CASE \E b \in BOOLEAN :
                   Step(j, "loop", "release", [w[j] EXCEPT !.timeout = b])
        <5>1. \A b \in BOOLEAN : [w[j] EXCEPT !.timeout = b].unlocked = w[j].unlocked
          BY <3>1 DEF RunLocals
        <5> QED  BY <4>1, <5>1 DEF Turning
      <4>2. CASE Step(j, "loop", "release", w[j])
        BY <4>2 DEF Turning
      <4>3. CASE Step(j, "loop", "work", r)
        <5> HIDE DEF more
        <5>1. r.unlocked = w[j].unlocked
          BY <3>1 DEF RunLocals
        <5> HIDE DEF r
        <5> QED  BY <4>3, <5>1 DEF Turning
      <4>4. \/ \E b \in BOOLEAN :
                 Step(j, "loop", "release", [w[j] EXCEPT !.timeout = b])
            \/ Step(j, "loop", "release", w[j])
            \/ Step(j, "loop", "work", r)
        BY <3>2 DEF Looping, Loop
      <4> HIDE DEF r
      <4> QED  BY <4>1, <4>2, <4>3, <4>4
    <3>3. CASE Write(j) \/ Finish(j) \/ Suspended(j)
      <4>1. /\ [w[j] EXCEPT !.wrote = TRUE, !.pts = Hls].unlocked = w[j].unlocked
            /\ [w[j] EXCEPT !.eof = TRUE].unlocked = w[j].unlocked
            /\ [w[j] EXCEPT !.timeout = TRUE].unlocked = w[j].unlocked
        BY <3>1 DEF RunLocals
      <4> QED  BY <3>3, <4>1 DEF Write, Finish, Suspended, Turning
    <3>4. ASSUME NEW target, NEW seeks, NEW rest, MoveTo(j, target, seeks, rest)
          PROVE  \E local : /\ Step(j, "work", "after", local)
                            /\ local.unlocked = w[j].unlocked
      <4> DEFINE r == [w[j] EXCEPT !.cur = target, !.wrote = FALSE,
                                   !.seeked = @ \/ seeks, !.fifo = rest]
      <4>1. r.unlocked = w[j].unlocked
        BY <3>1 DEF RunLocals
      <4>2. Step(j, "work", "after", r)
        BY <3>4 DEF MoveTo
      <4> QED  BY <4>1, <4>2
    <3>5. CASE Advance(j)
      BY <3>4, <3>5 DEF Advance, Turning
    <3> QED  BY <1>3, <3>2, <3>3, <3>5
  <2>2. Others /\ (Told(j)' => Told(j))
    BY <2>1, <1>S DEF Told, Over, Turning
  <2>3. Same /\ Grows
    BY <1>3 DEF Looping, Write, Advance, Finish, Suspended, Same, Grows
  <2> QED  BY <1>F, <2>2, <2>3
<1>4. ASSUME After(j) \/ Release(j) PROVE Signalled'
  <2>1. /\ wpc[j] \in Turning /\ Others
        /\ \/ w[j].unlocked
           \/ Signal(j)
           \/ wpc'[j] \in Turning /\ (w'[j].unlocked => w[j].unlocked)
    BY <1>4, <1>S DEF After, Release, Turning
  <2>2. Same /\ Grows
    BY <1>4, <1>Q DEF After, Release, Same
  <2>3. CASE Signal(j)
    BY <1>F, <2>1, <2>2, <2>3 DEF Signal
  <2>4. CASE w[j].unlocked
    <3>1. Told(j)
      BY <2>1, <2>4 DEF Told
    <3> QED  BY <1>F, <2>1, <2>2, <3>1
  <2>5. CASE wpc'[j] \in Turning /\ (w'[j].unlocked => w[j].unlocked)
    <3>1. Told(j)' => Told(j)
      BY <2>1, <2>5 DEF Told, Over, Turning
    <3> QED  BY <1>F, <2>1, <2>2, <3>1
  <2> QED  BY <2>1, <2>3, <2>4, <2>5
<1>5. ASSUME NEW from, Throw(j, from) PROVE Signalled'
  <2>1. Others
    BY <1>5, <1>S DEF Throw
  <2>2. Same /\ Signal(j)
    BY <1>5 DEF Throw, Same
  <2> QED  BY <1>F, <1>Q, <2>1, <2>2 DEF Signal
<1>6. ASSUME Retry(j) \/ Undecode(j) \/ Report(j) \/ CloseIo(j) PROVE Signalled'
  <2>1. \E from \in {"retry", "undecode", "report", "closeio"} : \E to, local :
          Step(j, from, to, local)
    BY <1>6 DEF Retry, Undecode, Report, CloseIo
  <2>2. Others /\ Told(j)
    BY <2>1, <1>S DEF Told, Over
  <2>3. Same /\ Grows
    BY <1>6 DEF Retry, Undecode, Report, CloseIo, Same, Grows
  <2> QED  BY <1>F, <2>2, <2>3
<1>7. ASSUME Leave(j) PROVE Signalled'
  <2>1. Others /\ wpc[j] = "leave"
    BY <1>7, <1>S DEF Leave
  <2>2. Same /\ guard' = (IF Awaited(j) THEN guard ELSE guard \ {j})
    BY <1>7 DEF Leave, Same
  <2>3. Told(j)
    BY <2>1 DEF Told, Over
  <2>4. CASE Awaited(j)
    BY <1>F, <2>1, <2>2, <2>3, <2>4 DEF Grows
  <2>5. CASE ~Awaited(j)
    <3>1. \A c \in Clients : ~Waiting(c, j)
      BY <2>5 DEF Awaited
    <3>2. \A c \in Clients, k \in Jobs : Waiting(c, k)' <=> Waiting(c, k)
      BY <2>2 DEF Waiting, Same
    <3>3. \A k \in Jobs \ {j} : Told(k)' <=> Told(k)
      BY <2>1 DEF Told, Others
    <3> QED  BY <2>2, <2>5, <3>1, <3>2, <3>3 DEF Signalled
  <2> QED  BY <2>4, <2>5
<1>8. ASSUME Notify(j) PROVE Signalled'
  <2>1. UNCHANGED <<wpc, w, guard>>
    BY <1>8 DEF Notify
  <2>2. \A c \in Clients, k \in Jobs : Waiting(c, k)' => Waiting(c, k)
    BY <1>8 DEF Notify, Waiting, TypeOK
  <2> QED  BY <2>1, <2>2 DEF Signalled, Told
<1> QED  BY <1>1, <1>2, <1>3, <1>4, <1>5, <1>6, <1>7, <1>8 DEF Work

\* A starter never waits in vain for a job that is past its loop: whichever
\* way the job took (finished, timed out, interrupted, failed), it has set the
\* starter's lock guard, and no other call has reset it.
THEOREM DoneSignalledHolds == Spec => []DoneSignalled
<1>1. Init => Signalled
  BY DEF Init, Signalled, Waiting
<1>2. CustodyInv /\ Signalled /\ [Next]_vars => Signalled'
  <2> SUFFICES ASSUME TypeOK, Custody, Signalled, [Next]_vars PROVE Signalled'
    BY DEF CustodyInv
  <2>1. ASSUME NEW c \in Clients, Proceed(c) \/ Request(c) PROVE Signalled'
    BY <2>1, SignalledClient
  <2>2. ASSUME NEW j \in Jobs, Work(j) \/ Notify(j) PROVE Signalled'
    BY <2>2, SignalledJob
  <2>3. CASE Start
    <3>1. PICK j \in Jobs : /\ wpc' = [wpc EXCEPT ![j] = "ready"]
                            /\ w' = [w EXCEPT ![j] = Local0]
                            /\ UNCHANGED <<guard, cpc, l>>
      BY <2>3, HeadTailProperties DEF Start, TypeOK
    <3>2. ~Told(j)' /\ \A k \in Jobs \ {j} : Told(k)' <=> Told(k)
      BY <3>1 DEF Told, Over, Turning, TypeOK
    <3> QED  BY <3>1, <3>2 DEF Signalled, Waiting
  <2>4. CASE Environment \/ UNCHANGED vars
    <3>1. UNCHANGED <<guard, cpc, l, wpc, w>>
      BY <2>4 DEF Environment, SourceChanges, SigInt, LoseFile, vars
    <3> QED  BY <3>1 DEF Signalled, Waiting, Told
  <2> QED  BY <2>1, <2>2, <2>3, <2>4 DEF Next
<1>3. Signalled => DoneSignalled
  BY DEF Signalled, DoneSignalled, Told, Over
<1> QED  BY <1>1, <1>2, <1>3, CustodyHolds, PTL DEF Spec

-----------------------------------------------------------------------------
(* A finished cache is whole, as long as the source, the options and the     *)
(* cache files stay what they are.                                           *)

\* Nobody changes the source or the options, and nobody removes a cache file.
Kept == ~SourceChanges /\ \A i \in Items : ~LoseFile(i)

\* Where a job owns m_active_mutex, and where its streams are open or, in a
\* run for another segment, its transcoder keeps the segment in work.
Locked   == Turning \cup {"begin", "open", "output", "retry", "undecode",
                          "report", "closeio", "leave"}
Going(j) == \/ wpc[j] \in Turning
            \/ wpc[j] \in {"begin", "open", "output", "retry"} /\ w[j].pts

\* A run from the start has written all items before the one in work.
Passed(j) == /\ 1..(w[j].cur - 1) \subseteq written
             /\ w[j].wrote => w[j].cur \in written
             /\ w[j].eof => Items \subseteq written
Filled(j) == Going(j) => /\ w[j].cur \in disk
                         /\ ~w[j].seeked => Passed(j)

\* What a run keeps from one turn of transcoder_thread to the next.
Rerun(j) ==
    /\ w[j].pts => Hls
    /\ wpc[j] = "begin" /\ w[j].pts => seek # 0
    /\ wpc[j] \in {"ready", "begin", "open"} /\ w[j].pts => j \in holding
    /\ wpc[j] \in {"ready", "begin", "open", "output", "retry"}
         => ~w[j].wrote /\ ~w[j].eof

\* No open finds the entry outdated, and segments are missed in HLS only.
Current   == /\ ~outdated
             /\ \A c \in Clients :
                  /\ cpc[c] # "clear"
                  /\ cpc[c] \in {"missing", "reopen", "push"} => Hls
\* The mutex has one owner: a job, or a starter that reclaims the flag.
Exclusive == /\ \A j \in Jobs : wpc[j] \in Locked => active = j
             /\ \A c \in Clients : cpc[c] = "recas" => active = c
\* A file output is one cache file.
Files     == /\ written \subseteq disk
             /\ ~Hls => seek = 0 /\ disk \in {{}, Items}

\* The items and the runs.
Data      == /\ Files /\ SuccessIsComplete
             /\ \A j \in Jobs : Rerun(j)
             /\ \A j \in Jobs : Filled(j)

WholeInv  == Current /\ Exclusive /\ Data

\* The streams of a run are open only in a job that owns the mutex and holds a
\* reference.
LEMMA GoingHolds ==
    ASSUME Custody, WholeInv, NEW j \in Jobs, Going(j)
    PROVE  active = j /\ j \in holding
<1>1. wpc[j] \in Locked
  BY DEF Going, Locked, Turning
<1>2. active = j
  BY <1>1 DEF WholeInv, Exclusive
<1>3. j \in holding
  BY DEF Going, Turning, Custody, HolderPlaces, WholeInv, Data, Rerun
<1> QED  BY <1>2, <1>3

\* Where a client goes matters to nobody but for an outdated entry, a missing
\* segment and the mutex.
LEMMA FrameCurrent ==
    ASSUME TypeOK, Current, NEW c \in Clients, NEW to, to # "clear",
           to \in {"missing", "reopen", "push"} => Hls,
           cpc' = [cpc EXCEPT ![c] = to], outdated' = outdated
    PROVE  Current'
BY DEF Current, TypeOK

LEMMA FrameExclusive ==
    ASSUME TypeOK, Exclusive, NEW c \in Clients, NEW to, to # "recas",
           cpc' = [cpc EXCEPT ![c] = to], active' = active,
           \A k \in Jobs : wpc'[k] \in {wpc[k], "queued"}
    PROVE  Exclusive'
<1>1. \A k \in Jobs : wpc'[k] \in Locked => wpc[k] \in Locked
  BY DEF Locked, Turning
<1> QED  BY <1>1 DEF Exclusive, TypeOK

\* The items and the runs, while files stay and a seek may be asked for.
LEMMA FrameData ==
    ASSUME TypeOK, Data, UNCHANGED <<freed, written, disk, w, holding>>,
           \A k \in Jobs : wpc'[k] \in {wpc[k], "queued"},
           result' \in {result, "none"},
           seek' = seek \/ (Hls /\ seek' # 0)
    PROVE  Data'
<1>1. Files'
  BY DEF Data, Files
<1>2. SuccessIsComplete'
  BY DEF Data, SuccessIsComplete
<1>3. \A j \in Jobs : Rerun(j)'
  BY DEF Data, Rerun
<1>4. \A j \in Jobs : Going(j)' => Going(j)
  BY DEF Going, Turning
<1>5. \A j \in Jobs : Filled(j)'
  BY <1>4 DEF Data, Filled, Passed
<1> QED  BY <1>1, <1>2, <1>3, <1>5 DEF Data

\* Files that are erased when no run is going on.
LEMMA EraseData ==
    ASSUME TypeOK, Data, written' = {}, ~Hls => disk' \in {{}, Items},
           UNCHANGED <<wpc, w, holding, seek>>, result' # "success" \/ freed',
           \A j \in Jobs : ~Going(j)
    PROVE  Data'
<1>1. Files'
  BY DEF Data, Files
<1>2. SuccessIsComplete'
  BY DEF SuccessIsComplete
<1>3. \A j \in Jobs : Rerun(j)'
  BY DEF Data, Rerun
<1>4. \A j \in Jobs : ~Going(j)'
  BY DEF Going
<1>5. \A j \in Jobs : Filled(j)'
  BY <1>4 DEF Filled
<1> QED  BY <1>1, <1>2, <1>3, <1>5 DEF Data

\* Clearing a file output clears its one file, or leaves it there, empty.
LEMMA ClearFile ==
    ASSUME TypeOK, Files, ClearBuffer
    PROVE  written' = {} /\ (~Hls => disk' \in {{}, Items})
<1> SUFFICES ASSUME ~Hls PROVE disk' \in {{}, Items}
  BY DEF ClearBuffer
<1>1. /\ disk' \subseteq disk
      /\ \A i \in disk' : Items \subseteq disk'
  BY DEF ClearBuffer, FileOf
<1> QED  BY <1>1 DEF TypeOK

\* An item that is not there is invalidated without touching one that is.
LEMMA InvalidateMissing ==
    ASSUME TypeOK, Files, NEW i \in Items, i \notin disk, Invalidate(i)
    PROVE  /\ UNCHANGED <<written, disk>> /\ result' = "none"
           /\ seek' = seek \/ (Hls /\ seek' # 0)
<1>1. FileOf(i) \cap disk = {}
  BY DEF FileOf, Files
<1>2. i # 0
  BY DEF Items
<1> QED  BY <1>1, <1>2 DEF Invalidate, Files

LEMMA WholeOpening ==
    ASSUME ~DisableCache, TypeOK, Custody, RefsCoverUsers, WholeInv,
           NEW c \in Clients,
           \/ Find(c) \/ NewLost(c) \/ New(c) \/ NewFails(c)
           \/ NewOutdated(c) \/ NewClear(c)
           \/ NewWant(c) \/ NewAbort(c) \/ NewDrop(c) \/ Delete(c)
    PROVE  WholeInv'
<1>0. Current /\ Exclusive /\ Data /\ Files
  BY DEF WholeInv, Data
<1>N. ASSUME refs = 0 PROVE \A j \in Jobs : ~Going(j)
  <2>1. Cardinality(holding) = 0 /\ IsFiniteSet(holding)
    BY <1>N, FiniteUsers DEF RefsCoverUsers
  <2>2. holding = {}
    BY <2>1, FS_EmptySet
  <2> QED  BY <2>2, GoingHolds
<1>1. ASSUME New(c) PROVE WholeInv'
  <2>1. Current' /\ Exclusive'
    BY <1>0, <1>1, FrameCurrent, FrameExclusive DEF New, Goto
  <2>2. CASE MustErase
    <3>1. \A j \in Jobs : ~Going(j)
      BY <1>N, <2>2
    <3> QED  BY <1>0, <1>1, <2>1, <2>2, <3>1, EraseData DEF WholeInv, New, finished
  <2>3. CASE ~MustErase
    <3>1. Data'
      BY <1>0, <1>1, <2>3, FrameData DEF New
    <3> QED  BY <2>1, <3>1 DEF WholeInv
  <2> QED  BY <2>2, <2>3
<1>2. ASSUME NewFails(c) PROVE WholeInv'
  <2>1. Current' /\ Exclusive'
    BY <1>0, <1>2, FrameCurrent, FrameExclusive DEF NewFails, Goto
  <2>2. \A j \in Jobs : ~Going(j)
    BY <1>2, <1>N DEF NewFails
  <2>3. Data'
    BY <1>0, <1>2, <2>2, EraseData, ClearFile DEF NewFails
  <2> QED  BY <2>1, <2>3 DEF WholeInv
<1>3. ASSUME NewOutdated(c) PROVE WholeInv'
  <2>1. Goto(c, "outdated", "want")
    BY <1>0, <1>3 DEF NewOutdated, Current
  <2>2. Current' /\ Exclusive'
    BY <1>0, <1>3, <2>1, FrameCurrent, FrameExclusive DEF NewOutdated, Goto
  <2>3. Data'
    BY <1>0, <1>3, FrameData DEF NewOutdated
  <2> QED  BY <2>2, <2>3 DEF WholeInv
<1>4. ~NewClear(c)
  BY <1>0 DEF NewClear, Goto, Current
<1>5. ASSUME NewWant(c) PROVE WholeInv'
  <2>1. \E to \in {"idle", "cas", "abort"} : cpc' = [cpc EXCEPT ![c] = to]
    BY <1>5 DEF NewWant, Goto
  <2>2. Current' /\ Exclusive'
    BY <1>0, <1>5, <2>1, FrameCurrent, FrameExclusive DEF NewWant
  <2>3. Data'
    BY <1>0, <1>5, FrameData DEF NewWant
  <2> QED  BY <2>2, <2>3 DEF WholeInv
<1>6. ASSUME NewAbort(c) PROVE WholeInv'
  <2>1. Current' /\ Exclusive'
    BY <1>0, <1>6, FrameCurrent, FrameExclusive DEF NewAbort, Goto
  <2>2. Data'
    BY <1>0, <1>6, FrameData DEF NewAbort
  <2> QED  BY <2>1, <2>2 DEF WholeInv
<1>7. ASSUME NewDrop(c) PROVE WholeInv'
  <2>1. Current' /\ Exclusive'
    BY <1>0, <1>7, FrameCurrent, FrameExclusive DEF NewDrop, Goto
  <2>2. CASE LastRef
    <3>1. \A j \in Jobs : ~Going(j)
      BY <1>7, <2>2, GoingHolds, ClientsAssumption DEF NewDrop
    <3> QED  BY <1>0, <1>7, <2>1, <2>2, <3>1, EraseData DEF WholeInv, NewDrop
  <2>3. CASE ~LastRef
    <3>1. Data'
      BY <1>0, <1>7, <2>3, FrameData DEF NewDrop
    <3> QED  BY <2>1, <3>1 DEF WholeInv
  <2> QED  BY <2>2, <2>3
<1>8. ASSUME Delete(c) PROVE WholeInv'
  <2>1. Current' /\ Exclusive'
    BY <1>0, <1>8 DEF Delete, Current, Exclusive
  <2>2. Data'
    BY <1>0, <1>8, FrameData DEF Delete
  <2> QED  BY <2>1, <2>2 DEF WholeInv
<1>9. ASSUME Find(c) \/ NewLost(c) PROVE WholeInv'
  <2>1. Current' /\ Exclusive'
    BY <1>0, <1>9, FrameCurrent, FrameExclusive DEF Find, NewLost, Goto
  <2>2. Data'
    BY <1>0, <1>9, FrameData DEF Find, NewLost
  <2> QED  BY <2>1, <2>2 DEF WholeInv
<1> QED  BY <1>1, <1>2, <1>3, <1>4, <1>5, <1>6, <1>7, <1>8, <1>9

LEMMA WholeStarting ==
    ASSUME TypeOK, Custody, WholeInv, NEW c \in Clients,
           \/ StartClaim(c) \/ StartTryLock(c) \/ StartReclaim(c)
           \/ StartUnpredictable(c) \/ StartSubmit(c) \/ StartCheck(c)
           \/ StartBlock(c) \/ StartAfter(c) \/ WakeUp(c)
    PROVE  WholeInv'
<1>0. Current /\ Exclusive /\ Data
  BY DEF WholeInv
<1>R. ASSUME NEW from, NEW zero \in BOOLEAN, Return(c, from, zero)
      PROVE  \E to \in {"idle", "abort", "until", "poll"} :
               cpc' = [cpc EXCEPT ![c] = to]
  BY <1>R, ReturnPlace DEF GotoWith
<1>1. ASSUME StartTryLock(c), active = None PROVE WholeInv'
  <2>1. cpc' = [cpc EXCEPT ![c] = "recas"] /\ active' = c
    BY <1>1, ClientsAssumption DEF StartTryLock, Goto
  <2>2. \A j \in Jobs : wpc[j] \notin Locked
    BY <1>0, <1>1, ClientsAssumption DEF Exclusive
  <2>3. \A d \in Clients \ {c} : cpc'[d] # "recas"
    BY <1>0, <1>1, <2>1, ClientsAssumption DEF Exclusive, TypeOK
  <2>4. wpc' = wpc
    BY <1>1 DEF StartTryLock
  <2>5. Exclusive'
    BY <2>1, <2>2, <2>3, <2>4 DEF Exclusive
  <2>6. Current'
    BY <1>0, <1>1, <2>1, FrameCurrent DEF StartTryLock
  <2>7. Data'
    BY <1>0, <1>1, FrameData DEF StartTryLock
  <2> QED  BY <2>5, <2>6, <2>7 DEF WholeInv
<1>2. ASSUME StartReclaim(c) PROVE WholeInv'
  <2>1. PICK to \in {"idle", "abort", "until", "poll", "submit"} :
          cpc' = [cpc EXCEPT ![c] = to]
    BY <1>2, <1>R DEF StartReclaim, Goto
  <2>2. active = c
    BY <1>0, <1>2 DEF StartReclaim, Return, Goto, GotoWith, Exclusive
  <2>3. \A j \in Jobs : wpc[j] \notin Locked
    BY <1>0, <2>2, ClientsAssumption DEF Exclusive
  <2>4. \A d \in Clients : cpc'[d] # "recas"
    BY <1>0, <2>1, <2>2 DEF Exclusive, TypeOK
  <2>5. Exclusive'
    BY <1>2, <2>3, <2>4 DEF Exclusive, StartReclaim
  <2>6. Current'
    BY <1>0, <1>2, <2>1, FrameCurrent DEF StartReclaim
  <2>7. Data'
    BY <1>0, <1>2, FrameData DEF StartReclaim
  <2> QED  BY <2>5, <2>6, <2>7 DEF WholeInv
<1>3. ASSUME \/ StartClaim(c) \/ (StartTryLock(c) /\ active # None)
             \/ StartUnpredictable(c) \/ StartCheck(c) \/ StartBlock(c)
             \/ StartAfter(c) \/ WakeUp(c)
      PROVE  WholeInv'
  <2>1. PICK to \in {"idle", "abort", "until", "poll", "trylock", "submit", "check",
                     "after", "block", "asleep"} :
          cpc' = [cpc EXCEPT ![c] = to]
    <3>1. error \in BOOLEAN
      BY DEF TypeOK
    <3> QED  BY <1>3, <1>R, <3>1 DEF StartClaim, StartTryLock, StartUnpredictable,
                StartCheck, StartBlock, StartAfter, WakeUp, Goto
  <2>2. UNCHANGED <<active, outdated, freed, result, seek, written, disk, wpc, w,
                    holding>>
    BY <1>3 DEF StartClaim, StartTryLock, StartUnpredictable, StartCheck,
                StartBlock, StartAfter, WakeUp
  <2>3. Current' /\ Exclusive'
    BY <1>0, <2>1, <2>2, FrameCurrent, FrameExclusive
  <2>4. Data'
    BY <1>0, <2>2, FrameData
  <2> QED  BY <2>3, <2>4 DEF WholeInv
<1>4. ASSUME StartSubmit(c) PROVE WholeInv'
  <2>1. cpc' = [cpc EXCEPT ![c] = "check"]
    BY <1>4 DEF StartSubmit, GotoWith
  <2>2. \A k \in Jobs : wpc'[k] \in {wpc[k], "queued"}
    BY <1>4 DEF StartSubmit, TypeOK
  <2>3. UNCHANGED <<active, outdated, freed, result, seek, written, disk, w, holding>>
    BY <1>4 DEF StartSubmit
  <2>4. Current' /\ Exclusive'
    BY <1>0, <2>1, <2>2, <2>3, FrameCurrent, FrameExclusive
  <2>5. Data'
    BY <1>0, <2>2, <2>3, FrameData
  <2> QED  BY <2>4, <2>5 DEF WholeInv
<1> QED  BY <1>1, <1>2, <1>3, <1>4

LEMMA WholeReading ==
    ASSUME TypeOK, WholeInv, NEW c \in Clients,
           \/ \E i \in Items : Read(c, i)
           \/ ReadAwait(c) \/ ReadStale(c) \/ ReadMissing(c) \/ ReadReopen(c)
           \/ ReadPush(c) \/ ReadGate(c) \/ ReadUntil(c) \/ ReadTail(c)
           \/ ReadPoll(c) \/ ReadInterrupted(c) \/ ReadCopy(c)
    PROVE  WholeInv'
<1> DEFINE i == l[c].item
           Still == UNCHANGED <<result, seek, written, disk>>
           Asked == /\ UNCHANGED <<written, disk>> /\ result' \in {result, "none"}
                    /\ seek' = seek \/ (Hls /\ seek' # 0)
<1>0. Current /\ Exclusive /\ Data /\ Files
  BY DEF WholeInv, Data
<1>I. i \in Items /\ i # 0
  BY DEF TypeOK, CallLocals, Items
<1>1. UNCHANGED <<active, outdated, freed, wpc, w, holding>>
  BY DEF Read, ReadAwait, ReadStale, ReadMissing, ReadReopen, ReadPush, ReadGate,
         ReadUntil, ReadTail, ReadPoll, ReadInterrupted, ReadCopy
<1>2. \E to : /\ to \notin {"clear", "recas"}
              /\ to \in {"missing", "reopen", "push"} => Hls
              /\ cpc' = [cpc EXCEPT ![c] = to]
  <2>1. ASSUME NEW k \in Items, Read(c, k)
        PROVE  \E to \in {"missing", "gate", "await", "stale"} :
                 /\ to = "missing" => Hls
                 /\ cpc' = [cpc EXCEPT ![c] = to]
    BY <2>1 DEF Read, GotoWith
  <2>2. ASSUME ReadStale(c)
        PROVE  \E to \in {"missing", "gate"} :
                 /\ to = "missing" => Hls
                 /\ cpc' = [cpc EXCEPT ![c] = to]
    BY <2>2 DEF ReadStale, Goto, GotoWith
  <2>3. ASSUME ReadMissing(c)
        PROVE  /\ Hls
               /\ \E to \in {"reopen", "push", "gate"} :
                    cpc' = [cpc EXCEPT ![c] = to]
    BY <1>0, <2>3 DEF ReadMissing, Goto, Current
  <2>4. ASSUME \/ ReadAwait(c) \/ ReadReopen(c) \/ ReadPush(c) \/ ReadGate(c)
               \/ ReadUntil(c) \/ ReadTail(c) \/ ReadPoll(c)
               \/ ReadInterrupted(c) \/ ReadCopy(c)
        PROVE  \E to \in {"stale", "gate", "cas", "until", "copy", "poll", "idle"} :
                 cpc' = [cpc EXCEPT ![c] = to]
    BY <2>4 DEF ReadAwait, ReadReopen, ReadPush, ReadGate, ReadUntil, ReadTail,
                ReadPoll, ReadInterrupted, ReadCopy, Goto, GotoWith
  <2> QED  BY <2>1, <2>2, <2>3, <2>4
<1>3. Still \/ Asked
  <2> HIDE DEF i
  <2>1. ASSUME Invalidate(i), i \notin disk PROVE Asked
    BY <1>0, <1>I, <2>1, InvalidateMissing
  <2>2. ASSUME Reopen(i), Hls, UNCHANGED <<written, disk>> PROVE Asked
    BY <1>I, <2>2 DEF Reopen
  <2>3. CASE ReadStale(c) \/ ReadUntil(c) \/ ReadPoll(c)
    <3>1. \/ Still
          \/ Invalidate(i) /\ i \notin disk
          \/ Reopen(i) /\ Hls /\ UNCHANGED <<written, disk>>
      BY <2>3 DEF ReadStale, ReadUntil, ReadPoll, Vanished, i
    <3> QED  BY <2>1, <2>2, <3>1
  <2>4. CASE ReadReopen(c) \/ ReadPush(c)
    <3>1. Hls
      BY <1>0, <2>4 DEF ReadReopen, ReadPush, Goto, Current
    <3> QED  BY <1>I, <2>2, <2>4, <3>1 DEF ReadReopen, ReadPush, i
  <2>5. CASE \/ \E k \in Items : Read(c, k)
             \/ ReadAwait(c) \/ ReadMissing(c) \/ ReadGate(c) \/ ReadTail(c)
             \/ ReadInterrupted(c) \/ ReadCopy(c)
    BY <2>5 DEF Read, ReadAwait, ReadMissing, ReadGate, ReadTail,
                ReadInterrupted, ReadCopy
  <2> QED  BY <2>3, <2>4, <2>5
<1>4. Current' /\ Exclusive'
  BY <1>0, <1>1, <1>2, FrameCurrent, FrameExclusive
<1>5. Data'
  BY <1>0, <1>1, <1>3, FrameData
<1> QED  BY <1>4, <1>5 DEF WholeInv

\* A job that owns the mutex is alone: what it does concerns no other job.
LEMMA WholeJob ==
    ASSUME TypeOK, WholeInv, NEW j \in Jobs, wpc[j] \in Locked,
           wpc'[j] \in Locked,
           \A k \in Jobs \ {j} : /\ wpc'[k] = wpc[k] /\ w'[k] = w[k]
                                 /\ k \in holding => k \in holding',
           UNCHANGED <<cpc, active, outdated>>,
           Files', SuccessIsComplete', Rerun(j)', Filled(j)'
    PROVE  WholeInv'
<1>1. \A k \in Jobs \ {j} : wpc[k] \notin Locked
  BY DEF WholeInv, Exclusive
<1>2. Current' /\ Exclusive'
  BY <1>1 DEF WholeInv, Current, Exclusive
<1>3. \A k \in Jobs \ {j} : Rerun(k)'
  <2> TAKE k \in Jobs \ {j}
  <2>1. /\ wpc'[k] = wpc[k] /\ w'[k] = w[k] /\ wpc[k] \notin {"begin", "open"}
        /\ k \in holding => k \in holding'
    BY <1>1 DEF Locked
  <2>2. Rerun(k)
    BY DEF WholeInv, Data
  <2> QED  BY <2>1, <2>2 DEF Rerun
<1>4. \A k \in Jobs \ {j} : ~Going(k)'
  BY <1>1 DEF Going, Locked
<1>5. \A k \in Jobs \ {j} : Filled(k)'
  BY <1>4 DEF Filled
<1> QED  BY <1>2, <1>3, <1>5 DEF WholeInv, Data

\* A turn of a job that keeps its segment and writes nothing.
LEMMA WholeTurn ==
    ASSUME TypeOK, WholeInv, NEW j \in Jobs, wpc[j] \in Locked,
           wpc'[j] \in Locked,
           \A k \in Jobs \ {j} : /\ wpc'[k] = wpc[k] /\ w'[k] = w[k]
                                 /\ k \in holding => k \in holding',
           UNCHANGED <<cpc, active, outdated, freed, written, disk>>,
           result' \in {result, "none"}, seek' = seek \/ Hls,
           w'[j].cur = w[j].cur, w'[j].seeked = w[j].seeked,
           w'[j].wrote => w[j].wrote, w'[j].eof => w[j].eof,
           Going(j)' => Going(j), Rerun(j)'
    PROVE  WholeInv'
<1>1. Files' /\ SuccessIsComplete'
  BY DEF WholeInv, Data, Files, SuccessIsComplete
<1>2. Filled(j)
  BY DEF WholeInv, Data
<1>3. Filled(j)'
  BY <1>2 DEF Filled, Passed
<1> QED  BY <1>1, <1>3, WholeJob

\* The parts of transcoder_thread that leave the items alone.
LEMMA WholeRunning ==
    ASSUME TypeOK, Custody, WholeInv, NEW j \in Jobs,
           \/ OpenInput(j) \/ Looping(j) \/ After(j) \/ Suspended(j)
           \/ Release(j) \/ Retry(j) \/ Undecode(j) \/ Report(j)
           \/ Throw(j, "output") \/ Throw(j, "work")
    PROVE  WholeInv'
<1> DEFINE Others == \A k \in Jobs \ {j} : wpc'[k] = wpc[k] /\ w'[k] = w[k]
           Same == /\ w'[j].cur = w[j].cur /\ w'[j].seeked = w[j].seeked
                   /\ w'[j].pts = w[j].pts
                   /\ w'[j].wrote => w[j].wrote
                   /\ w'[j].eof => w[j].eof
           Quiets == UNCHANGED <<cpc, active, outdated, freed, written, disk>>
           Asks == result' \in {result, "none"} /\ (seek' = seek \/ Hls)
<1>S. ASSUME NEW from, NEW to, NEW local, Step(j, from, to, local)
      PROVE  Others /\ wpc[j] = from /\ wpc'[j] = to /\ w'[j] = local
  BY <1>S DEF Step, TypeOK
<1>0. w[j] \in RunLocals /\ Rerun(j)
  BY DEF TypeOK, WholeInv, Data
<1>1. ASSUME \/ Looping(j) \/ After(j) \/ Suspended(j) PROVE WholeInv'
  <2>1. PICK local : /\ \E from, to \in Turning : Step(j, from, to, local)
                     /\ \/ local = w[j]
                        \/ \E b \in BOOLEAN : local = [w[j] EXCEPT !.timeout = b]
                        \/ local = [w[j] EXCEPT !.unlocked = TRUE]
                        \/ \E q : local = [w[j] EXCEPT !.timeout = FALSE, !.fifo = q]
    <3>1. CASE Looping(j)
      <4>1. \/ Step(j, "loop", "release", w[j])
            \/ \E b \in BOOLEAN :
                 Step(j, "loop", "release", [w[j] EXCEPT !.timeout = b])
            \/ \E q : Step(j, "loop", "work",
                          [w[j] EXCEPT !.timeout = FALSE, !.fifo = q])
        BY <3>1 DEF Looping, Loop
      <4> QED  BY <4>1 DEF Turning
    <3>2. CASE After(j) \/ Suspended(j)
      BY <3>2 DEF After, Suspended, Turning
    <3> QED  BY <1>1, <3>1, <3>2
  <2>2. /\ local.cur = w[j].cur /\ local.seeked = w[j].seeked
        /\ local.pts = w[j].pts
        /\ local.wrote = w[j].wrote /\ local.eof = w[j].eof
    BY <1>0, <2>1 DEF RunLocals
  <2>3. Others /\ w'[j] = local /\ wpc[j] \in Turning /\ wpc'[j] \in Turning
    BY <2>1, <1>S
  <2>4. Same
    BY <2>2, <2>3
  <2>5. Quiets /\ Asks /\ holding' = holding
    BY <1>1 DEF Looping, Loop, After, Suspended
  <2>6. (Going(j)' => Going(j)) /\ wpc[j] \in Locked /\ wpc'[j] \in Locked
    BY <2>3 DEF Going, Locked
  <2>7. Rerun(j)'
    BY <1>0, <2>3, <2>4 DEF Rerun, Turning
  <2>8. Others
    BY <2>3
  <2> QED  BY <2>4, <2>5, <2>6, <2>7, <2>8, WholeTurn
<1>2. ASSUME Retry(j) \/ Undecode(j) \/ Report(j) \/ OpenInput(j) PROVE WholeInv'
  <2>1. /\ Others /\ w'[j] = w[j] /\ wpc[j] \in Locked /\ wpc'[j] \in Locked
        /\ \/ wpc[j] = "retry" /\ wpc'[j] = "begin" /\ seek # 0
           \/ wpc'[j] \in {"undecode", "report", "closeio"}
           \/ wpc[j] = "open" /\ wpc'[j] = "output"
    BY <1>2, <1>S DEF Retry, Undecode, Report, OpenInput, Locked
  <2>2. Quiets /\ Asks /\ seek' = seek /\ holding \subseteq holding'
    BY <1>2 DEF Retry, Undecode, Report, OpenInput
  <2>3. wpc[j] = "retry" => j \in holding
    BY DEF Custody, HolderPlaces
  <2>4. Rerun(j)' /\ (Going(j)' => Going(j))
    BY <1>0, <2>1, <2>2, <2>3 DEF Rerun, Going, Turning
  <2> QED  BY <2>1, <2>2, <2>4, WholeTurn
<1>3. ASSUME Release(j) \/ Throw(j, "output") \/ Throw(j, "work") PROVE WholeInv'
  <2>1. /\ Others /\ wpc[j] \in {"release", "output", "work"} /\ wpc'[j] = "retry"
        /\ w'[j] \in {Closed(j), [Closed(j) EXCEPT !.ok = FALSE]}
    BY <1>3, <1>S DEF Release, Throw
  <2>2. Same /\ ~w'[j].wrote /\ ~w'[j].eof
    BY <1>0, <2>1 DEF RunLocals, Closed
  <2>3. Quiets /\ Asks /\ holding' = holding
    BY <1>3 DEF Release, Throw
  <2>4. Rerun(j)' /\ (Going(j)' => Going(j))
    BY <1>0, <2>1, <2>2 DEF Rerun, Going, Turning
  <2>5. wpc[j] \in Locked /\ wpc'[j] \in Locked
    BY <2>1 DEF Locked, Turning
  <2> QED  BY <2>1, <2>2, <2>3, <2>4, <2>5, WholeTurn
<1> QED  BY <1>1, <1>2, <1>3

\* Taking and giving back the mutex, and a run that has no segment in work.
LEMMA WholeEnds ==
    ASSUME TypeOK, Custody, WholeInv, NEW j \in Jobs,
           LockActive(j) \/ Begin(j) \/ CloseIo(j) \/ Leave(j)
    PROVE  WholeInv'
<1> DEFINE Others == \A k \in Jobs \ {j} : wpc'[k] = wpc[k] /\ w'[k] = w[k]
<1>S. ASSUME NEW from, NEW to, NEW local, Step(j, from, to, local)
      PROVE  Others /\ wpc[j] = from /\ wpc'[j] = to /\ w'[j] = local
  BY <1>S DEF Step, TypeOK
<1>0. /\ w[j] \in RunLocals /\ Rerun(j) /\ Filled(j)
      /\ Current /\ Exclusive /\ Files /\ Data
  BY DEF TypeOK, WholeInv, Data
<1>1. ASSUME LockActive(j) PROVE WholeInv'
  <2>1. Others /\ wpc[j] = "ready" /\ wpc'[j] = "begin" /\ w'[j] = w[j]
    BY <1>1, <1>S DEF LockActive
  <2>2. /\ active = None /\ active' = j
        /\ UNCHANGED <<cpc, outdated, freed, result, seek, written, disk, holding>>
    BY <1>1 DEF LockActive
  <2>3. j \notin holding
    BY <2>1 DEF Custody, HolderPlaces
  <2>4. ~w[j].pts
    BY <1>0, <2>1, <2>3 DEF Rerun
  <2>5. /\ \A k \in Jobs : wpc[k] \notin Locked
        /\ \A c \in Clients : cpc[c] # "recas"
    BY <1>0, <2>2, ClientsAssumption DEF Exclusive
  <2>6. Current' /\ Exclusive'
    BY <1>0, <2>1, <2>2, <2>5 DEF Current, Exclusive
  <2>7. Files' /\ SuccessIsComplete'
    BY <1>0, <2>2 DEF Files, SuccessIsComplete, Data
  <2>8. \A k \in Jobs : Rerun(k)'
    <3>1. Rerun(j)'
      BY <1>0, <2>1, <2>4 DEF Rerun
    <3>2. \A k \in Jobs \ {j} : Rerun(k)'
      BY <1>0, <2>1, <2>2 DEF Data, Rerun
    <3> QED  BY <3>1, <3>2
  <2>9. \A k \in Jobs : ~Going(k)'
    <3>1. ~Going(j)'
      BY <2>1, <2>4 DEF Going, Turning
    <3>2. \A k \in Jobs \ {j} : ~Going(k)'
      BY <2>1, <2>5 DEF Going, Locked
    <3> QED  BY <3>1, <3>2
  <2>10. \A k \in Jobs : Filled(k)'
    BY <2>9 DEF Filled
  <2> QED  BY <2>6, <2>7, <2>8, <2>10 DEF WholeInv, Data
<1>2. ASSUME Begin(j) PROVE WholeInv'
  <2>1. /\ Others /\ wpc[j] = "begin" /\ wpc'[j] = "open"
        /\ w'[j] = [w[j] EXCEPT !.ok = TRUE]
    BY <1>2, <1>S DEF Begin
  <2>2. /\ w'[j].cur = w[j].cur /\ w'[j].seeked = w[j].seeked
        /\ w'[j].pts = w[j].pts /\ w'[j].wrote = w[j].wrote
        /\ w'[j].eof = w[j].eof
    BY <1>0, <2>1 DEF RunLocals
  <2>3. /\ UNCHANGED <<cpc, active, seek, freed, holding>> /\ result' = "none"
        /\ wpc[j] \in Locked /\ wpc'[j] \in Locked
    BY <1>2, <2>1 DEF Begin, Clear, Locked
  <2>4. Rerun(j)' /\ (Going(j)' => Going(j))
    BY <1>0, <2>1, <2>2, <2>3 DEF Rerun, Going, Turning
  <2>5. Others
    BY <2>1
  <2>6. CASE Hls /\ seek # 0
    <3>1. UNCHANGED <<outdated, written, disk>>
      BY <1>2, <2>6 DEF Begin
    <3> QED  BY <2>2, <2>3, <2>4, <2>5, <3>1, WholeTurn
  <2>7. CASE ~(Hls /\ seek # 0)
    <3>1. ClearBuffer /\ outdated' = outdated
      <4>1. outdated = FALSE
        BY <1>0 DEF Current, TypeOK
      <4> QED  BY <1>2, <2>7, <4>1 DEF Begin, Clear
    <3>2. ~w[j].pts
      BY <1>0, <2>1, <2>7 DEF Rerun
    <3>3. ~Going(j)'
      BY <2>1, <2>2, <3>2 DEF Going, Turning
    <3>4. Filled(j)' /\ SuccessIsComplete'
      BY <2>3, <3>3 DEF Filled, SuccessIsComplete
    <3>5. Files'
      BY <1>0, <2>3, <3>1, ClearFile DEF Files
    <3> QED  BY <2>3, <2>4, <2>5, <3>1, <3>4, <3>5, WholeJob
  <2> QED  BY <2>6, <2>7
<1>3. ASSUME CloseIo(j) PROVE WholeInv'
  <2>1. Others /\ wpc[j] = "closeio" /\ wpc'[j] = "leave" /\ w'[j] = w[j]
    BY <1>3, <1>S DEF CloseIo
  <2>2. /\ UNCHANGED <<cpc, active, outdated, seek, result>>
        /\ holding' = holding \ {j}
        /\ wpc[j] \in Locked /\ wpc'[j] \in Locked
    BY <1>3, <2>1 DEF CloseIo, Locked
  <2>3. Rerun(j)' /\ Filled(j)'
    BY <1>0, <2>1 DEF Rerun, Filled, Going, Turning
  <2>4. Files' /\ SuccessIsComplete'
    BY <1>0, <1>3 DEF CloseIo, Data, Files, SuccessIsComplete
  <2> QED  BY <2>1, <2>2, <2>3, <2>4, WholeJob
<1>4. ASSUME Leave(j) PROVE WholeInv'
  <2>1. Others /\ wpc[j] = "leave" /\ wpc'[j] = "free" /\ w'[j] = Local0
    BY <1>4, <1>S DEF Leave
  <2>2. UNCHANGED <<cpc, outdated, freed, result, seek, written, disk, holding>>
    BY <1>4 DEF Leave
  <2>3. active = j
    BY <1>0, <2>1 DEF Exclusive, Locked
  <2>4. /\ \A k \in Jobs : wpc'[k] \notin Locked
        /\ \A c \in Clients : cpc[c] # "recas"
    BY <1>0, <2>1, <2>3, ClientsAssumption DEF Exclusive, Locked, Turning
  <2>5. Current' /\ Exclusive'
    BY <1>0, <2>2, <2>4 DEF Current, Exclusive
  <2>6. Files' /\ SuccessIsComplete'
    BY <1>0, <2>2 DEF Files, SuccessIsComplete, Data
  <2>7. \A k \in Jobs : Rerun(k)'
    <3>1. Rerun(j)'
      BY <2>1 DEF Rerun, Local0
    <3>2. \A k \in Jobs \ {j} : Rerun(k)'
      BY <1>0, <2>1, <2>2 DEF Data, Rerun
    <3> QED  BY <3>1, <3>2
  <2>8. \A k \in Jobs : Filled(k)'
    BY <2>4 DEF Filled, Going, Locked
  <2> QED  BY <2>5, <2>6, <2>7, <2>8 DEF WholeInv, Data
<1> QED  BY <1>1, <1>2, <1>3, <1>4

\* Opening the output selects a segment.  A run that starts at the first one
\* has skipped none; one that starts elsewhere is marked as having seeked.
LEMMA WholeOutput ==
    ASSUME TypeOK, WholeInv, NEW j \in Jobs, OpenOutput(j)
    PROVE  WholeInv'
<1> DEFINE again  == Hls /\ w[j].pts
           target == IF again THEN w[j].cur
                     ELSE IF Hls /\ seek > 1 /\ ~NearBeginning(seek) THEN seek ELSE 1
           rest   == IF again THEN Stacked(j) ELSE <<>>
           local  == [w[j] EXCEPT !.cur = target, !.unlocked = ~Prebuffer,
                        !.seeked = @ \/ (~again /\ target > 1), !.fifo = rest]
<1>1. w[j] \in RunLocals /\ Rerun(j) /\ Filled(j) /\ Files /\ SuccessIsComplete
  BY DEF TypeOK, WholeInv, Data
<1>2. /\ Step(j, "output", "loop", local)
      /\ disk' = (IF again THEN disk ELSE disk \cup FileOf(target))
      /\ ~Hls => seek' = seek
      /\ UNCHANGED <<cpc, active, outdated, freed, result, written, holding>>
  BY DEF OpenOutput
<1>3. target \in Items
  <2>1. (seek > 1 => seek \in Items) /\ 1 \in Items
    BY NumbersAssumption DEF TypeOK, Items
  <2> QED  BY <1>1, <2>1 DEF RunLocals, TypeOK, Items
<1> HIDE DEF rest
<1>4. /\ local.cur = target /\ local.wrote = w[j].wrote /\ local.eof = w[j].eof
      /\ local.pts = w[j].pts
      /\ ~local.seeked => ~w[j].seeked /\ (again \/ ~(target > 1))
  BY <1>1 DEF RunLocals
<1> HIDE DEF local
<1>5. /\ \A k \in Jobs \ {j} : wpc'[k] = wpc[k] /\ w'[k] = w[k]
      /\ wpc[j] = "output" /\ wpc'[j] = "loop"
      /\ w'[j].cur = target /\ w'[j].wrote = w[j].wrote /\ w'[j].eof = w[j].eof
      /\ w'[j].pts = w[j].pts
      /\ ~w'[j].seeked => ~w[j].seeked /\ (again \/ ~(target > 1))
  BY <1>2, <1>4 DEF Step, TypeOK
<1>6. target \in disk'
  <2>1. CASE again
    BY <1>1, <1>2, <1>5, <2>1 DEF Filled, Going
  <2>2. CASE ~again
    BY <1>2, <1>3, <2>2 DEF FileOf
  <2> QED  BY <2>1, <2>2
<1>7. Files'
  <2>1. CASE Hls
    BY <1>1, <1>2, <2>1 DEF Files
  <2>2. CASE ~Hls
    BY <1>1, <1>2, <2>2 DEF Files, FileOf
  <2> QED  BY <2>1, <2>2
<1>8. SuccessIsComplete'
  BY <1>1, <1>2 DEF SuccessIsComplete
<1>9. Rerun(j)'
  BY <1>1, <1>5 DEF Rerun
<1>10. ~w'[j].seeked => Passed(j)'
  <2> SUFFICES ASSUME ~w'[j].seeked PROVE Passed(j)'
    OBVIOUS
  <2>1. ~w[j].wrote /\ ~w[j].eof
    BY <1>1, <1>5 DEF Rerun
  <2>2. CASE again
    BY <1>1, <1>2, <1>5, <2>1, <2>2 DEF Filled, Going, Passed
  <2>3. CASE ~again
    <3>1. target = 1
      BY <1>3, <1>5, <2>3 DEF Items
    <3>2. 1..(w'[j].cur - 1) = {}
      BY <1>5, <3>1
    <3> QED  BY <1>5, <2>1, <3>2 DEF Passed
  <2> QED  BY <2>2, <2>3
<1>11. Filled(j)'
  BY <1>5, <1>6, <1>10 DEF Filled
<1>12. wpc[j] \in Locked /\ wpc'[j] \in Locked
  BY <1>5 DEF Locked, Turning
<1> QED  BY <1>2, <1>5, <1>7, <1>8, <1>9, <1>11, <1>12, WholeJob

\* Writing an item, and the end of the source.
LEMMA WholeWriting ==
    ASSUME TypeOK, WholeInv, NEW j \in Jobs, Write(j) \/ Finish(j)
    PROVE  WholeInv'
<1>1. /\ w[j] \in RunLocals /\ w[j].cur \in Items /\ Rerun(j) /\ Filled(j)
      /\ Files /\ SuccessIsComplete
  BY DEF TypeOK, RunLocals, WholeInv, Data
<1>2. /\ wpc[j] = "work" /\ wpc'[j] = "after"
      /\ \A k \in Jobs \ {j} : wpc'[k] = wpc[k] /\ w'[k] = w[k]
      /\ UNCHANGED <<cpc, active, outdated, freed, seek, disk, holding>>
  BY DEF Write, Finish, Step, TypeOK
<1>3. /\ wpc[j] \in Locked /\ wpc'[j] \in Locked /\ w[j].cur \in disk
      /\ ~w[j].seeked => Passed(j)
  BY <1>1, <1>2 DEF Filled, Going, Locked, Turning
<1>4. CASE Write(j)
  <2>1. w'[j] = [w[j] EXCEPT !.wrote = TRUE, !.pts = Hls]
    BY <1>4 DEF Write, Step, TypeOK
  <2>2. /\ w'[j].cur = w[j].cur /\ w'[j].seeked = w[j].seeked
        /\ w'[j].pts = Hls /\ w'[j].eof = w[j].eof
    BY <1>1, <2>1 DEF RunLocals
  <2>3. written' = written \cup {w[j].cur} /\ result' = result
    BY <1>4 DEF Write
  <2>4. Files'
    BY <1>1, <1>2, <1>3, <2>3 DEF Files
  <2>5. SuccessIsComplete'
    BY <1>1, <1>2, <2>3 DEF SuccessIsComplete
  <2>6. Rerun(j)'
    BY <1>2, <2>2 DEF Rerun
  <2>7. Filled(j)'
    BY <1>2, <1>3, <2>2, <2>3 DEF Filled, Passed
  <2> QED  BY <1>2, <1>3, <2>4, <2>5, <2>6, <2>7, WholeJob
<1>5. CASE Finish(j)
  <2>1. w'[j] = [w[j] EXCEPT !.eof = TRUE]
    BY <1>5 DEF Finish, Step, TypeOK
  <2>2. /\ w'[j].cur = w[j].cur /\ w'[j].seeked = w[j].seeked
        /\ w'[j].pts = w[j].pts /\ w'[j].wrote = w[j].wrote
    BY <1>1, <2>1 DEF RunLocals
  <2>3. written' = written /\ (result' = "success" => ~w[j].seeked)
    BY <1>5 DEF Finish
  <2>4. ~w[j].seeked => written = Items
    <3> SUFFICES ASSUME ~w[j].seeked PROVE Items \subseteq written
      BY DEF TypeOK
    <3>1. Passed(j)
      BY <1>3
    <3>2. CASE w[j].eof
      BY <3>1, <3>2 DEF Passed
    <3>3. CASE ~w[j].eof
      <4>1. w[j].wrote /\ w[j].cur = N
        BY <1>5, <3>3 DEF Finish
      <4>2. 1..(N - 1) \subseteq written /\ N \in written
        BY <3>1, <4>1 DEF Passed
      <4>3. Items \subseteq 1..(N - 1) \cup {N}
        BY NumbersAssumption DEF Items
      <4> QED  BY <4>2, <4>3
    <3> QED  BY <3>2, <3>3
  <2>5. Files'
    BY <1>1, <1>2, <2>3 DEF Files
  <2>6. SuccessIsComplete'
    BY <2>3, <2>4 DEF SuccessIsComplete
  <2>7. Rerun(j)'
    BY <1>1, <1>2, <2>2 DEF Rerun
  <2>8. Filled(j)'
    BY <1>2, <1>3, <2>2, <2>3, <2>4 DEF Filled, Passed
  <2> QED  BY <1>2, <1>3, <2>5, <2>6, <2>7, <2>8, WholeJob
<1> QED  BY <1>4, <1>5

\* On to the next item, which leaves none out, or to a segment asked for.
LEMMA WholeAdvance ==
    ASSUME TypeOK, WholeInv, NEW j \in Jobs, Advance(j)
    PROVE  WholeInv'
<1>1. /\ w[j] \in RunLocals /\ w[j].cur \in Items /\ Rerun(j) /\ Filled(j)
      /\ Files /\ SuccessIsComplete
  BY DEF TypeOK, RunLocals, WholeInv, Data
<1>2. /\ ~w[j].eof /\ w[j].wrote /\ w[j].cur # N /\ wpc[j] = "work"
      /\ UNCHANGED <<cpc, active, outdated, freed, result, seek, written, holding>>
  BY DEF Advance, MoveTo, Step
<1>3. PICK target, seeks, rest :
        /\ MoveTo(j, target, seeks, rest)
        /\ target = w[j].cur + 1 \/ (seeks /\ Hls)
  BY DEF Advance
<1>4. target \in Items
  <2>1. w'[j].cur \in Items
    BY TypeMoving DEF TypeOK, RunLocals
  <2> QED  BY <1>1, <1>3, <2>1 DEF MoveTo, Step, TypeOK, RunLocals
<1> DEFINE local == [w[j] EXCEPT !.cur = target, !.wrote = FALSE,
                                 !.seeked = @ \/ seeks, !.fifo = rest]
<1>5. /\ wpc'[j] = "after" /\ w'[j] = local
      /\ \A k \in Jobs \ {j} : wpc'[k] = wpc[k] /\ w'[k] = w[k]
  BY <1>3 DEF MoveTo, Step, TypeOK
<1>6. /\ local.cur = target /\ local.eof = w[j].eof /\ local.pts = w[j].pts
      /\ ~local.wrote /\ (~local.seeked => ~w[j].seeked /\ ~seeks)
  BY <1>1 DEF RunLocals
<1> HIDE DEF local
<1>7. /\ w'[j].cur = target /\ w'[j].eof = w[j].eof /\ w'[j].pts = w[j].pts
      /\ ~w'[j].wrote /\ (~w'[j].seeked => ~w[j].seeked /\ ~seeks)
  BY <1>5, <1>6
<1>8. /\ wpc[j] \in Locked /\ wpc'[j] \in Locked /\ w[j].cur \in disk
      /\ ~w[j].seeked => Passed(j)
  BY <1>1, <1>2, <1>5 DEF Filled, Going, Locked, Turning
<1>9. Files' /\ target \in disk'
  <2>1. CASE Hls
    BY <1>1, <1>2, <1>3, <2>1 DEF Files, MoveTo
  <2>2. CASE ~Hls
    BY <1>1, <1>2, <1>3, <1>4, <1>8, <2>2 DEF Files, MoveTo
  <2> QED  BY <2>1, <2>2
<1>10. SuccessIsComplete'
  BY <1>1, <1>2 DEF SuccessIsComplete
<1>11. Rerun(j)'
  BY <1>1, <1>5, <1>7 DEF Rerun
<1>12. ~w'[j].seeked => Passed(j)'
  <2> SUFFICES ASSUME ~w'[j].seeked PROVE Passed(j)'
    OBVIOUS
  <2>1. target = w[j].cur + 1 /\ Passed(j)
    BY <1>3, <1>7, <1>8
  <2>2. 1..(w[j].cur - 1) \subseteq written /\ w[j].cur \in written
    BY <1>2, <2>1 DEF Passed
  <2>3. 1..(w'[j].cur - 1) \subseteq 1..(w[j].cur - 1) \cup {w[j].cur}
    BY <1>1, <1>7, <2>1 DEF Items
  <2> QED  BY <1>2, <1>7, <2>2, <2>3 DEF Passed
<1>13. Filled(j)'
  BY <1>7, <1>9, <1>12 DEF Filled
<1> QED  BY <1>2, <1>5, <1>8, <1>9, <1>10, <1>11, <1>13, WholeJob

LEMMA InitWhole == Init => WholeInv
<1> SUFFICES ASSUME Init PROVE WholeInv
  OBVIOUS
<1>1. Current /\ Exclusive
  BY DEF Init, Current, Exclusive, Locked, Turning
<1>2. Files /\ SuccessIsComplete
  BY DEF Init, Files, SuccessIsComplete
<1>3. \A j \in Jobs : Rerun(j) /\ Filled(j)
  BY DEF Init, Local0, Rerun, Filled, Going, Turning
<1> QED  BY <1>1, <1>2, <1>3 DEF WholeInv, Data

LEMMA NextWhole ==
    ASSUME ~DisableCache, CustodyInv, WholeInv, [Next]_vars, [Kept]_vars
    PROVE  WholeInv'
<1> USE DEF CustodyInv
<1>1. ASSUME NEW c \in Clients, Proceed(c) \/ Request(c) PROVE WholeInv'
  BY <1>1, WholeOpening, WholeStarting, WholeReading DEF Proceed, Request
<1>2. ASSUME NEW j \in Jobs, Work(j) PROVE WholeInv'
  BY <1>2, WholeRunning, WholeEnds, WholeOutput, WholeWriting, WholeAdvance
     DEF Work
<1>3. ASSUME NEW j \in Jobs, Notify(j) PROVE WholeInv'
  <2>1. /\ \A c \in Clients : cpc'[c] \in {cpc[c], "check"}
        /\ UNCHANGED <<active, outdated, freed, result, seek, written, disk, wpc,
                       w, holding>>
    BY <1>3 DEF Notify
  <2>2. Current' /\ Exclusive'
    BY <2>1 DEF WholeInv, Current, Exclusive
  <2>3. Data'
    BY <2>1, FrameData DEF WholeInv
  <2> QED  BY <2>2, <2>3 DEF WholeInv
<1>4. CASE Start
  <2>1. PICK j \in Jobs :
          /\ wpc' = [wpc EXCEPT ![j] = "ready"] /\ w' = [w EXCEPT ![j] = Local0]
    BY <1>4, HeadTailProperties DEF Start, TypeOK
  <2>2. UNCHANGED <<active, outdated, freed, result, seek, written, disk, cpc,
                    holding>>
    BY <1>4 DEF Start
  <2>3. /\ wpc'[j] = "ready" /\ w'[j] = Local0
        /\ \A k \in Jobs \ {j} : wpc'[k] = wpc[k] /\ w'[k] = w[k]
    BY <2>1 DEF TypeOK
  <2>4. Current' /\ Exclusive'
    BY <2>2, <2>3 DEF WholeInv, Current, Exclusive, Locked, Turning
  <2>5. Files' /\ SuccessIsComplete'
    BY <2>2 DEF WholeInv, Data, Files, SuccessIsComplete
  <2>6. Rerun(j)' /\ Filled(j)'
    BY <2>3 DEF Local0, Rerun, Filled, Going, Turning
  <2>7. \A k \in Jobs \ {j} : Rerun(k)' /\ Filled(k)'
    BY <2>2, <2>3 DEF WholeInv, Data, Rerun, Filled, Going, Passed
  <2> QED  BY <2>4, <2>5, <2>6, <2>7 DEF WholeInv, Data
<1>5. CASE Environment \/ UNCHANGED vars
  <2>1. SigInt \/ UNCHANGED vars
    BY <1>5 DEF Environment, Kept, SourceChanges, LoseFile, vars
  <2>2. UNCHANGED <<active, outdated, freed, result, seek, written, disk, wpc, w,
                    holding, cpc>>
    BY <2>1 DEF SigInt, vars
  <2>3. Current' /\ Exclusive'
    BY <2>2 DEF WholeInv, Current, Exclusive
  <2>4. Data'
    BY <2>2, FrameData DEF WholeInv
  <2> QED  BY <2>3, <2>4 DEF WholeInv
<1> QED  BY <1>1, <1>2, <1>3, <1>4, <1>5 DEF Next

\* A cache file or a set of segments recorded as finished has all its items,
\* whatever was sought, repaired, interrupted or failed before, unless somebody
\* takes a cache file away, changes the source or the options, or switches the
\* cache off: then an open clears the buffer under the worker of another.
THEOREM SuccessIsCompleteHolds ==
    ASSUME ~DisableCache
    PROVE  Spec /\ [][Kept]_vars => []SuccessIsComplete
<1>1. CustodyInv /\ WholeInv /\ [Next]_vars /\ [Kept]_vars => WholeInv'
  BY NextWhole
<1>2. WholeInv => SuccessIsComplete
  BY DEF WholeInv, Data
<1> QED  BY InitWhole, <1>1, <1>2, CustodyHolds, PTL DEF Spec
=============================================================================
