------------------------------ MODULE Transcode ------------------------------
(***************************************************************************)
(* The life of one Cache_Entry shared by FUSE threads and pool threads     *)
(* (src/src/transcode.cc, src/src/cache_entry.cc).                         *)
(*                                                                         *)
(* A client is a FUSE thread working on one open file handle: it opens the *)
(* entry (transcoder_new), reads items from it (transcoder_read) and       *)
(* closes it (transcoder_delete).  A job is one call of transcoder_thread, *)
(* queued to the thread pool by start_transcoder_thread.                   *)
(*                                                                         *)
(* An item is a block of the output file, or one HLS segment (Hls).  Time  *)
(* is abstract: the inactivity limits may expire at any moment at which    *)
(* the code would let them, that is when at most one reference is left.    *)
(* The queue is first come, first served, as ThreadPool implements JobQueue.*)
(***************************************************************************)
EXTENDS Integers, Sequences, FiniteSets

CONSTANTS
    Clients,        \* FUSE threads, each with at most one handle
    Jobs,           \* transcoder_thread calls that may be pending or running
    None,           \* no owner
    N,              \* number of items
    PoolSize,       \* threads in the pool
    Hls,            \* multi-format output, one cache file per item
    Prebuffer,      \* prebuffer_size or prebuffer_time is set
    PrebufferSegments, \* whole segments in prebuffer_time
    MinSeek,        \* min_seek_time_diff in segments
    DisableCache,   \* option disable_cache
    Faults,         \* opening and decoding may fail
    MaxRefs,        \* bound: references ever held at once, leaked ones included
    MaxEvents       \* bound: events of the world outside

Items == 1..N

ASSUME ClientsAssumption ==
    /\ IsFiniteSet(Clients)
    /\ IsFiniteSet(Jobs)
    /\ Clients \cap Jobs = {}
    /\ None \notin Clients \cup Jobs
ASSUME NumbersAssumption ==
    /\ N \in Nat \ {0}
    /\ PoolSize \in Nat \ {0}
    /\ MinSeek \in Nat
    /\ PrebufferSegments \in Nat
    /\ MaxRefs \in Nat
    /\ MaxEvents \in Nat
ASSUME SwitchesAssumption ==
    {Hls, Prebuffer, DisableCache, Faults} \subseteq BOOLEAN

VARIABLES
    decoding,   \* m_is_decoding
    active,     \* owner of m_active_mutex
    lock,       \* owner of m_mutex, held for all of transcoder_new
    refs,       \* m_ref_count
    result,     \* m_cache_info.m_result
    error,      \* m_cache_info.m_error
    seek,       \* m_seek_to_no, 0 when nothing is stacked
    written,    \* items whose cache file holds bytes of the output
    fin,        \* segments with m_seg_finished
    disk,       \* items whose cache file exists
    cursor,     \* Buffer::current_segment_no
    outdated,   \* the source or the options differ from those of the entry
    freed,      \* the Cache_Entry object was destroyed
    exit,       \* thread_exit
    events,     \* environment events so far
    queue,      \* jobs waiting for a pool thread
    wpc, w,     \* where each job is, and its local variables
    holding,    \* jobs whose closeio is still to come
    guard,      \* jobs with m_thread_running_lock_guard set
    bell,       \* jobs about to call notify_all
    cpc, l,     \* where each client is, and its local variables
    handle      \* clients that own a reference

info    == <<result, error, seek>>
entry   == <<decoding, active, lock, refs, info>>
buffer  == <<written, fin, disk, cursor>>
world   == <<outdated, freed, exit, events>>
pool    == <<queue, wpc, w, holding, guard, bell>>
client  == <<cpc, l, handle>>
vars    == <<entry, buffer, world, pool, client>>

\* The local variables of transcoder_read and start_transcoder_thread: the
\* item asked for, what is wrong with it, the job submitted, and the place
\* start_transcoder_thread was called from.
Idle0 == [item |-> 1, need |-> "nothing", ticket |-> None, cont |-> "new"]

\* The local variables of transcoder_thread and its FFmpeg_Transcoder: the
\* item in work and the stacked seeks, how far the run has come, and whether
\* m_video_pts has ever left zero.
Local0 == [cur |-> 1, fifo |-> <<>>, seeked |-> FALSE, unlocked |-> FALSE,
           timeout |-> FALSE, ok |-> TRUE, wrote |-> FALSE, eof |-> FALSE,
           pts |-> FALSE]

Init ==
    /\ result \in {"none", "success"}
    /\ written = (IF result = "success" THEN Items ELSE {})
    /\ disk = written /\ fin = {} /\ cursor = 1
    /\ decoding = FALSE /\ active = None /\ lock = None /\ refs = 0
    /\ error = FALSE /\ seek = 0
    /\ outdated = FALSE /\ freed = FALSE /\ exit = FALSE /\ events = 0
    /\ queue = <<>> /\ holding = {} /\ guard = {} /\ bell = {}
    /\ wpc = [j \in Jobs |-> "free"] /\ w = [j \in Jobs |-> Local0]
    /\ cpc = [c \in Clients |-> "idle"] /\ l = [c \in Clients |-> Idle0]
    /\ handle = {}

-----------------------------------------------------------------------------
(* Helpers on the shared entry. *)

finished == result # "none"

\* Cache_Entry::openio counts every caller.  Mutant: it forgets to.
OpenedUncounted == refs
Opened == refs + 1

\* Cache::closeio deletes once the last reference goes.  Mutant: too early.
LastRefEarly == refs <= 2
LastRef == refs = 1

\* The first to open a cache erases its files unless they are finished.
MustErase == refs = 0 /\ ~finished

\* The source ends with the last item.
AtEnd(i) == i = N

\* The items that live in the same cache file as i.
FileOf(i) == IF Hls THEN {i} ELSE Items

\* Buffer::clear empties every open file and removes the others.  The file
\* being written is open; of the others a reader may hold some open.
ClearBuffer ==
    /\ written' = {} /\ fin' = {}
    /\ \E kept \in SUBSET disk :
         /\ FileOf(cursor) \cap disk \subseteq kept
         /\ \A i \in kept : FileOf(i) \subseteq kept
         /\ disk' = kept
    /\ UNCHANGED cursor

\* Cache_Entry::clear: everything but the decoding flag and the seek request.
Clear ==
    /\ ClearBuffer
    /\ result' = "none" /\ error' = FALSE /\ outdated' = FALSE
    /\ UNCHANGED seek

\* reopen_finished_incomplete_cache, after the caller has stacked item i.
Reopen(i) ==
    /\ seek' = i
    /\ result' = (IF result = "incomplete" THEN "none" ELSE result)
    /\ error' = (IF result = "incomplete" THEN FALSE ELSE error)

\* invalidate_stale_cache_file with Buffer::invalidate_segment.
Invalidate(i) ==
    /\ written' = written \ FileOf(i)
    /\ disk' = disk \ FileOf(i)
    /\ fin' = fin \ FileOf(i)
    /\ result' = "none" /\ error' = FALSE
    /\ seek' = (IF Hls THEN i ELSE seek)
    /\ UNCHANGED cursor

\* Nothing was produced yet: only then may the sizes and the number of
\* segments be unknown, and have to be predicted from the source.
Unpredicted == Hls /\ ~finished /\ written = {} /\ fin = {}

\* What counts as complete before anybody looks at the cache file.
Logically(i) == IF Hls THEN result = "success" \/ i \in fin ELSE finished

-----------------------------------------------------------------------------
(* transcoder_new *)

Goto(c, from, to) ==
    /\ cpc[c] = from
    /\ cpc' = [cpc EXCEPT ![c] = to]
    /\ l' = [l EXCEPT ![c] = IF to = "idle" THEN Idle0 ELSE @]

\* The same, with a new value for the local variables.
GotoWith(c, from, to, local) ==
    /\ cpc[c] = from
    /\ cpc' = [cpc EXCEPT ![c] = to]
    /\ l' = [l EXCEPT ![c] = local]

\* Cache::openio hands out a pointer to the entry, without a mutex and without
\* counting it.  Nobody finds an entry that is gone: the next one is another.
Find(c) ==
    /\ Goto(c, "idle", "enter")
    /\ c \notin handle /\ ~freed
    /\ UNCHANGED <<entry, buffer, world, pool, handle>>

\* The entry was destroyed while the caller was on its way to lock(), or in it.
NewLost(c) ==
    /\ Goto(c, "enter", "lost")
    /\ freed
    /\ UNCHANGED <<entry, buffer, world, pool, handle>>

\* lock(), Cache_Entry::openio.  The first reference reads the row again and,
\* unless the cache was finished, erases the files; the segment flags in
\* memory survive.
New(c) ==
    /\ Goto(c, "enter", "outdated")
    /\ ~freed /\ lock = None
    /\ lock' = c
    /\ refs' = Opened
    /\ handle' = handle \cup {c}
    /\ IF MustErase THEN written' = {} /\ disk' = {} /\ cursor' = 1
                    ELSE UNCHANGED <<written, disk, cursor>>
    /\ UNCHANGED <<decoding, active, info, fin, world, pool>>

\* Buffer::init failed: Cache_Entry::clear(false), and on to the catch block.
NewFails(c) ==
    /\ Faults
    /\ Goto(c, "enter", "abort")
    /\ ~freed /\ lock = None /\ refs = 0
    /\ lock' = c
    /\ refs' = 1
    /\ handle' = handle \cup {c}
    /\ ClearBuffer /\ result' = "none" /\ error' = FALSE
    /\ UNCHANGED <<decoding, active, seek, world, pool>>

NewOutdated(c) ==
    /\ Goto(c, "outdated",
            IF DisableCache \/ (~decoding /\ outdated) THEN "clear" ELSE "want")
    /\ UNCHANGED <<entry, buffer, world, pool, handle>>

NewClear(c) ==
    /\ Goto(c, "clear", "want")
    /\ Clear
    /\ UNCHANGED <<decoding, active, lock, refs, freed, exit, events, pool, handle>>

\* Nothing to do, start a worker (files), or only predict the size (HLS).
NewWant(c) ==
    /\ IF decoding \/ result = "success"
         THEN Goto(c, "want", "idle") /\ lock' = None
       ELSE IF ~Hls
         THEN Goto(c, "want", "cas") /\ UNCHANGED lock
       ELSE \/ Goto(c, "want", "idle") /\ lock' = None
            \/ Faults /\ Unpredicted /\ Goto(c, "want", "abort") /\ UNCHANGED lock
    /\ UNCHANGED <<decoding, active, refs, info, buffer, world, pool, handle>>

\* The catch block: forget the decoding flag and unlock ...
NewAbort(c) ==
    /\ Goto(c, "abort", "drop")
    /\ decoding' = FALSE
    /\ lock' = None
    /\ UNCHANGED <<active, refs, info, buffer, world, pool, handle>>

\* ... and closeio(CACHE_CLOSE_DELETE): the last reference deletes the files
\* and the entry, whose destructor waits for m_active_mutex.
NewDrop(c) ==
    /\ Goto(c, "drop", "idle")
    /\ refs' = refs - 1
    /\ handle' = handle \ {c}
    /\ IF LastRef THEN /\ active = None /\ freed' = TRUE
                       /\ written' = {} /\ disk' = {} /\ fin' = {}
                  ELSE UNCHANGED <<freed, written, disk, fin>>
    /\ UNCHANGED <<decoding, active, lock, info, cursor, outdated, exit, events,
                   pool>>

\* transcoder_delete: closeio(CACHE_CLOSE_NOOPT) keeps the entry.
Delete(c) ==
    /\ cpc[c] = "idle" /\ c \in handle
    /\ refs' = refs - 1
    /\ handle' = handle \ {c}
    /\ UNCHANGED <<decoding, active, lock, info, buffer, world, pool, cpc, l>>

-----------------------------------------------------------------------------
(* start_transcoder_thread, called while opening ("new"), before waiting for *)
(* an item ("serve"), and from the waiting loop ("poll").                    *)

\* Where the client goes when the call returns zero, or an error.
Returned(c, zero) ==
    CASE l[c].cont = "new"   -> IF zero THEN "idle" ELSE "abort"
      [] l[c].cont = "serve" -> IF zero THEN "until" ELSE "idle"
      [] l[c].cont = "poll"  -> IF zero THEN "poll" ELSE "idle"

\* What is left of the locals once the item asked for is all that matters.
Plain(c) == [Idle0 EXCEPT !.item = l[c].item]

\* A successful transcoder_new unlocks the entry.
Return(c, from, zero) ==
    /\ GotoWith(c, from, Returned(c, zero),
                IF Returned(c, zero) = "idle" THEN Idle0 ELSE Plain(c))
    /\ lock' = (IF l[c].cont = "new" /\ zero THEN None ELSE lock)

StartClaim(c) ==
    /\ Goto(c, "cas", IF decoding THEN "trylock" ELSE "submit")
    /\ decoding' = TRUE
    /\ UNCHANGED <<active, lock, refs, info, buffer, world, pool, handle>>

\* The flag is set: somebody owns the entry, or the flag is taken as stale.
StartTryLock(c) ==
    /\ IF active # None
         THEN Return(c, "trylock", TRUE) /\ UNCHANGED <<active, decoding>>
         ELSE /\ Goto(c, "trylock", "recas") /\ UNCHANGED lock
              /\ active' = c /\ decoding' = FALSE
    /\ UNCHANGED <<refs, info, buffer, world, pool, handle>>

StartReclaim(c) ==
    /\ IF decoding THEN Return(c, "recas", TRUE)
                   ELSE Goto(c, "recas", "submit") /\ UNCHANGED lock
    /\ decoding' = TRUE
    /\ active' = None
    /\ UNCHANGED <<refs, info, buffer, world, pool, handle>>

\* The number of segments had to be predicted first, and could not be.
\* Mutant: the flag stays set.
StartUnpredictableClaimed(c) ==
    /\ Faults /\ Unpredicted
    /\ Return(c, "submit", FALSE)
    /\ UNCHANGED <<decoding, active, refs, info, buffer, world, pool, handle>>
StartUnpredictable(c) ==
    /\ Faults /\ Unpredicted
    /\ Return(c, "submit", FALSE)
    /\ decoding' = FALSE
    /\ UNCHANGED <<active, refs, info, buffer, world, pool, handle>>

\* The starter of job j has not returned yet.
Waiting(c, j) == /\ l[c].ticket = j
                 /\ cpc[c] \in {"check", "block", "asleep", "after"}
Awaited(j)    == \E c \in Clients : Waiting(c, j)

\* schedule_thread under m_thread_running_mutex.
StartSubmit(c) ==
    \E j \in Jobs :
      /\ wpc[j] = "free" /\ ~Awaited(j)
      /\ GotoWith(c, "submit", "check", [l[c] EXCEPT !.ticket = j])
      /\ queue' = Append(queue, j)
      /\ wpc' = [wpc EXCEPT ![j] = "queued"]
      /\ guard' = guard \ {j}
      /\ UNCHANGED <<entry, buffer, world, w, holding, bell, handle>>

\* while (!guard) wait(...): the test and falling asleep are two steps for
\* anybody who does not hold the mutex, and the worker does not.  Mutant: the
\* starter does not wait.
StartCheckHasty(c) ==
    /\ Goto(c, "check", "after")
    /\ UNCHANGED <<entry, buffer, world, pool, handle>>
StartCheck(c) ==
    /\ Goto(c, "check", IF l[c].ticket \in guard THEN "after" ELSE "block")
    /\ UNCHANGED <<entry, buffer, world, pool, handle>>

StartBlock(c) ==
    /\ Goto(c, "block", "asleep")
    /\ UNCHANGED <<entry, buffer, world, pool, handle>>

\* The starter gives up its share of THREAD_DATA and reports the worker's error.
StartAfter(c) ==
    /\ Return(c, "after", ~error)
    /\ guard' = guard \ {l[c].ticket}
    /\ UNCHANGED <<decoding, active, refs, info, buffer, world, queue, wpc, w,
                   holding, bell, handle>>

-----------------------------------------------------------------------------
(* transcoder_read *)

\* Reading item i; the first look at the cache file.
Read(c, i) ==
    /\ c \in handle
    /\ GotoWith(c, "idle",
                IF ~Logically(i) THEN IF Hls THEN "missing" ELSE "gate"
                ELSE IF i \in disk THEN "gate"
                ELSE IF decoding THEN "await" ELSE "stale",
                [l[c] EXCEPT !.item = i,
                   !.need = IF Hls /\ ~Logically(i) THEN "segment" ELSE @])
    /\ UNCHANGED <<entry, buffer, world, pool, handle>>

\* wait_for_active_transcoder
ReadAwait(c) ==
    /\ Goto(c, "await", "stale")
    /\ active = None
    /\ UNCHANGED <<entry, buffer, world, pool, handle>>

ReadStale(c) ==
    /\ IF l[c].item \in disk
         THEN Goto(c, "stale", "gate") /\ UNCHANGED <<info, buffer>>
         ELSE /\ GotoWith(c, "stale", IF Hls THEN "missing" ELSE "gate",
                          [l[c] EXCEPT !.need = "repair"])
              /\ Invalidate(l[c].item)
    /\ UNCHANGED <<decoding, active, lock, refs, world, pool, handle>>

\* A segment is missing.  Nobody works on it: stack it and open the cache
\* for repair.  Somebody does: ask for a seek if it lies far enough ahead.
ReadMissing(c) ==
    /\ Goto(c, "missing",
            IF ~decoding THEN "reopen"
            ELSE IF l[c].item > cursor + MinSeek THEN "push" ELSE "gate")
    /\ UNCHANGED <<entry, buffer, world, pool, handle>>

ReadReopen(c) ==
    /\ Goto(c, "reopen", "gate")
    /\ Reopen(l[c].item)
    /\ UNCHANGED <<decoding, active, lock, refs, buffer, world, pool, handle>>

ReadPush(c) ==
    /\ Goto(c, "push", "gate")
    /\ seek' = l[c].item
    /\ UNCHANGED <<decoding, active, lock, refs, result, error, buffer, world,
                   pool, handle>>

\* Start a worker?  (An incomplete cache serves the segments it has.)
ReadGate(c) ==
    LET start == \/ l[c].need = "repair"
                 \/ ~decoding /\ (l[c].need = "segment" \/ ~finished)
    IN /\ \/ start /\ GotoWith(c, "gate", "cas", [l[c] EXCEPT !.cont = "serve"])
          \/ ~start /\ GotoWith(c, "gate", "until", Plain(c))
       /\ UNCHANGED <<entry, buffer, world, pool, handle>>

\* cached_item_available: available, not yet, or stale and invalidated.  A
\* block of a file is written completely; of a segment, the request may or
\* may not lie in the bytes written so far.
Available(i)   == (Logically(i) \/ i \in written) /\ i \in disk
Vanished(i)    == (Logically(i) \/ i \in written) /\ i \notin disk
Unavailable(i) == ~Logically(i) /\ (Hls \/ i \notin written)

\* transcode_until before its loop; the end of a file may also be answered
\* without waiting (MP3 tag, Windows look-ahead).
ReadUntil(c) ==
    /\ \/ /\ Available(l[c].item)
          /\ Goto(c, "until", "copy") /\ UNCHANGED <<info, buffer>>
       \/ /\ Unavailable(l[c].item)
          /\ Goto(c, "until", IF decoding THEN "poll" ELSE "idle")
          /\ UNCHANGED <<info, buffer>>
       \/ /\ Vanished(l[c].item) /\ Invalidate(l[c].item)
          /\ Goto(c, "until", IF decoding THEN "poll" ELSE "idle")
    /\ UNCHANGED <<decoding, active, lock, refs, world, pool, handle>>

ReadTail(c) ==
    /\ ~Hls /\ Unavailable(l[c].item)
    /\ Goto(c, "until", "idle")
    /\ UNCHANGED <<entry, buffer, world, pool, handle>>

\* One turn of the loop.
ReadPoll(c) ==
    /\ \/ /\ Available(l[c].item)
          /\ Goto(c, "poll", IF error THEN "idle" ELSE "copy")
          /\ UNCHANGED <<info, buffer>>
       \/ /\ Vanished(l[c].item) /\ Invalidate(l[c].item)
          /\ Goto(c, "poll", "poll")
       \/ /\ Unavailable(l[c].item) /\ (error \/ exit)
          /\ Goto(c, "poll", "idle") /\ UNCHANGED <<info, buffer>>
       \/ /\ Unavailable(l[c].item) /\ ~error /\ ~exit /\ Hls /\ ~decoding
          /\ GotoWith(c, "poll", "cas", [l[c] EXCEPT !.cont = "poll"])
          /\ Reopen(l[c].item) /\ UNCHANGED buffer
    /\ UNCHANGED <<decoding, active, lock, refs, world, pool, handle>>

\* fuse_interrupted: the client has gone away.
ReadInterrupted(c) ==
    /\ events < MaxEvents
    /\ events' = events + 1
    /\ Goto(c, "poll", "idle")
    /\ UNCHANGED <<entry, buffer, outdated, freed, exit, pool, handle>>

\* Open for reading, cut the length to what is there, copy.
ReadCopy(c) ==
    /\ Goto(c, "copy", "idle")
    /\ UNCHANGED <<entry, buffer, world, pool, handle>>

-----------------------------------------------------------------------------
(* transcoder_thread and transcode *)

\* Moves job j, which has no notification left to give, and updates its locals.
Step(j, from, to, local) ==
    /\ wpc[j] = from /\ j \notin bell
    /\ wpc' = [wpc EXCEPT ![j] = to]
    /\ w' = [w EXCEPT ![j] = local]

\* Sets the lock guard; notify_all follows as a step of its own.
Signal(j) == guard' = guard \cup {j} /\ bell' = bell \cup {j}
Quiet     == UNCHANGED <<guard, bell>>

Notify(j) ==
    /\ j \in bell
    /\ bell' = bell \ {j}
    /\ cpc' = [c \in Clients |->
                 IF cpc[c] = "asleep" /\ l[c].ticket = j THEN "check" ELSE cpc[c]]
    /\ UNCHANGED <<entry, buffer, world, queue, wpc, w, holding, guard, l, handle>>

Busy == {j \in Jobs : wpc[j] \notin {"free", "queued"}}

\* A pool thread takes the oldest job.
Start ==
    /\ queue # <<>>
    /\ Cardinality(Busy) < PoolSize
    /\ queue' = Tail(queue)
    /\ wpc' = [wpc EXCEPT ![Head(queue)] = "ready"]
    /\ w' = [w EXCEPT ![Head(queue)] = Local0]
    /\ UNCHANGED <<entry, buffer, world, holding, guard,
                   bell, client>>

LockActive(j) ==
    /\ active = None
    /\ active' = j
    /\ Step(j, "ready", "begin", w[j])
    /\ UNCHANGED <<decoding, lock, refs, info, buffer, world, queue, holding, guard,
                   bell, client>>

\* A stacked segment keeps the others; anything else starts from nothing.
Begin(j) ==
    /\ Step(j, "begin", "open", [w[j] EXCEPT !.ok = TRUE])
    /\ IF Hls /\ seek # 0
         THEN /\ result' = "none" /\ error' = FALSE
              /\ UNCHANGED <<seek, buffer, outdated>>
         ELSE Clear
    /\ UNCHANGED <<decoding, active, lock, refs, freed, exit, events, queue,
                   holding, guard, bell, client>>

\* m_is_decoding = true, Cache_Entry::openio, open_input_file.
OpenInput(j) ==
    /\ refs < MaxRefs
    /\ Step(j, "open", "output", w[j])
    /\ decoding' = TRUE
    /\ refs' = Opened
    /\ holding' = holding \cup {j}
    /\ UNCHANGED <<active, lock, info, buffer, world, queue, guard, bell, client>>

\* What transcode() leaves behind: its locals are gone and the streams closed;
\* the segment in work, the queue of seeks and have_seeked survive.
Closed(j) == [w[j] EXCEPT !.unlocked = FALSE, !.wrote = FALSE, !.eof = FALSE]

\* stack_seek_segment.  A segment that waits already is not stacked twice.
Stacked(j) ==
    IF seek = 0 \/ seek \in {w[j].fifo[k] : k \in DOMAIN w[j].fifo}
      THEN w[j].fifo ELSE Append(w[j].fifo, seek)

\* The catch block: report the error, wake the starter.  Mutant: it does not.
ThrowSilent(j, from) ==
    /\ Faults
    /\ Step(j, from, "retry", [Closed(j) EXCEPT !.ok = FALSE])
    /\ error' = TRUE /\ Quiet
    /\ UNCHANGED <<decoding, active, lock, refs, result, seek, buffer, world,
                   queue, holding, client>>
Throw(j, from) ==
    /\ Faults
    /\ Step(j, from, "retry", [Closed(j) EXCEPT !.ok = FALSE])
    /\ error' = TRUE
    /\ Signal(j)
    /\ UNCHANGED <<decoding, active, lock, refs, result, seek, buffer, world,
                   queue, holding, client>>

\* discard_hls_seek_near_beginning
NearBeginning(i) == MinSeek > 0 /\ i <= PrebufferSegments + MinSeek + 1

\* initialise_hls_output_segment takes the stacked segment and selects its
\* cache file, but does neither once video packets have left this transcoder.
\* Without prebuffering the starter is released at once.
OpenOutput(j) ==
    LET again  == Hls /\ w[j].pts
        target == IF again THEN w[j].cur
                  ELSE IF Hls /\ seek > 1 /\ ~NearBeginning(seek) THEN seek ELSE 1
    IN /\ Step(j, "output", "loop",
               [w[j] EXCEPT !.cur = target, !.unlocked = ~Prebuffer,
                  !.seeked = @ \/ (~again /\ target > 1),
                  !.fifo = IF again THEN Stacked(j) ELSE <<>>])
       /\ seek' = (IF Hls THEN 0 ELSE seek)
       /\ cursor' = (IF Hls /\ ~again THEN target ELSE cursor)
       /\ disk' = (IF again THEN disk ELSE disk \cup FileOf(target))
       /\ IF Prebuffer THEN Quiet ELSE Signal(j)
       /\ UNCHANGED <<decoding, active, lock, refs, result, error, written, fin,
                      world, queue, holding, client>>

\* The loop condition, which asks for the limit unless the cache is finished,
\* and the request for a seek it finds.
Loop(j) ==
    \/ /\ finished
       /\ Step(j, "loop", "release", w[j])
       /\ UNCHANGED seek
    \/ /\ ~finished /\ refs <= 1
       /\ Step(j, "loop", "release", [w[j] EXCEPT !.timeout = TRUE])
       /\ UNCHANGED seek
    \/ /\ ~finished /\ exit
       /\ Step(j, "loop", "release", [w[j] EXCEPT !.timeout = FALSE])
       /\ UNCHANGED seek
    \/ /\ ~finished /\ ~exit
       /\ Step(j, "loop", "work",
               [w[j] EXCEPT !.timeout = FALSE,
                            !.fifo = IF Hls THEN Stacked(j) ELSE @])
       /\ seek' = (IF Hls THEN 0 ELSE seek)
Looping(j) ==
    /\ Loop(j)
    /\ UNCHANGED <<decoding, active, lock, refs, result, error, buffer, world,
                   queue, holding, guard, bell, client>>

\* process_single_fr writes into the current item.
Write(j) ==
    /\ ~w[j].eof /\ ~w[j].wrote
    /\ Step(j, "work", "after", [w[j] EXCEPT !.wrote = TRUE, !.pts = Hls])
    /\ written' = written \cup {w[j].cur}
    /\ UNCHANGED <<decoding, active, lock, refs, info, fin, disk, cursor, world,
                   queue, holding, guard, bell, client>>

\* start_new_segment drops the requests that are near, and those for segments
\* with a position: what was written before and a reader has mapped.
Wanted(j, i, mapped) ==
    /\ ~NearBeginning(i)
    /\ ~(MinSeek > 0 /\ i \in w[j].cur + 1 .. w[j].cur + 1 + MinSeek)
    /\ i \notin mapped

\* Closes the current item and opens another one.
MoveTo(j, target, seeks, rest) ==
    /\ Step(j, "work", "after",
            [w[j] EXCEPT !.cur = target, !.wrote = FALSE, !.seeked = @ \/ seeks,
                         !.fifo = rest])
    /\ IF Hls THEN /\ fin' = fin \cup {w[j].cur}
                   /\ cursor' = target
                   /\ disk' = disk \cup {target}
              ELSE UNCHANGED <<fin, cursor, disk>>

\* The current item is complete: on to the next one, or to the first
\* stacked segment that is wanted.
Advance(j) ==
    \E mapped \in SUBSET (disk \cap written) :
    LET fifo   == w[j].fifo
        wanted == {k \in DOMAIN fifo : Wanted(j, fifo[k], mapped)}
    IN /\ ~w[j].eof /\ w[j].wrote /\ ~AtEnd(w[j].cur)
       /\ \/ /\ ~Hls \/ wanted = {}
             /\ MoveTo(j, w[j].cur + 1, FALSE, <<>>)
          \/ \E first \in wanted :
               /\ Hls /\ \A k \in wanted : first <= k
               /\ MoveTo(j, fifo[first], TRUE, SubSeq(fifo, first + 1, Len(fifo)))
       /\ UNCHANGED <<decoding, active, lock, refs, info, written, world, queue,
                      holding, guard, bell, client>>

\* A run that skipped items leaves an incomplete cache.  Mutant: it is taken
\* for a success.
VerdictAlways(j) == "success"
Verdict(j) == IF w[j].seeked THEN "incomplete" ELSE "success"

\* End of the source, reported again by every later call: transcode_finish.
Finish(j) ==
    /\ w[j].eof \/ (w[j].wrote /\ AtEnd(w[j].cur))
    /\ Step(j, "work", "after", [w[j] EXCEPT !.eof = TRUE])
    /\ fin' = (IF Hls THEN fin \cup {w[j].cur} ELSE fin)
    /\ result' = Verdict(j)
    /\ decoding' = FALSE
    /\ UNCHANGED <<active, lock, refs, error, seek, written, disk, cursor, world,
                   queue, holding, guard, bell, client>>

\* The rest of a turn: release the starter once enough is buffered, suspend
\* once nobody looks (which releases the starter too).
After(j) ==
    /\ \/ Step(j, "after", "loop", w[j]) /\ Quiet
       \/ /\ ~w[j].unlocked
          /\ Step(j, "after", "loop", [w[j] EXCEPT !.unlocked = TRUE])
          /\ Signal(j)
       \/ /\ refs <= 1
          /\ Step(j, "after", "suspended", [w[j] EXCEPT !.unlocked = TRUE])
          /\ IF w[j].unlocked THEN Quiet ELSE Signal(j)
    /\ UNCHANGED <<entry, buffer, world, queue, holding, client>>

\* Asleep for want of readers until one comes, the limit is reached, or exit.
\* Mutant: there is no limit.
SuspendedForGood(j) ==
    /\ refs > 1 \/ exit
    /\ Step(j, "suspended", "loop", w[j])
    /\ UNCHANGED <<entry, buffer, world, queue, holding, guard, bell, client>>
Suspended(j) ==
    /\ IF refs > 1 \/ exit
         THEN Step(j, "suspended", "loop", w[j])
         ELSE Step(j, "suspended", "release", [w[j] EXCEPT !.timeout = TRUE])
    /\ UNCHANGED <<entry, buffer, world, queue, holding, guard, bell, client>>

\* Past the loop: a starter still waiting is released early.  Mutant: it is
\* forgotten.
ReleaseSilent(j) ==
    /\ Step(j, "release", "retry", Closed(j))
    /\ UNCHANGED <<entry, buffer, world, queue, holding, guard, bell, client>>
Release(j) ==
    /\ Step(j, "release", "retry", Closed(j))
    /\ IF w[j].unlocked THEN Quiet ELSE Signal(j)
    /\ UNCHANGED <<entry, buffer, world, queue, holding, client>>

\* Another run for a request that came too late, unless this one had seeked.
Retry(j) ==
    LET again == w[j].ok /\ ~exit /\ seek # 0 /\ ~(Hls /\ w[j].seeked)
    IN /\ Step(j, "retry", IF again THEN "begin" ELSE "undecode", w[j])
       /\ UNCHANGED <<entry, buffer, world, queue, holding, guard, bell, client>>

Undecode(j) ==
    /\ Step(j, "undecode", "report", w[j])
    /\ decoding' = FALSE
    /\ UNCHANGED <<active, lock, refs, info, buffer, world, queue, holding, guard, bell, client>>

\* How the run ended, for whoever waits for an item.
Report(j) ==
    /\ Step(j, "report", "closeio", w[j])
    /\ error' = (IF w[j].timeout \/ exit \/ w[j].seeked THEN ~w[j].seeked
                 ELSE ~w[j].ok)
    /\ UNCHANGED <<decoding, active, lock, refs, result, seek, buffer, world,
                   queue, holding, guard, bell, client>>

\* Cache::closeio: after a timeout the last reference deletes the entry.
CloseIo(j) ==
    /\ Step(j, "closeio", "leave", w[j])
    /\ refs' = refs - 1
    /\ holding' = holding \ {j}
    /\ IF LastRef /\ w[j].timeout
         THEN freed' = TRUE /\ written' = {} /\ disk' = {} /\ fin' = {}
         ELSE UNCHANGED <<freed, written, disk, fin>>
    /\ UNCHANGED <<decoding, active, lock, info, cursor, outdated, exit, events,
                   queue, guard, bell, client>>

\* thread_data.reset(), and the unique_locks go out of scope.
Leave(j) ==
    /\ Step(j, "leave", "free", Local0)
    /\ active' = None
    /\ guard' = (IF Awaited(j) THEN guard ELSE guard \ {j})
    /\ UNCHANGED <<decoding, lock, refs, info, buffer, world, queue, holding,
                   bell, client>>

-----------------------------------------------------------------------------
(* The world outside: the source or an option changes, a cache file is       *)
(* removed, SIGINT arrives, a wait wakes up without reason.                  *)

SourceChanges ==
    /\ events < MaxEvents
    /\ events' = events + 1
    /\ outdated' = TRUE
    /\ UNCHANGED <<entry, buffer, freed, exit, pool, client>>

LoseFile(i) ==
    /\ events < MaxEvents
    /\ events' = events + 1
    /\ i \in disk
    /\ disk' = disk \ FileOf(i)
    /\ UNCHANGED <<decoding, active, lock, refs, info, written, fin, cursor,
                   outdated, freed, exit, pool, client>>

SigInt ==
    /\ ~exit /\ events < MaxEvents
    /\ events' = events + 1
    /\ exit' = TRUE
    /\ UNCHANGED <<entry, buffer, outdated, freed, pool, client>>

WakeUp(c) ==
    /\ events < MaxEvents
    /\ events' = events + 1
    /\ Goto(c, "asleep", "check")
    /\ UNCHANGED <<entry, buffer, outdated, freed, exit, pool, handle>>

-----------------------------------------------------------------------------
ClientPlaces ==
    {"idle", "enter", "lost", "outdated", "clear", "want", "abort", "drop", "cas", "trylock",
     "recas", "submit", "check", "block", "asleep", "after", "await", "stale",
     "missing", "reopen", "push", "gate", "until", "poll", "copy"}
JobPlaces ==
    {"free", "queued", "ready", "begin", "open", "output", "loop", "work",
     "after", "suspended", "release", "retry", "undecode", "report", "closeio",
     "leave"}

CallLocals == [item : Items, need : {"nothing", "segment", "repair"},
               ticket : Jobs \cup {None}, cont : {"new", "serve", "poll"}]
RunLocals  == [cur : Items, fifo : Seq(Items), seeked : BOOLEAN,
               unlocked : BOOLEAN, timeout : BOOLEAN, ok : BOOLEAN,
               wrote : BOOLEAN, eof : BOOLEAN, pts : BOOLEAN]

TypeOK ==
    /\ decoding \in BOOLEAN /\ error \in BOOLEAN /\ outdated \in BOOLEAN
    /\ freed \in BOOLEAN /\ exit \in BOOLEAN
    /\ active \in Clients \cup Jobs \cup {None}
    /\ lock \in Clients \cup {None}
    /\ refs \in Int /\ events \in 0..MaxEvents
    /\ result \in {"none", "incomplete", "success"}
    /\ seek \in {0} \cup Items /\ cursor \in Items
    /\ written \subseteq Items /\ fin \subseteq Items /\ disk \subseteq Items
    /\ queue \in Seq(Jobs)
    /\ wpc \in [Jobs -> JobPlaces] /\ w \in [Jobs -> RunLocals]
    /\ holding \subseteq Jobs /\ guard \subseteq Jobs /\ bell \subseteq Jobs
    /\ cpc \in [Clients -> ClientPlaces] /\ l \in [Clients -> CallLocals]
    /\ handle \subseteq Clients

-----------------------------------------------------------------------------
(* Properties. *)

\* Where a client holds no reference for the call it is in.
Outside == {"idle", "enter", "lost"}

\* The reference count never falls below the number of its users: the open
\* handles and the workers that opened the cache entry themselves.
RefsCoverUsers == Cardinality(handle) + Cardinality(holding) <= refs

\* Neither the last close nor a worker's timeout destroys an entry that an
\* open handle, a queued job or another worker still points to.  An opener on
\* its way through lock() holds no reference and is not covered: see
\* OpenersKeepEntry.
FreedUnused ==
    freed => /\ handle = {} /\ queue = <<>>
             /\ \A c \in Clients : cpc[c] \in Outside
             /\ \A j \in Jobs : wpc[j] \in {"free", "leave"}

\* An entry that an opener has found is not destroyed before the opener has
\* counted itself: "If the cache entry is in use will not be deleted."
OpenersKeepEntry == \A c \in Clients : cpc[c] = "enter" => ~freed

\* Who keeps the entry alive.  A call has its handle; a job that was submitted
\* and has not opened the entry yet is awaited by exactly one client, which
\* cannot return because the job has not set its guard; every other job holds
\* a reference of its own until closeio.
Unopened(j) == \/ wpc[j] \in {"queued", "ready"}
               \/ wpc[j] \in {"begin", "open"} /\ j \notin holding
HolderPlaces == {"output", "loop", "work", "after", "suspended", "release",
                 "retry", "undecode", "report", "closeio"}

Handles == \A c \in Clients : IF c \in handle THEN cpc[c] \notin {"enter", "lost"}
                                               ELSE cpc[c] \in Outside

Custody ==
    /\ Handles
    /\ \A c \in Clients : cpc[c] = "after" => l[c].ticket \in guard
    /\ \A c, d \in Clients, j \in Jobs : Waiting(c, j) /\ Waiting(d, j) => c = d
    /\ \A j \in Jobs : Unopened(j) => j \notin guard /\ Awaited(j)
    /\ \A j \in Jobs : wpc[j] \in HolderPlaces => j \in holding
    /\ \A j \in holding : wpc[j] \in HolderPlaces \cup {"begin", "open"}
    /\ \A k, m \in DOMAIN queue : queue[k] = queue[m] => k = m
    /\ \A k \in DOMAIN queue : wpc[queue[k]] = "queued"
    /\ freed => handle = {} /\ holding = {}

\* An entry marked as being decoded has somebody to decode it: a starter
\* about to submit a job, or a job that has not yet reset the flag.
DecodingHasWorker ==
    decoding => \/ \E c \in Clients : cpc[c] = "submit"
                \/ \E j \in Jobs : wpc[j] \in JobPlaces \
                     {"free", "report", "closeio", "leave"}

\* Whatever became of the worker, it set the lock guard of its starter.
DoneSignalled ==
    \A c \in Clients, j \in Jobs :
      Waiting(c, j) /\ wpc[j] \in {"free", "undecode", "report", "closeio", "leave"}
        => j \in guard

\* A finished cache holds every item.
SuccessIsComplete == result = "success" /\ ~freed => written = Items

\* What is handed to the application has been written.
ServesWritten == \A c \in Clients : cpc[c] = "copy" => l[c].item \in written

\* No starter sleeps when its job has set the guard and rung the bell.
Missed(c)    == /\ cpc[c] = "asleep"
                /\ l[c].ticket \in guard \ bell
NoLostWakeup == \A c \in Clients : ~Missed(c)

\* The entry outlives the worker that holds its mutex.
WorkerKeepsEntry == active \in Jobs => ~freed

\* A run for a requested segment writes into that segment first.
StartsWhereAsked ==
    [][ \A j \in Jobs : /\ wpc[j] = "output" /\ wpc'[j] = "loop"
                        /\ Hls /\ seek > 1 /\ ~NearBeginning(seek)
          => w'[j].cur = seek ]_vars

\* A repair keeps the segments that are already there.
RepairKeepsSegments ==
    [][ \A j \in Jobs : wpc[j] = "begin" /\ wpc'[j] = "open"
          /\ (\E c \in Clients : Waiting(c, j) /\ l[c].need = "segment")
          => fin \subseteq fin' ]_vars

-----------------------------------------------------------------------------
\* The steps a FUSE thread takes by itself once it is inside a call.
Proceed(c) ==
    \/ New(c) \/ NewFails(c) \/ NewLost(c) \/ NewOutdated(c) \/ NewClear(c) \/ NewWant(c) \/ NewAbort(c) \/ NewDrop(c)
    \/ StartClaim(c) \/ StartTryLock(c) \/ StartReclaim(c)
    \/ StartUnpredictable(c) \/ StartSubmit(c) \/ StartCheck(c) \/ StartBlock(c)
    \/ StartAfter(c)
    \/ ReadAwait(c) \/ ReadStale(c) \/ ReadMissing(c) \/ ReadReopen(c)
    \/ ReadPush(c) \/ ReadGate(c) \/ ReadUntil(c) \/ ReadPoll(c) \/ ReadCopy(c)

\* What applications and the kernel decide.
Request(c) ==
    \/ Find(c) \/ Delete(c) \/ ReadTail(c) \/ ReadInterrupted(c)
    \/ \E i \in Items : Read(c, i)
    \/ WakeUp(c)

Work(j) ==
    \/ LockActive(j) \/ Begin(j) \/ OpenInput(j) \/ OpenOutput(j) \/ Looping(j)
    \/ Write(j) \/ Advance(j) \/ Finish(j) \/ After(j) \/ Suspended(j)
    \/ Release(j) \/ Retry(j) \/ Undecode(j) \/ Report(j) \/ CloseIo(j)
    \/ Leave(j) \/ Throw(j, "output") \/ Throw(j, "work")

Environment ==
    SourceChanges \/ SigInt \/ \E i \in Items : LoseFile(i)

Next ==
    \/ \E c \in Clients : Proceed(c) \/ Request(c)
    \/ \E j \in Jobs : Work(j) \/ Notify(j)
    \/ Start
    \/ Environment

Spec == Init /\ [][Next]_vars

\* Threads that can run do run: the operating system schedules every thread,
\* a mutex that is free is obtained, and the inactivity clock runs.
Fairness ==
    /\ WF_vars(Start)
    /\ \A c \in Clients : WF_vars(Proceed(c))
    /\ \A j \in Jobs : WF_vars(Work(j)) /\ WF_vars(Notify(j))

FairSpec == Spec /\ Fairness

\* The bound on references holds a worker back that the code would not.
Capped == refs >= MaxRefs

\* A worker that was started comes to an end.
WorkersEnd == \A j \in Jobs : wpc[j] = "queued" ~> (wpc[j] = "free" \/ Capped)

\* Every call returns (a read that waits for another worker or for its item,
\* an opener that waits for its worker), unless its starter has missed the
\* notification or its entry was destroyed under it.
CallsReturn ==
    \A c \in Clients :
      cpc[c] # "idle" ~> \/ cpc[c] \in {"idle", "lost"}
                         \/ Missed(c) \/ Capped
=============================================================================
