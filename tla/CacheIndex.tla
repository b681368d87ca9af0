----------------------------- MODULE CacheIndex -----------------------------
(***************************************************************************)
(* The cache of one process (src/src/cache.cc, cache_entry.cc): the map of *)
(* entries in memory, the rows of the SQLite index and the cache files,    *)
(* with threads that open and close entries, workers that encode them, the *)
(* pruning done by the timer and by every worker, and crashes.             *)
(*                                                                         *)
(* Cache::m_mutex is held by each statement on the index and by a whole    *)
(* pass of pruning, but not by the look-up in the map nor by the reference *)
(* count.  An entry's own mutex serialises the opens of that entry.        *)
(***************************************************************************)
EXTENDS Integers, Sequences, FiniteSets, SequencesExt, FiniteSetsExt

CONSTANTS
    Keys,           \* (destination file, type) pairs
    Users,          \* FUSE threads, one open file each at most
    Ids,            \* addresses of Cache_Entry objects
    None,           \* nothing: no entry, no row, no file, an object not created yet
    Gone,           \* an object that was destroyed
    Size,           \* Size[k]: size of k's encoded file
    MaxCacheSize,   \* params.m_max_cache_size, 0 for no limit
    ExpiryTime,     \* params.m_expiry_time, 0 for no limit
    MinDiskSpace,   \* params.m_min_diskspace
    FreeSpace,      \* what get_disk_free() may return
    Mounts,         \* Mounts[m]: the encoder settings of the m-th mount
    MaxTime,        \* bound: ticks of the clock
    MaxTouches      \* bound: changes of source files

ASSUME CacheAssumption ==
    /\ IsFiniteSet(Keys) /\ IsFiniteSet(Users)
    /\ Size \in [Keys -> Nat] /\ FreeSpace \subseteq Nat
    /\ Mounts \in Seq(Range(Mounts)) /\ Mounts # <<>>
    /\ {MaxCacheSize, ExpiryTime, MinDiskSpace, MaxTouches} \subseteq Nat
    /\ MaxTime \in Nat \ {0}

VARIABLES
    entry,          \* m_cache
    obj,            \* the objects, None where there is none
    row,            \* table cache_entry
    file,           \* the cache file: what it was encoded from, and whether whole
    source,         \* m_file_time, m_file_size of the source
    mount, now,     \* which mount this is, and the time
    upc, ukey, uobj,    \* threads: where, the file opened, its entry
    wpc,            \* the worker of each object
    prune,          \* the maintenance under way
    astray          \* an entry lost a reference, or a file has two entries

cacheVars == <<entry, obj, row, file, source, mount, now, upc, ukey, uobj, wpc, prune, astray>>
users     == <<upc, ukey, uobj>>
clock     == <<source, mount, now>>

\* What Cache_Entry::outdated() compares: the settings and the source.
Version(k) == [settings |-> Mounts[mount], source |-> source[k]]

\* CACHE_INFO as far as it matters, as clear() leaves it and as read_info does
\* before it looks for a row.
Cleared(k) == [result |-> "none", of |-> Version(k), size |-> 0, access |-> now]
Unread     == [result |-> "none", of |-> None, size |-> 0, access |-> 0]

Fresh(k) == [key |-> k, refs |-> 0, info |-> Cleared(k), ready |-> FALSE, decoding |-> FALSE]

Idle == [stage |-> "idle", plan |-> <<>>, todo |-> <<>>, left |-> 0, need |-> 0,
         by |-> None, victim |-> None]

CacheInit ==
    /\ entry = [k \in Keys |-> None] /\ obj = [i \in Ids |-> None]
    /\ row = [k \in Keys |-> None] /\ file = [k \in Keys |-> None]
    /\ source = [k \in Keys |-> 0] /\ mount = 1 /\ now = 1
    /\ upc = [u \in Users |-> "idle"] /\ ukey = [u \in Users |-> None]
    /\ uobj = [u \in Users |-> None] /\ wpc = [i \in Ids |-> "none"]
    /\ prune = Idle /\ astray = FALSE

\* m_mutex is free; the entry's mutex is free.
IndexFree == prune.stage \notin {"scan", "drop"}
EntryFree(i) ==
    \A u \in Users : uobj[u] = i => 
        upc[u] \notin {"reading", "sizing", "stamping", "checking", "starting"}
Live(i) == obj[i] \notin {None, Gone}
InUse(i) == wpc[i] # "none" \/ \E u \in Users : uobj[u] = i /\ upc[u] # "idle"

-----------------------------------------------------------------------------
(* Opening: transcoder_new. *)

\* Cache::openio finds the entry ...
Find(u, k) ==
    /\ upc[u] = "idle"
    /\ upc' = [upc EXCEPT ![u] = IF entry[k] = None THEN "creating" ELSE "found"]
    /\ ukey' = [ukey EXCEPT ![u] = k] /\ uobj' = [uobj EXCEPT ![u] = entry[k]]
    /\ UNCHANGED <<entry, obj, row, file, clock, wpc, prune, astray>>

\* ... or create_entry makes one.  emplace leaves an entry somebody else made
\* in the meantime where it is.
Create(u) ==
    LET k == ukey[u]
        i == CHOOSE j \in Ids : obj[j] = None
    IN /\ upc[u] = "creating" /\ \E j \in Ids : obj[j] = None
       /\ obj' = [obj EXCEPT ![i] = Fresh(k)]
       /\ entry' = (IF entry[k] = None THEN [entry EXCEPT ![k] = i] ELSE entry)
       /\ astray' = (astray \/ \E j \in Ids : Live(j) /\ obj[j].key = k)
       /\ upc' = [upc EXCEPT ![u] = "found"] /\ uobj' = [uobj EXCEPT ![u] = i]
       /\ UNCHANGED <<row, file, clock, ukey, wpc, prune>>

\* Cache_Entry::openio of an entry in use is done, unless its buffer was not
\* needed so far.  create says whether the file is to be read, or only its
\* size asked for.  An entry that was destroyed since it was found is where
\* this model ends for the thread.
Enter(u, create) ==
    LET i == uobj[u]
    IN /\ upc[u] = "found" /\ EntryFree(i)
       /\ IF obj[i] = Gone
            THEN upc' = [upc EXCEPT ![u] = "lost"] /\ UNCHANGED obj
            ELSE /\ obj' = [obj EXCEPT ![i].refs = @ + 1]
                 /\ upc' = [upc EXCEPT ![u] =
                      IF obj[i].refs = 0 THEN (IF create THEN "reading" ELSE "sizing")
                      ELSE IF create /\ ~obj[i].ready THEN "stamping" ELSE "checking"]
       /\ UNCHANGED <<entry, row, file, clock, ukey, uobj, wpc, prune, astray>>

\* read_info
ReadRow(u) ==
    LET i == uobj[u]
    IN /\ upc[u] \in {"reading", "sizing"} /\ IndexFree /\ Live(i)
       /\ obj' = [obj EXCEPT ![i].info = IF row[ukey[u]] = None THEN Unread ELSE row[ukey[u]]]
       /\ upc' = [upc EXCEPT ![u] = IF upc[u] = "reading" THEN "stamping" ELSE "checking"]
       /\ UNCHANGED <<entry, row, file, clock, ukey, uobj, wpc, prune, astray>>

\* update_access(true) and Buffer::init: the files are erased unless the entry
\* is finished.
Erases(i) == obj[i].info.result = "none"
Stamp(u) ==
    LET i == uobj[u]
        k == ukey[u]
        stamped == [obj[i].info EXCEPT !.access = now]
    IN /\ upc[u] = "stamping" /\ IndexFree /\ Live(i)
       /\ obj' = [obj EXCEPT ![i].info = stamped, ![i].ready = TRUE]
       /\ row' = [row EXCEPT ![k] = stamped]
       /\ file' = (IF Erases(i) THEN [file EXCEPT ![k] = None] ELSE file)
       /\ upc' = [upc EXCEPT ![u] = "checking"]
       /\ UNCHANGED <<entry, clock, ukey, uobj, wpc, prune, astray>>

\* Buffer::clear: an open file is emptied, another one removed.  A thread that
\* has the entry open may have opened its file.
Emptied(k, i) ==
    IF ~obj[i].ready THEN {file[k]}
    ELSE IF \E u \in Users : uobj[u] = i /\ upc[u] = "open"
      THEN {None, [of |-> Version(k), whole |-> FALSE, by |-> i]}
    ELSE {None}

\* outdated(); and a worker is started for a file that is not complete.
\* Mutant: what the source was is not compared.
OutdatedNever(i) == FALSE
Outdated(i) == obj[i].info.of # Version(obj[i].key)
Check(u) ==
    LET i == uobj[u]
        k == ukey[u]
        cleared == ~obj[i].decoding /\ Outdated(i)
        info == IF cleared THEN Cleared(k) ELSE obj[i].info
        start == obj[i].ready /\ ~obj[i].decoding /\ info.result = "none"
    IN /\ upc[u] = "checking" /\ Live(i)
       /\ start => wpc[i] = "none"      \* a worker that ends keeps m_active_mutex so long
       /\ \E f \in (IF cleared THEN Emptied(k, i) ELSE {file[k]}) : file' = [file EXCEPT ![k] = f]
       /\ obj' = [obj EXCEPT ![i].info = info, ![i].decoding = @ \/ start]
       /\ wpc' = (IF start THEN [wpc EXCEPT ![i] = "begin"] ELSE wpc)
       /\ upc' = [upc EXCEPT ![u] = IF start THEN "starting" ELSE "open"]
       /\ UNCHANGED <<entry, row, clock, ukey, uobj, prune, astray>>

\* start_transcoder_thread returns when the worker has begun to write, or failed.
Started(u) ==
    /\ upc[u] = "starting"
    /\ wpc[uobj[u]] \notin {"begin", "waiting", "pruning", "writing"}
    /\ upc' = [upc EXCEPT ![u] = "open"]
    /\ UNCHANGED <<entry, obj, row, file, clock, ukey, uobj, wpc, prune, astray>>

-----------------------------------------------------------------------------
(* Closing: Cache::closeio, delete_entry, Cache_Entry::closeio. *)

\* write_info comes first.  The last reference releases the buffer, and a
\* deletion removes the file and forgets the entry; the row stays, as
\* delete_info is given the name of the source.  Mutant: the
\* entry stays in the map.
LastUser(i) == obj[i].refs <= 1
Unused(i) == [obj EXCEPT ![i].refs = IF @ = 0 THEN 0 ELSE @ - 1]
CloseEntryMapped(i, delete) ==
    LET k == obj[i].key
    IN /\ row' = [row EXCEPT ![k] = obj[i].info]
       /\ file' = (IF LastUser(i) /\ delete THEN [file EXCEPT ![k] = None] ELSE file)
       /\ UNCHANGED entry
CloseEntry(i, delete) ==
    LET k == obj[i].key
    IN /\ row' = [row EXCEPT ![k] = obj[i].info]
       /\ file' = (IF LastUser(i) /\ delete THEN [file EXCEPT ![k] = None] ELSE file)
       /\ entry' = (IF LastUser(i) /\ delete THEN [entry EXCEPT ![k] = None] ELSE entry)

\* ~Cache_Entry waits for m_active_mutex, which a running worker holds.
Destroyable(i) == wpc[i] \in {"none", "begin"}

\* transcoder_delete, or the end of an open that failed: both give the handle
\* up, the latter with CACHE_CLOSE_DELETE.
Close(u, failed) ==
    LET i == uobj[u]
    IN /\ upc[u] = (IF failed THEN "starting" ELSE "open")
       /\ failed => /\ wpc[i] \notin {"begin", "waiting", "pruning", "writing"}
                    /\ Live(i) /\ obj[i].info.result = "none"
       /\ IF obj[i] = Gone
            THEN /\ upc' = [upc EXCEPT ![u] = "lost"]
                 /\ UNCHANGED <<entry, obj, row, file, ukey, uobj>>
            ELSE /\ IndexFree
                 /\ failed /\ LastUser(i) => Destroyable(i)
                 /\ CloseEntry(i, failed)
                 /\ obj' = (IF failed /\ LastUser(i) THEN [obj EXCEPT ![i] = Gone]
                            ELSE [Unused(i) EXCEPT ![i].decoding = @ /\ ~failed])
                 /\ upc' = [upc EXCEPT ![u] = "idle"]
                 /\ ukey' = [ukey EXCEPT ![u] = None] /\ uobj' = [uobj EXCEPT ![u] = None]
       /\ UNCHANGED <<clock, wpc, prune, astray>>

\* update_access while the file is read.
Use(u) ==
    LET i == uobj[u]
    IN /\ upc[u] = "open" /\ Live(i) /\ obj[i].info.access # now
       /\ obj' = [obj EXCEPT ![i].info.access = now]
       /\ UNCHANGED <<entry, row, file, clock, users, wpc, prune, astray>>

-----------------------------------------------------------------------------
(* Workers: transcode and the end of transcoder_thread. *)

\* clear, and a reference of its own.
Begin(i) ==
    LET k == obj[i].key
    IN /\ wpc[i] = "begin" /\ Live(i)
       /\ wpc' = [wpc EXCEPT ![i] = "waiting"]
       /\ obj' = [obj EXCEPT ![i].info = Cleared(k), ![i].refs = @ + 1]
       /\ \E f \in Emptied(k, i) : file' = [file EXCEPT ![k] = f]
       /\ UNCHANGED <<entry, row, clock, users, prune, astray>>

\* The maintenance of the cache succeeded, and the output file is opened.
Write(i) ==
    /\ wpc[i] = "writing"
    /\ wpc' = [wpc EXCEPT ![i] = "finishing"]
    /\ file' = [file EXCEPT ![obj[i].key] =
                   [of |-> obj[i].info.of, whole |-> FALSE, by |-> i]]
    /\ UNCHANGED <<entry, obj, row, clock, users, prune, astray>>

\* transcode_finish: complete, if the file is still the one that was opened.
Finish(i) ==
    LET k == obj[i].key
    IN /\ wpc[i] = "finishing"
       /\ wpc' = [wpc EXCEPT ![i] = "closing"]
       /\ obj' = [obj EXCEPT ![i].info.result = "success", ![i].info.size = Size[k],
                             ![i].decoding = FALSE]
       /\ file' = (IF file[k] # None /\ file[k].by = i
                     THEN [file EXCEPT ![k].whole = TRUE] ELSE file)
       /\ UNCHANGED <<entry, row, clock, users, prune, astray>>

\* An error, or no reader for too long.
Give(i, timeout) ==
    /\ wpc[i] \in {"failing", "finishing"} /\ (timeout => wpc[i] = "finishing")
    /\ wpc' = [wpc EXCEPT ![i] = IF timeout THEN "deleting" ELSE "closing"]
    /\ obj' = [obj EXCEPT ![i].decoding = FALSE]
    /\ UNCHANGED <<entry, row, file, clock, users, prune, astray>>

EndWork(i) ==
    /\ wpc[i] \in {"closing", "deleting"} /\ IndexFree
    /\ wpc' = [wpc EXCEPT ![i] = "none"]
    /\ CloseEntry(i, wpc[i] = "deleting")
    /\ obj' = (IF wpc[i] = "deleting" /\ LastUser(i) THEN [obj EXCEPT ![i] = Gone] ELSE Unused(i))
    /\ UNCHANGED <<clock, users, prune, astray>>

-----------------------------------------------------------------------------
(* Maintenance: prune_expired, prune_cache_size, prune_disk_space. *)

\* Rows in any order or in that of their access, and with their sizes.
Rows == {k \in Keys : row[k] # None}
Orders(K) == {s \in [1..Cardinality(K) -> K] : IsInjective(s)}
ByAccess  == {s \in Orders(Rows) :
                \A m, n \in DOMAIN s : m < n => row[s[m]].access <= row[s[n]].access}
Listed(s) == [n \in DOMAIN s |-> [key |-> s[n], size |-> row[s[n]].size]]
Expired == {k \in Rows : ExpiryTime > 0 /\ row[k].access + ExpiryTime < now}
Total(s) == FoldLeft(LAMBDA sum, item : sum + item.size, 0, s)

\* The timer starts it, or a worker before it writes.
Maintain(by) ==
    /\ prune.stage = "idle"
    /\ prune' = [Idle EXCEPT !.stage = "next", !.plan = <<"expired", "size", "disk">>, !.by = by]
    /\ IF by \in Ids
         THEN wpc[by] = "waiting" /\ wpc' = [wpc EXCEPT ![by] = "pruning"]
         ELSE UNCHANGED wpc
    /\ UNCHANGED <<entry, obj, row, file, clock, users, astray>>

Predicted == IF prune.by \in Ids THEN Size[obj[prune.by].key] ELSE 0
Scan(todo, left, need) ==
    prune' = [prune EXCEPT !.stage = IF todo = <<>> THEN "next" ELSE "scan",
                           !.plan  = IF todo = <<>> THEN Tail(@) ELSE @,
                           !.todo = todo, !.left = left, !.need = need]

\* A pass lists what it may remove.  left counts what is to fall below the
\* limit, or how much space is to be gained.
StartPass ==
    /\ prune.stage = "next" /\ prune.plan # <<>>
    /\ CASE Head(prune.plan) = "expired" ->
              \E s \in Orders(Expired) : Scan(Listed(s), 0, 0)
         [] Head(prune.plan) = "size" ->
              \E s \in ByAccess :
                LET total == Total(Listed(s))
                IN IF MaxCacheSize = 0 \/ total <= MaxCacheSize THEN Scan(<<>>, 0, 0)
                   ELSE Scan(Listed(s), total, MaxCacheSize)
         [] OTHER ->
              \E s \in ByAccess, free \in FreeSpace :
                LET need == MinDiskSpace + Predicted
                IN IF free < Predicted
                     THEN prune' = [prune EXCEPT !.stage = "full", !.plan = <<>>]
                   ELSE IF free >= need THEN Scan(<<>>, 0, 0)
                   ELSE Scan(Listed(s), 0, need - free)
    /\ UNCHANGED <<entry, obj, row, file, clock, users, wpc, astray>>

\* delete_entry for an entry in the map, whoever has it open ...
PruneEntry ==
    LET k == Head(prune.todo).key
        i == entry[k]
    IN /\ prune.stage = "scan"
       /\ prune' = [prune EXCEPT !.stage = "drop",
                       !.victim = IF i # None /\ LastUser(i) THEN i ELSE None]
       /\ IF i = None
            THEN UNCHANGED <<entry, obj, row, file, astray>>
            ELSE /\ CloseEntry(i, TRUE)
                 /\ obj' = Unused(i)
                 /\ astray' = (astray \/ InUse(i))
       /\ UNCHANGED <<clock, users, wpc>>

\* ... its destructor, which waits for the worker; and delete_info and
\* remove_cachefile.  Mutant: a pass ends with the first entry.
Gained ==
    CASE Head(prune.plan) = "size" -> prune.left - Head(prune.todo).size
      [] Head(prune.plan) = "disk" -> prune.left + Head(prune.todo).size
      [] OTHER -> prune.left
EnoughAlways(left) == TRUE
Enough(left) ==
    CASE Head(prune.plan) = "size" -> left <= prune.need
      [] Head(prune.plan) = "disk" -> left >= prune.need
      [] OTHER -> FALSE
PruneRow ==
    LET k    == Head(prune.todo).key
        rest == Tail(prune.todo)
        done == rest = <<>> \/ Enough(Gained)
    IN /\ prune.stage = "drop" /\ (prune.victim # None => Destroyable(prune.victim))
       /\ obj' = (IF prune.victim = None THEN obj ELSE [obj EXCEPT ![prune.victim] = Gone])
       /\ row' = [row EXCEPT ![k] = None] /\ file' = [file EXCEPT ![k] = None]
       /\ prune' = [prune EXCEPT !.stage = IF done THEN "next" ELSE "scan",
                       !.plan = IF done THEN Tail(@) ELSE @,
                       !.todo = IF done THEN <<>> ELSE rest,
                       !.left = Gained, !.victim = None]
       /\ UNCHANGED <<entry, clock, users, wpc, astray>>

\* maintenance returns: a worker that found the disk full gives up.
EndMaintenance ==
    /\ prune.stage = "full" \/ (prune.stage = "next" /\ prune.plan = <<>>)
    /\ prune' = Idle
    /\ wpc' = (IF prune.by \in Ids
                 THEN [wpc EXCEPT ![prune.by] = IF prune.stage = "full" THEN "failing" ELSE "writing"]
                 ELSE wpc)
    /\ UNCHANGED <<entry, obj, row, file, clock, users, astray>>

-----------------------------------------------------------------------------
Tick ==
    /\ now < MaxTime /\ now' = now + 1
    /\ UNCHANGED <<entry, obj, row, file, source, mount, users, wpc, prune, astray>>

\* The source file is replaced by a newer one.
Touch(k) ==
    /\ source[k] < MaxTouches /\ source' = [source EXCEPT ![k] = @ + 1]
    /\ UNCHANGED <<entry, obj, row, file, mount, now, users, wpc, prune, astray>>

\* clear: before any file is opened, so that the map is empty.
ClearIndex ==
    /\ row' = [k \in Keys |-> None]
    /\ file' = [k \in Keys |-> IF row[k] # None \/ file[k] = None THEN None
                             ELSE [file[k] EXCEPT !.by = None]]

\* The process ends, at any point, and the next one mounts the cache, which it
\* may have been told to clear.  Rows and files are what is left.
Remount ==
    /\ mount < Len(Mounts) /\ mount' = mount + 1
    /\ entry' = [k \in Keys |-> None] /\ obj' = [i \in Ids |-> None]
    /\ \/ ClearIndex
       \/ /\ row' = row
          /\ file' = [k \in Keys |-> IF file[k] = None THEN None
                                     ELSE [file[k] EXCEPT !.by = None]]
    /\ upc' = [u \in Users |-> "idle"] /\ ukey' = [u \in Users |-> None]
    /\ uobj' = [u \in Users |-> None] /\ wpc' = [i \in Ids |-> "none"]
    /\ prune' = Idle
    /\ UNCHANGED <<source, now, astray>>

CacheNext ==
    \/ \E u \in Users :
         \/ \E k \in Keys : Find(u, k)
         \/ Create(u) \/ ReadRow(u) \/ Stamp(u) \/ Check(u) \/ Started(u) \/ Use(u)
         \/ \E b \in BOOLEAN : Enter(u, b) \/ Close(u, b)
    \/ \E i \in Ids :
         \/ Begin(i) \/ Write(i) \/ Finish(i) \/ EndWork(i)
         \/ \E timeout \in BOOLEAN : Give(i, timeout)
    \/ \E by \in Ids \cup {None} : Maintain(by)
    \/ StartPass \/ PruneEntry \/ PruneRow \/ EndMaintenance
    \/ Tick \/ Remount \/ \E k \in Keys : Touch(k)

CacheSpec == CacheInit /\ [][CacheNext]_cacheVars

-----------------------------------------------------------------------------
Origins == [settings : Range(Mounts), source : Nat]
Infos   == [result : {"none", "success"}, size : Nat, access : 0..MaxTime,
            of : {None} \cup Origins]
Objects == [key : Keys, refs : Nat, info : Infos, ready : BOOLEAN, decoding : BOOLEAN]
Encoded == [of : {None} \cup Origins, whole : BOOLEAN, by : Ids \cup {None}]

\* What stands for nothing is nothing else.
ASSUME NothingAssumption ==
    /\ None # Gone /\ None \notin Ids /\ None \notin Origins
    /\ None \notin Objects /\ Gone \notin Objects

CacheTypeOK ==
    /\ entry \in [Keys -> Ids \cup {None}]
    /\ obj \in [Ids -> Objects \cup {None, Gone}]
    /\ row \in [Keys -> Infos \cup {None}]
    /\ file \in [Keys -> Encoded \cup {None}]
    /\ source \in [Keys -> Nat] /\ mount \in 1..Len(Mounts) /\ now \in 1..MaxTime
    /\ upc \in [Users -> {"idle", "creating", "found", "reading", "sizing", "stamping",
                          "checking", "starting", "open", "lost"}]
    /\ ukey \in [Users -> Keys \cup {None}] /\ uobj \in [Users -> Ids \cup {None}]
    /\ wpc \in [Ids -> {"none", "begin", "waiting", "pruning", "writing", "failing",
                        "finishing", "closing", "deleting"}]
    /\ prune.stage \in {"idle", "next", "scan", "drop", "full"} /\ astray \in BOOLEAN

\* The map never leads to an entry that was destroyed.
MapIsLive == \A k \in Keys : entry[k] # None => Live(entry[k]) /\ obj[entry[k]].key = k

\* A file served as complete was encoded to its end, and from the source and
\* with the settings its entry tells of, over crashes, remounts and pruning,
\* as long as no entry went astray.
ServedIsWhole ==
    \A u \in Users :
      LET i == uobj[u]
          k == ukey[u]
      IN ~astray /\ upc[u] = "open" /\ Live(i) /\ obj[i].ready
           /\ obj[i].info.result = "success" /\ file[k] # None
         => /\ file[k].whole /\ file[k].of = obj[i].info.of
              /\ file[k].of.settings = Mounts[mount]

\* Whatever is opened and closed while it runs, a pass over the cache size
\* leaves no more in the index than the limit.
Indexed(r) == FoldFunctionOnSet(+, 0, [k \in Keys |-> IF r[k] = None THEN 0 ELSE r[k].size], Keys)
SizeKept ==
    [][prune.stage # "next" /\ prune'.stage = "next" /\ prune.plan # <<>>
         /\ Head(prune.plan) = "size" => Indexed(row') <= MaxCacheSize]_cacheVars

\* An entry somebody has open is not deleted.
InUseNotDeleted == \A u \in Users : upc[u] = "open" => obj[uobj[u]] # Gone
=============================================================================
