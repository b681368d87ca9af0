-------------------------- MODULE CacheIndex_proofs --------------------------
(***************************************************************************)
(* The index of the cache.  First its database: opening it leaves it as it *)
(* was or brings it to the current structure with every row, for any set   *)
(* of files, any database an older or newer program may have left, and any *)
(* number of attempts.  Then the map of entries: it never leads to an      *)
(* entry that was destroyed, nor to one of another file, for any number of *)
(* files, threads and entries and any way a pass over the index orders it. *)
(* At last what is served: it is what the index says of it.                *)
(***************************************************************************)
EXTENDS CacheIndex, IndexUpgrade, WellFoundedInduction, SequenceTheorems, FiniteSetTheorems, TLAPS

-----------------------------------------------------------------------------
(* Opening the database. *)

Upgrading == {"frames", "rename", "copy", "results", "drop", "duration", "segments", "stamp"}
Labels == {"closed", "cache_entry", "version", "commit", "prepare", "open"} \cup Upgrading

\* The rows of a table.
Kept(table) == {f \in Files : table.rows[f] # NoRow}

\* Where the table as the transaction sees it has the rows of the disk.
Whole == {"version", "commit"} \cup (Upgrading \ {"copy"})

\* Which columns the table has at a statement of upgrade_db.
Columns ==
    /\ lpc \in {"rename", "duration"} => "video_frame_count" \in work.cache_entry.columns
    /\ lpc = "segments" => {"video_frame_count", "duration"} \subseteq work.cache_entry.columns
    /\ lpc \in {"copy", "results", "drop", "stamp"} => work.cache_entry.columns = Added

\* What a transaction may commit.
Ready ==
    /\ lpc = "version" => IF new THEN work.cache_entry.columns = Added ELSE work = disk
    /\ lpc = "commit"  => work = disk \/ Current(work)

UpgradeInv ==
    /\ disk \in Databases /\ work \in Databases /\ disk.old = NoTable
    /\ lpc \in Labels
    /\ lpc \in {"closed", "cache_entry"} => work = disk
    /\ lpc \in {"version"} \cup Upgrading => work.cache_entry # NoTable
    /\ lpc \in Upgrading => work.version # NoTable
    /\ lpc \in Whole \ {"results", "drop"} => work.old = NoTable
    /\ lpc \in Whole => RowsOf(work) = RowsOf(disk)
    /\ lpc = "copy" => work.old # NoTable /\ Kept(work.old) = RowsOf(disk)
    /\ Columns
    /\ Ready

-----------------------------------------------------------------------------
LEMMA NoTableIsNone == \A t \in Tables : t # NoTable
  BY UpgradeAssumption

\* A statement that replaces the table of entries.
LEMMA NewTable ==
    ASSUME NEW db \in Databases, NEW t \in Tables
    PROVE  LET d == [db EXCEPT !.cache_entry = t] IN
           /\ d \in Databases /\ d.cache_entry = t /\ d.old = db.old /\ d.version = db.version
           /\ d.cache_entry # NoTable /\ RowsOf(d) = Kept(t)
  BY NoTableIsNone DEF Databases, RowsOf, Kept

LEMMA EmptyIsTable == Empty \in Tables /\ Empty.columns = Added /\ Kept(Empty) = {}
  BY DEF Empty, Tables, Added, Results, NoRow, Kept

\* A statement that adds a column keeps everything else.
LEMMA ColumnAdded ==
    ASSUME work \in Databases, work.cache_entry # NoTable, NEW c \in Added
    PROVE  /\ AddColumn(c) \in Databases
           /\ AddColumn(c).cache_entry # NoTable
           /\ AddColumn(c).cache_entry.columns = work.cache_entry.columns \cup {c}
           /\ AddColumn(c).old = work.old /\ AddColumn(c).version = work.version
           /\ RowsOf(AddColumn(c)) = RowsOf(work)
<1> DEFINE t == [work.cache_entry EXCEPT !.columns = @ \cup {c}]
<1>1. work.cache_entry \in Tables
  BY DEF Databases
<1>2. t \in Tables /\ t.columns = work.cache_entry.columns \cup {c} /\ Kept(t) = RowsOf(work)
  BY <1>1 DEF Tables, Kept, RowsOf
<1>3. AddColumn(c) = [work EXCEPT !.cache_entry = t]
  BY DEF AddColumn, Databases
<1> HIDE DEF t
<1> QED
  BY <1>2, <1>3, NewTable

LEMMA VersionType == DbVersion \in Versions /\ DbVersion # NoTable
  BY UpgradeAssumption DEF DbVersion, Versions

-----------------------------------------------------------------------------
LEMMA InitInv == UpgradeInit => UpgradeInv
  BY KnownAssumption DEF UpgradeInit, UpgradeInv, Labels, Upgrading, Whole, Columns, Ready

\* Each step of a transaction keeps the invariant.
LEMMA StepInv == UpgradeInv /\ [UpgradeNext]_upgradeVars => UpgradeInv'
<1> SUFFICES ASSUME UpgradeInv, [UpgradeNext]_upgradeVars PROVE UpgradeInv'
  OBVIOUS
<1> USE DEF UpgradeInv, Columns, Ready, Whole, Labels, Upgrading, Go
<1>1. CASE BeginTransaction
  BY <1>1 DEF BeginTransaction
<1>2. CASE CreateTable
  <2>1. CASE work.cache_entry = NoTable
    <3>1. work' = [work EXCEPT !.cache_entry = Empty]
      BY <1>2, <2>1 DEF CreateTable
    <3>2. RowsOf(disk) = {}
      BY <1>2, <2>1 DEF CreateTable, RowsOf
    <3>3. /\ work' \in Databases /\ work'.cache_entry = Empty /\ work'.cache_entry # NoTable
          /\ work'.old = work.old /\ RowsOf(work') = {}
      BY <3>1, EmptyIsTable, NewTable
    <3>4. lpc = "cache_entry" /\ lpc' = "version" /\ new' /\ disk' = disk
      BY <1>2, <2>1 DEF CreateTable
    <3> QED
      BY <3>2, <3>3, <3>4, EmptyIsTable
  <2>2. CASE work.cache_entry # NoTable
    BY <1>2, <2>2 DEF CreateTable
  <2> QED BY <2>1, <2>2
<1>3. CASE CreateVersion
  <2>1. CASE work.version = NoTable
    <3>1. work' = [work EXCEPT !.version = DbVersion]
      BY <1>3, <2>1 DEF CreateVersion, Run
    <3>2. /\ work' \in Databases /\ work'.cache_entry = work.cache_entry
          /\ work'.old = work.old /\ work'.version = DbVersion
      BY <3>1, VersionType DEF Databases
    <3>3. RowsOf(work') = RowsOf(work)
      BY <3>2 DEF RowsOf
    <3>4. disk' = disk /\ new' = new /\ lpc = "version" /\ lpc' = IF new THEN "commit" ELSE "frames"
      BY <1>3, <2>1 DEF CreateVersion, Run
    <3> QED BY <3>2, <3>3, <3>4, VersionType DEF Current
  <2>2. CASE work.version # NoTable
    <3>1. /\ work' = work /\ disk' = disk /\ new' = new
          /\ lpc = "version" /\ lpc' \in {"commit", "frames"}
      BY <1>3, <2>2 DEF CreateVersion, Run
    <3> QED BY <2>2, <3>1 DEF Current
  <2> QED BY <2>1, <2>2
<1>4. CASE AddFrameCount
  <2>1. CASE Has("video_frame_count")
    BY <1>4, <2>1 DEF AddFrameCount, Run, Has
  <2>2. CASE ~Has("video_frame_count")
    BY <1>4, <2>2, ColumnAdded DEF AddFrameCount, Run, Added
  <2> QED BY <2>1, <2>2
<1>5. CASE Rename
  <2> DEFINE t == work.cache_entry
  <2>1. work' = [[work EXCEPT !.old = t] EXCEPT !.cache_entry = Empty]
    BY <1>5 DEF Rename, Run, Databases
  <2>2. t \in Tables /\ t # NoTable /\ Kept(t) = RowsOf(work)
    BY <1>5 DEF Rename, Databases, RowsOf, Kept
  <2>3. /\ [work EXCEPT !.old = t] \in Databases
        /\ [work EXCEPT !.old = t].old = t /\ [work EXCEPT !.old = t].version = work.version
    BY <2>2 DEF Databases
  <2> HIDE DEF t
  <2>4. /\ work' \in Databases /\ work'.cache_entry = Empty /\ work'.cache_entry # NoTable
        /\ work'.old = t /\ work'.version = work.version
    BY <2>1, <2>3, EmptyIsTable, NewTable
  <2>5. lpc = "rename" /\ lpc' = "copy" /\ disk' = disk
    BY <1>5 DEF Rename, Run
  <2> QED BY <2>2, <2>4, <2>5, EmptyIsTable
<1>6. CASE Copy
  <2> DEFINE t == [work.cache_entry EXCEPT !.rows = work.old.rows]
  <2>1. work' = [work EXCEPT !.cache_entry = t]
    BY <1>6 DEF Copy, Run, Databases
  <2>2. t \in Tables /\ t.columns = Added /\ Kept(t) = Kept(work.old)
    BY <1>6 DEF Copy, Databases, Tables, Kept
  <2> HIDE DEF t
  <2>3. lpc = "copy" /\ lpc' = "results" /\ disk' = disk
    BY <1>6 DEF Copy, Run
  <2> QED BY <2>1, <2>2, <2>3, NewTable
<1>7. CASE ConvertResults
  <2> DEFINE r == [f \in Files |-> Result(work.cache_entry.rows[f])]
             t == [work.cache_entry EXCEPT !.rows = r]
  <2>1. work' = [work EXCEPT !.cache_entry = t]
    BY <1>7 DEF ConvertResults, Run, Databases
  <2>2. work.cache_entry \in Tables /\ Kept(work.cache_entry) = RowsOf(work)
    BY <1>7 DEF ConvertResults, Databases, RowsOf, Kept
  <2>3. \A f \in Files : /\ r[f] \in Results \cup {NoRow}
                         /\ r[f] = NoRow <=> work.cache_entry.rows[f] = NoRow
    BY <2>2 DEF Tables, Result, Results, NoRow
  <2>4. t \in Tables /\ t.columns = work.cache_entry.columns /\ t.rows = r
    <3>1. r \in [Files -> Results \cup {NoRow}]
      BY <2>3
    <3> HIDE DEF r
    <3> QED BY <2>2, <3>1 DEF Tables
  <2> HIDE DEF r
  <2>5. Kept(t) = Kept(work.cache_entry)
    BY <2>3, <2>4 DEF Kept
  <2> HIDE DEF t
  <2>6. lpc = "results" /\ lpc' = "drop" /\ disk' = disk
    BY <1>7 DEF ConvertResults, Run
  <2> QED BY <2>1, <2>2, <2>4, <2>5, <2>6, NewTable
<1>8. CASE DropOld
  <2>1. /\ work' \in Databases /\ work'.cache_entry = work.cache_entry
        /\ work'.old = NoTable /\ work'.version = work.version
        /\ lpc = "drop" /\ lpc' = "duration" /\ disk' = disk
    BY <1>8 DEF DropOld, Run, Databases
  <2>2. RowsOf(work') = RowsOf(work)
    BY <2>1 DEF RowsOf
  <2> QED BY <2>1, <2>2 DEF Added
<1>9. CASE AddDuration
  <2>1. "duration" \in Added
    BY DEF Added
  <2>2. lpc = "duration" /\ lpc' = "segments" /\ disk' = disk /\ work' = AddColumn("duration")
    BY <1>9 DEF AddDuration, Run
  <2> QED BY <2>1, <2>2, ColumnAdded
<1>10. CASE AddSegmentCount
  <2>1. /\ "segment_count" \in Added
        /\ Added = {"video_frame_count", "duration"} \cup {"segment_count"}
    BY DEF Added
  <2>2. lpc = "segments" /\ lpc' = "stamp" /\ disk' = disk /\ work' = AddColumn("segment_count")
    BY <1>10 DEF AddSegmentCount, Run
  <2>3. work.cache_entry.columns \subseteq Added
    BY <2>2 DEF Databases, Tables
  <2>4. work'.cache_entry.columns = Added
    BY <2>1, <2>2, <2>3, ColumnAdded
  <2> QED BY <2>1, <2>2, <2>4, ColumnAdded
<1>11. CASE UpdateVersion
  <2>1. /\ work' \in Databases /\ work'.cache_entry = work.cache_entry
        /\ work'.old = work.old /\ work'.version = DbVersion
        /\ lpc = "stamp" /\ lpc' = "commit" /\ disk' = disk
    BY <1>11, VersionType DEF UpdateVersion, Run, Databases
  <2>2. RowsOf(work') = RowsOf(work)
    BY <2>1 DEF RowsOf
  <2> QED BY <2>1, <2>2, VersionType DEF Current
<1>12. CASE EndTransaction
  BY <1>12 DEF EndTransaction, Committed
<1>13. CASE PrepareStatements
  BY <1>13 DEF PrepareStatements
<1>14. CASE Fail
  BY <1>14 DEF Fail
<1>15. CASE UNCHANGED upgradeVars
  BY <1>15 DEF upgradeVars, Current, RowsOf
<1> QED
  BY <1>1, <1>2, <1>3, <1>4, <1>5, <1>6, <1>7, <1>8, <1>9, <1>10, <1>11, <1>12, <1>13,
     <1>14, <1>15 DEF UpgradeNext

LEMMA Invariance == UpgradeSpec => []UpgradeInv
  BY InitInv, StepInv, PTL DEF UpgradeSpec

\* The index on disc changes only to one of the current structure that has the
\* same rows, whatever statement fails and wherever the process is killed
\* (load_index and upgrade_db of cache.cc).
THEOREM UpgradeAllOrNothing == UpgradeSpec => AllOrNothing
<1>1. UpgradeInv /\ [UpgradeNext]_upgradeVars
        => [disk' # disk => Current(disk') /\ RowsOf(disk') = RowsOf(disk)]_upgradeVars
  <2> SUFFICES ASSUME UpgradeInv, UpgradeNext, disk' # disk
               PROVE  Current(disk') /\ RowsOf(disk') = RowsOf(disk)
    BY DEF upgradeVars
  <2>1. EndTransaction
    BY DEF UpgradeNext, BeginTransaction, CreateTable, CreateVersion, AddFrameCount, Rename,
           Copy, ConvertResults, DropOld, AddDuration, AddSegmentCount, UpdateVersion,
           PrepareStatements, Fail, Run
  <2> QED
    BY <2>1 DEF EndTransaction, Committed, UpgradeInv, Ready, Whole
<1> QED
  BY <1>1, Invariance, PTL DEF UpgradeSpec, AllOrNothing

-----------------------------------------------------------------------------
(* The map of entries. *)

Items == [key : Keys, size : Nat]

\* The pass of pruning under way; its victim has left the map.
PruneOK ==
    /\ prune \in [stage : {"idle", "next", "scan", "drop", "full"}, plan : {prune.plan},
                  todo : Seq(Items), left : {prune.left}, need : {prune.need},
                  by : Ids \cup {None}, victim : Ids \cup {None}]
    /\ prune.stage \in {"scan", "drop"} => prune.todo # <<>>
    /\ prune.by \in Ids => wpc[prune.by] = "pruning"
    /\ prune.victim # None =>
         obj[prune.victim] # None /\ \A k \in Keys : entry[k] # prune.victim

\* A thread with an entry has one that was created, for the file it opened.
UserOK(u) ==
    /\ upc[u] # "idle" => ukey[u] \in Keys
    /\ upc[u] \notin {"idle", "creating"} =>
         /\ uobj[u] \in Ids /\ obj[uobj[u]] # None
         /\ obj[uobj[u]] # Gone => obj[uobj[u]].key = ukey[u]
UsersOK == \A u \in Users : UserOK(u)

\* A worker that has its reference has an entry.
WorkersOK ==
    \A i \in Ids : /\ wpc[i] \notin {"none", "begin"} => Live(i)
                   /\ obj[i] = None => wpc[i] = "none"

\* Rows and entries tell of encodings of this or an earlier mount, and of the
\* source as it is or was.
Past(of, k) ==
    of # None => of.source <= source[k] /\ \E m \in 1..mount : of.settings = Mounts[m]
PastOK ==
    /\ \A k \in Keys : row[k] # None => Past(row[k].of, k)
    /\ \A i \in Ids : Live(i) => Past(obj[i].info.of, obj[i].key)

MapInv == CacheTypeOK /\ PruneOK /\ UsersOK /\ WorkersOK /\ PastOK /\ MapIsLive

-----------------------------------------------------------------------------
(* One object changes. *)

LEMMA LiveIs ==
    ASSUME CacheTypeOK, NEW i \in Ids, Live(i)
    PROVE  /\ obj[i] \in Objects /\ obj[i].key \in Keys /\ obj[i].refs \in Nat
           /\ obj[i].info \in Infos /\ obj[i].ready \in BOOLEAN /\ obj[i].decoding \in BOOLEAN
BY DEF CacheTypeOK, Live, Objects

LEMMA InfoIs ==
    ASSUME NEW info \in Infos
    PROVE  /\ info.result \in {"none", "success"} /\ info.size \in Nat
           /\ info.access \in 0..MaxTime /\ info.of \in {None} \cup Origins
BY DEF Infos

LEMMA VersionIs ==
    ASSUME CacheTypeOK, NEW k \in Keys
    PROVE  /\ Version(k) \in Origins /\ Version(k) # None
           /\ Version(k).settings = Mounts[mount] /\ Version(k).source = source[k]
           /\ Past(Version(k), k)
           /\ Cleared(k) \in Infos /\ Cleared(k).result = "none" /\ Cleared(k).of = Version(k)
           /\ Unread \in Infos /\ Unread.result = "none" /\ Unread.of = None
<1>1. Mounts[mount] \in Range(Mounts) /\ source[k] \in Nat /\ now \in 0..MaxTime
  BY CacheAssumption DEF CacheTypeOK, Range
<1>2. Version(k) \in Origins /\ Version(k) # None
  BY <1>1, NothingAssumption DEF Version, Origins
<1>3. /\ Version(k).settings = Mounts[mount] /\ Version(k).source = source[k]
      /\ mount \in 1..mount
  BY DEF Version, CacheTypeOK
<1>4. Past(Version(k), k)
  BY <1>1, <1>3 DEF Past
<1>5. 0 \in 0..MaxTime
  BY CacheAssumption
<1> QED
  BY <1>1, <1>2, <1>3, <1>4, <1>5 DEF Cleared, Unread, Infos

\* No step but a remount takes an object away, or gives it to another file.
ObjectsKept ==
    \A j \in Ids : obj[j] # None =>
      obj'[j] # None /\ (Live(j)' => Live(j) /\ obj'[j].key = obj[j].key)

\* One object is changed ...
Changed(i, refs, info, ready, decoding) ==
    /\ obj' \in [Ids -> Objects \cup {None, Gone}] /\ Live(i) /\ obj'[i] \in Objects
    /\ obj'[i].key = obj[i].key /\ obj'[i].refs = refs /\ obj'[i].info = info
    /\ obj'[i].ready = ready /\ obj'[i].decoding = decoding
    /\ \A j \in Ids : j # i => obj'[j] = obj[j]

LEMMA Updated ==
    ASSUME CacheTypeOK, NEW i \in Ids, Live(i), NEW o \in Objects, o.key = obj[i].key,
           obj' = [obj EXCEPT ![i] = o]
    PROVE  Changed(i, o.refs, o.info, o.ready, o.decoding)
BY DEF CacheTypeOK, Changed

LEMMA ChangedKeeps ==
    ASSUME NEW i \in Ids, NEW refs, NEW info, NEW ready, NEW decoding,
           Changed(i, refs, info, ready, decoding)
    PROVE  /\ ObjectsKept
           /\ \A j \in Ids : (Live(j)' <=> Live(j)) /\ (obj'[j] = None <=> obj[j] = None)
           /\ \A j \in Ids : Live(j) => obj'[j].key = obj[j].key
<1>1. obj'[i] # None /\ obj'[i] # Gone /\ obj[i] # None /\ obj[i] # Gone
  BY NothingAssumption DEF Changed, Live
<1>2. \A j \in Ids : j = i \/ obj'[j] = obj[j]
  BY DEF Changed
<1>3. \A j \in Ids : Live(j)' <=> obj'[j] \notin {None, Gone}
  BY DEF Live
<1>4. \A j \in Ids : (Live(j)' <=> Live(j)) /\ (obj'[j] = None <=> obj[j] = None)
  BY <1>1, <1>2, <1>3 DEF Live
<1>5. \A j \in Ids : Live(j) => obj'[j].key = obj[j].key
  BY <1>2 DEF Changed
<1> QED
  BY <1>4, <1>5 DEF ObjectsKept, Live

\* ... or destroyed.
LEMMA Destroyed ==
    ASSUME CacheTypeOK, NEW i \in Ids, obj[i] # None, obj' = [obj EXCEPT ![i] = Gone]
    PROVE  /\ obj' \in [Ids -> Objects \cup {None, Gone}]
           /\ obj'[i] = Gone /\ ~Live(i)'
           /\ \A j \in Ids : j # i => obj'[j] = obj[j] /\ (Live(j)' <=> Live(j))
           /\ \A j \in Ids : obj'[j] = None <=> obj[j] = None
           /\ ObjectsKept
<1>1. /\ obj' \in [Ids -> Objects \cup {None, Gone}]
      /\ \A j \in Ids : obj'[j] = IF j = i THEN Gone ELSE obj[j]
  BY DEF CacheTypeOK
<1>2. \A j \in Ids : Live(j)' <=> obj'[j] \notin {None, Gone}
  BY DEF Live
<1>3. \A j \in Ids : obj'[j] = None <=> obj[j] = None
  BY <1>1, NothingAssumption
<1>4. \A j \in Ids : j # i => obj'[j] = obj[j] /\ (Live(j)' <=> Live(j))
  BY <1>1, <1>2 DEF Live
<1>5. obj'[i] = Gone /\ ~Live(i)'
  BY <1>1, <1>2
<1> QED
  BY <1>1, <1>3, <1>4, <1>5 DEF ObjectsKept

LEMMA SameObjects ==
    ASSUME UNCHANGED obj
    PROVE  ObjectsKept /\ \A i \in Ids : Live(i)' <=> Live(i)
BY DEF ObjectsKept, Live

-----------------------------------------------------------------------------
(* What a step leaves alone. *)

LEMMA PruneFrame ==
    ASSUME MapInv, ObjectsKept, UNCHANGED prune,
           \A k \in Keys : \/ entry'[k] = entry[k] \/ entry'[k] = None
                           \/ obj[entry'[k]] = None,
           \A i \in Ids : wpc[i] = "pruning" => wpc'[i] = "pruning"
    PROVE  PruneOK'
BY DEF MapInv, PruneOK, ObjectsKept

LEMMA UsersFrame ==
    ASSUME MapInv, ObjectsKept,
           \A v \in Users : \/ upc'[v] = upc[v] /\ ukey'[v] = ukey[v] /\ uobj'[v] = uobj[v]
                            \/ UserOK(v)'
    PROVE  UsersOK'
<1> SUFFICES ASSUME NEW v \in Users,
                    upc'[v] = upc[v] /\ ukey'[v] = ukey[v] /\ uobj'[v] = uobj[v]
             PROVE  UserOK(v)'
  BY DEF UsersOK
<1>1. UserOK(v)
  BY DEF MapInv, UsersOK
<1>2. uobj[v] \in Ids /\ obj[uobj[v]] # None =>
        obj'[uobj[v]] # None
        /\ (obj'[uobj[v]] # Gone => obj[uobj[v]] # Gone /\ obj'[uobj[v]].key = obj[uobj[v]].key)
  BY DEF ObjectsKept, Live
<1> QED
  BY <1>1, <1>2 DEF UserOK

LEMMA PastFrame ==
    ASSUME MapInv, UNCHANGED <<source, mount>>,
           \A k \in Keys : \/ row'[k] = row[k] \/ row'[k] = None
                           \/ Past(row'[k].of, k),
           \A i \in Ids : Live(i)' => \/ Live(i) /\ obj'[i] = obj[i]
                                      \/ Past(obj'[i].info.of, obj'[i].key)
    PROVE  PastOK'
BY DEF MapInv, PastOK, Past

LEMMA MapFrame ==
    ASSUME MapInv, ObjectsKept,
           \A k \in Keys : entry'[k] = None \/ (entry'[k] = entry[k] /\ obj'[entry[k]] # Gone)
    PROVE  MapIsLive'
<1> SUFFICES ASSUME NEW k \in Keys, entry'[k] # None
             PROVE  obj'[entry'[k]] \notin {None, Gone} /\ obj'[entry'[k]].key = k
  BY DEF MapIsLive, Live
<1>1. entry'[k] = entry[k] /\ obj'[entry[k]] # Gone /\ entry[k] \in Ids
  BY DEF MapInv, CacheTypeOK
<1>2. obj[entry[k]] \notin {None, Gone} /\ obj[entry[k]].key = k
  BY <1>1 DEF MapInv, MapIsLive, Live
<1> QED
  BY <1>1, <1>2 DEF ObjectsKept, Live

-----------------------------------------------------------------------------
(* What each step does to the object it works on. *)

LEMMA EnterEffect ==
    ASSUME CacheTypeOK, NEW u \in Users, NEW create \in BOOLEAN, Enter(u, create),
           NEW i \in Ids, i = uobj[u], Live(i)
    PROVE  Changed(i, obj[i].refs + 1, obj[i].info, obj[i].ready, obj[i].decoding)
<1> DEFINE o == [obj[i] EXCEPT !.refs = obj[i].refs + 1]
<1>1. obj' = [obj EXCEPT ![i] = o]
  BY DEF Enter, Live
<1>2. /\ o \in Objects /\ o.key = obj[i].key /\ o.refs = obj[i].refs + 1
      /\ o.info = obj[i].info /\ o.ready = obj[i].ready /\ o.decoding = obj[i].decoding
  BY LiveIs DEF Objects
<1> HIDE DEF o
<1>3. Changed(i, o.refs, o.info, o.ready, o.decoding)
  BY <1>1, <1>2, Updated
<1> QED
  BY <1>2, <1>3

LEMMA ReadRowEffect ==
    ASSUME CacheTypeOK, NEW u \in Users, ReadRow(u), NEW i \in Ids, i = uobj[u], Live(i),
           NEW info \in Infos, info = IF row[ukey[u]] = None THEN Unread ELSE row[ukey[u]]
    PROVE  Changed(i, obj[i].refs, info, obj[i].ready, obj[i].decoding)
<1> DEFINE o == [obj[i] EXCEPT !.info = info]
<1>1. obj' = [obj EXCEPT ![i] = o]
  BY DEF ReadRow
<1>2. /\ o \in Objects /\ o.key = obj[i].key /\ o.refs = obj[i].refs
      /\ o.info = info /\ o.ready = obj[i].ready /\ o.decoding = obj[i].decoding
  BY LiveIs DEF Objects
<1> HIDE DEF o
<1>3. Changed(i, o.refs, o.info, o.ready, o.decoding)
  BY <1>1, <1>2, Updated
<1> QED
  BY <1>2, <1>3

\* What is known of an encoding, read now.
Stamped(i) == [obj[i].info EXCEPT !.access = now]

LEMMA StampedIs ==
    ASSUME CacheTypeOK, NEW i \in Ids, Live(i)
    PROVE  /\ Stamped(i) \in Infos /\ Stamped(i).result = obj[i].info.result
           /\ Stamped(i).of = obj[i].info.of
<1>1. obj[i].info \in Infos /\ now \in 0..MaxTime
  BY LiveIs DEF CacheTypeOK
<1> QED
  BY <1>1 DEF Infos, Stamped

LEMMA StampEffect ==
    ASSUME CacheTypeOK, NEW u \in Users, Stamp(u), NEW i \in Ids, i = uobj[u], Live(i)
    PROVE  Changed(i, obj[i].refs, Stamped(i), TRUE, obj[i].decoding)
<1> DEFINE o == [obj[i] EXCEPT !.info = Stamped(i), !.ready = TRUE]
<1>1. obj' = [obj EXCEPT ![i] = o]
  BY DEF Stamp, Stamped
<1>0. Stamped(i) \in Infos
  BY StampedIs
<1>2. /\ o \in Objects /\ o.key = obj[i].key /\ o.refs = obj[i].refs
      /\ o.info = Stamped(i) /\ o.ready = TRUE /\ o.decoding = obj[i].decoding
  BY <1>0, LiveIs DEF Objects
<1> HIDE DEF o
<1>3. Changed(i, o.refs, o.info, o.ready, o.decoding)
  BY <1>1, <1>2, Updated
<1> QED
  BY <1>2, <1>3

LEMMA CheckEffect ==
    ASSUME CacheTypeOK, NEW u \in Users, Check(u), NEW i \in Ids, i = uobj[u], Live(i),
           NEW cleared, cleared = (~obj[i].decoding /\ Outdated(i)),
           NEW info \in Infos, info = IF cleared THEN Cleared(ukey[u]) ELSE obj[i].info,
           NEW start \in BOOLEAN,
           start = (obj[i].ready /\ ~obj[i].decoding /\ info.result = "none")
    PROVE  Changed(i, obj[i].refs, info, obj[i].ready, obj[i].decoding \/ start)
<1> DEFINE d == obj[i].decoding \/ start
           o == [obj[i] EXCEPT !.info = info, !.decoding = d]
<1>0. d \in BOOLEAN
  OBVIOUS
<1>1. obj' = [obj EXCEPT ![i] = o]
  BY DEF Check
<1> HIDE DEF d
<1>2. /\ o \in Objects /\ o.key = obj[i].key /\ o.refs = obj[i].refs
      /\ o.info = info /\ o.ready = obj[i].ready /\ o.decoding = d
  BY <1>0, LiveIs DEF Objects
<1> HIDE DEF o
<1>3. Changed(i, o.refs, o.info, o.ready, o.decoding)
  BY <1>1, <1>2, Updated
<1>4. Changed(i, obj[i].refs, info, obj[i].ready, d)
  BY <1>2, <1>3
<1> QED
  BY <1>4 DEF d

\* A reference is given back; the last one may take the entry with it.
Less(i) == IF obj[i].refs = 0 THEN 0 ELSE obj[i].refs - 1

LEMMA LessIs ==
    ASSUME CacheTypeOK, NEW i \in Ids, Live(i)
    PROVE  /\ Less(i) \in Nat /\ (obj[i].refs > 0 => Less(i) = obj[i].refs - 1)
           /\ Unused(i) = [obj EXCEPT ![i] = [obj[i] EXCEPT !.refs = Less(i)]]
           /\ (obj' = Unused(i) =>
                 Changed(i, Less(i), obj[i].info, obj[i].ready, obj[i].decoding))
<1> DEFINE o == [obj[i] EXCEPT !.refs = Less(i)]
<1>1. Less(i) \in Nat /\ (obj[i].refs > 0 => Less(i) = obj[i].refs - 1)
  <2>1. obj[i].refs \in Nat
    BY LiveIs
  <2> QED
    BY <2>1 DEF Less
<1>2. Unused(i) = [obj EXCEPT ![i] = o]
  BY DEF Unused, Less
<1>3. /\ o \in Objects /\ o.key = obj[i].key /\ o.refs = Less(i)
      /\ o.info = obj[i].info /\ o.ready = obj[i].ready /\ o.decoding = obj[i].decoding
  BY <1>1, LiveIs DEF Objects
<1>4. ASSUME obj' = [obj EXCEPT ![i] = o]
      PROVE  Changed(i, o.refs, o.info, o.ready, o.decoding)
  <2> HIDE DEF o
  <2> QED
    BY <1>3, <1>4, Updated
<1> QED
  BY <1>1, <1>2, <1>3, <1>4

LEMMA CloseEffect ==
    ASSUME CacheTypeOK, NEW u \in Users, NEW failed \in BOOLEAN, Close(u, failed),
           NEW i \in Ids, i = uobj[u], Live(i),
           NEW decoding \in BOOLEAN, decoding = (obj[i].decoding /\ ~failed)
    PROVE  /\ CloseEntry(i, failed)
           /\ IF failed /\ LastUser(i) THEN obj' = [obj EXCEPT ![i] = Gone] /\ Destroyable(i)
              ELSE Changed(i, Less(i), obj[i].info, obj[i].ready, decoding)
<1>1. CASE failed /\ LastUser(i)
  BY <1>1 DEF Close, Live
<1>2. CASE ~(failed /\ LastUser(i))
  <2> DEFINE less == [obj[i] EXCEPT !.refs = Less(i)]
             o    == [less EXCEPT !.decoding = decoding]
  <2>1. /\ CloseEntry(i, failed)
        /\ obj' = [Unused(i) EXCEPT ![i].decoding = Unused(i)[i].decoding /\ ~failed]
    BY <1>2 DEF Close, Live
  <2>2. Unused(i) = [obj EXCEPT ![i] = less] /\ Less(i) \in Nat
    BY LessIs
  <2>3. less \in Objects /\ less.decoding = obj[i].decoding /\ less.key = obj[i].key
        /\ less.refs = Less(i) /\ less.info = obj[i].info /\ less.ready = obj[i].ready
    BY <2>2, LiveIs DEF Objects
  <2>4. Unused(i)[i] = less
    BY <2>2 DEF CacheTypeOK
  <2> HIDE DEF less
  <2>5. obj' = [Unused(i) EXCEPT ![i] = o]
    BY <2>1, <2>3, <2>4
  <2>6. /\ o \in Objects /\ o.key = obj[i].key /\ o.refs = Less(i)
        /\ o.info = obj[i].info /\ o.ready = obj[i].ready /\ o.decoding = decoding
    BY <2>3 DEF Objects
  <2> HIDE DEF o
  <2>7. obj' = [obj EXCEPT ![i] = o]
    BY <2>2, <2>5 DEF CacheTypeOK
  <2>8. Changed(i, o.refs, o.info, o.ready, o.decoding)
    BY <2>6, <2>7, Updated
  <2> QED
    BY <1>2, <2>1, <2>6, <2>8
<1> QED
  BY <1>1, <1>2

LEMMA UseEffect ==
    ASSUME CacheTypeOK, NEW u \in Users, Use(u), NEW i \in Ids, i = uobj[u], Live(i)
    PROVE  Changed(i, obj[i].refs, Stamped(i), obj[i].ready, obj[i].decoding)
<1> DEFINE o == [obj[i] EXCEPT !.info = Stamped(i)]
<1>1. obj' = [obj EXCEPT ![i] = o]
  BY DEF Use, Stamped
<1>0. Stamped(i) \in Infos
  BY StampedIs
<1>2. /\ o \in Objects /\ o.key = obj[i].key /\ o.refs = obj[i].refs
      /\ o.info = Stamped(i) /\ o.ready = obj[i].ready /\ o.decoding = obj[i].decoding
  BY <1>0, LiveIs DEF Objects
<1> HIDE DEF o
<1>3. Changed(i, o.refs, o.info, o.ready, o.decoding)
  BY <1>1, <1>2, Updated
<1> QED
  BY <1>2, <1>3

LEMMA BeginEffect ==
    ASSUME CacheTypeOK, NEW i \in Ids, Begin(i)
    PROVE  Changed(i, obj[i].refs + 1, Cleared(obj[i].key), obj[i].ready, obj[i].decoding)
<1> DEFINE info == Cleared(obj[i].key)
           n    == obj[i].refs + 1
           o    == [obj[i] EXCEPT !.info = info, !.refs = n]
<1>1. Live(i) /\ obj' = [obj EXCEPT ![i] = o]
  BY DEF Begin
<1>0. info \in Infos /\ n \in Nat
  BY <1>1, LiveIs, VersionIs
<1> HIDE DEF info, n
<1>2. /\ o \in Objects /\ o.key = obj[i].key /\ o.refs = n
      /\ o.info = info /\ o.ready = obj[i].ready /\ o.decoding = obj[i].decoding
  BY <1>0, <1>1, LiveIs DEF Objects
<1> HIDE DEF o
<1>3. Changed(i, o.refs, o.info, o.ready, o.decoding)
  BY <1>1, <1>2, Updated
<1>4. Changed(i, n, info, obj[i].ready, obj[i].decoding)
  BY <1>2, <1>3
<1> QED
  BY <1>4 DEF info, n

\* What is known of an encoding that is complete.
Finished(i) == [obj[i].info EXCEPT !.result = "success", !.size = Size[obj[i].key]]

LEMMA FinishEffect ==
    ASSUME CacheTypeOK, NEW i \in Ids, Live(i), Finish(i)
    PROVE  /\ Finished(i) \in Infos /\ Finished(i).result = "success"
           /\ Finished(i).of = obj[i].info.of
           /\ Changed(i, obj[i].refs, Finished(i), obj[i].ready, FALSE)
<1> DEFINE o == [obj[i] EXCEPT !.info = Finished(i), !.decoding = FALSE]
<1>1. obj' = [obj EXCEPT ![i] = o]
  BY DEF Finish, Finished
<1>0. obj[i].info \in Infos /\ Size[obj[i].key] \in Nat
  BY LiveIs, CacheAssumption
<1>4. /\ Finished(i) \in Infos /\ Finished(i).result = "success"
      /\ Finished(i).of = obj[i].info.of
  BY <1>0 DEF Infos, Finished
<1>2. /\ o \in Objects /\ o.key = obj[i].key /\ o.refs = obj[i].refs
      /\ o.info = Finished(i) /\ o.ready = obj[i].ready /\ o.decoding = FALSE
  BY <1>4, LiveIs DEF Objects
<1> HIDE DEF o
<1>3. Changed(i, o.refs, o.info, o.ready, o.decoding)
  BY <1>1, <1>2, Updated
<1> QED
  BY <1>2, <1>3, <1>4

LEMMA GiveEffect ==
    ASSUME CacheTypeOK, NEW i \in Ids, Live(i), NEW timeout \in BOOLEAN, Give(i, timeout)
    PROVE  Changed(i, obj[i].refs, obj[i].info, obj[i].ready, FALSE)
<1> DEFINE o == [obj[i] EXCEPT !.decoding = FALSE]
<1>1. obj' = [obj EXCEPT ![i] = o]
  BY DEF Give
<1>2. /\ o \in Objects /\ o.key = obj[i].key /\ o.refs = obj[i].refs
      /\ o.info = obj[i].info /\ o.ready = obj[i].ready /\ o.decoding = FALSE
  BY LiveIs DEF Objects
<1> HIDE DEF o
<1>3. Changed(i, o.refs, o.info, o.ready, o.decoding)
  BY <1>1, <1>2, Updated
<1> QED
  BY <1>2, <1>3

-----------------------------------------------------------------------------
(* The steps of threads. *)

LEMMA FindMap == ASSUME MapInv, NEW u \in Users, NEW k \in Keys, Find(u, k) PROVE MapInv'
<1>0. /\ CacheTypeOK /\ MapIsLive
      /\ UNCHANGED <<entry, obj, row, file, source, mount, now, wpc, prune, astray>>
  BY DEF MapInv, Find, clock
<1>1. /\ upc' = [upc EXCEPT ![u] = IF entry[k] = None THEN "creating" ELSE "found"]
      /\ ukey' = [ukey EXCEPT ![u] = k] /\ uobj' = [uobj EXCEPT ![u] = entry[k]]
  BY DEF Find
<1>2. CacheTypeOK'
  BY <1>0, <1>1 DEF CacheTypeOK
<1>3. ObjectsKept /\ \A i \in Ids : Live(i)' <=> Live(i)
  BY <1>0, SameObjects
<1>4. UsersOK'
  <2>1. entry[k] # None => entry[k] \in Ids /\ obj[entry[k]] # None /\ obj[entry[k]].key = k
    BY <1>0 DEF CacheTypeOK, MapIsLive, Live
  <2>2. UserOK(u)'
    BY <1>0, <1>1, <2>1 DEF CacheTypeOK, UserOK
  <2>3. \A v \in Users : v # u =>
             upc'[v] = upc[v] /\ ukey'[v] = ukey[v] /\ uobj'[v] = uobj[v]
    BY <1>0, <1>1 DEF CacheTypeOK
  <2> QED
    BY <1>3, <2>2, <2>3, UsersFrame
<1>5. PruneOK' /\ WorkersOK' /\ PastOK' /\ MapIsLive'
  <2>1. PruneOK'
    BY <1>0, <1>3, PruneFrame
  <2>2. WorkersOK'
    BY <1>0, <1>3 DEF MapInv, WorkersOK
  <2>3. PastOK'
    BY <1>0, <1>3, PastFrame
  <2>4. MapIsLive'
    <3>1. \A j \in Keys : entry'[j] = None \/ (entry'[j] = entry[j] /\ obj'[entry[j]] # Gone)
      BY <1>0 DEF MapIsLive, Live
    <3> QED
      BY <1>3, <3>1, MapFrame
  <2> QED
    BY <2>1, <2>2, <2>3, <2>4
<1> QED
  BY <1>2, <1>4, <1>5 DEF MapInv

\* All of it together but the maintenance, for a step within one mount.
LEMMA RestFrame ==
    ASSUME MapInv, ObjectsKept, UNCHANGED <<source, mount>>,
           \A v \in Users : \/ upc'[v] = upc[v] /\ ukey'[v] = ukey[v] /\ uobj'[v] = uobj[v]
                            \/ UserOK(v)',
           \A k \in Keys : entry'[k] = None \/ (entry'[k] = entry[k] /\ obj'[entry[k]] # Gone),
           \A i \in Ids : wpc'[i] = wpc[i] \/ Live(i),
           \A i \in Ids : Live(i) /\ ~Live(i)' => wpc'[i] \in {"none", "begin"},
           \A k \in Keys : \/ row'[k] = row[k] \/ row'[k] = None
                           \/ Past(row'[k].of, k),
           \A i \in Ids : Live(i)' => \/ Live(i) /\ obj'[i] = obj[i]
                                      \/ Past(obj'[i].info.of, obj'[i].key)
    PROVE  UsersOK' /\ WorkersOK' /\ PastOK' /\ MapIsLive'
<1>2. UsersOK'
  BY UsersFrame
<1>3. WorkersOK'
  <2> SUFFICES ASSUME NEW i \in Ids
               PROVE  /\ wpc'[i] \notin {"none", "begin"} => Live(i)'
                      /\ obj'[i] = None => wpc'[i] = "none"
    BY DEF WorkersOK
  <2>1. /\ wpc[i] \notin {"none", "begin"} => Live(i)
        /\ obj[i] = None => wpc[i] = "none"
    BY DEF MapInv, WorkersOK
  <2>2. obj'[i] = None => obj[i] = None /\ ~Live(i)
    BY DEF ObjectsKept, Live
  <2> QED
    BY <2>1, <2>2
<1>4. PastOK'
  BY PastFrame
<1>5. MapIsLive'
  BY MapFrame
<1> QED
  BY <1>2, <1>3, <1>4, <1>5

\* And for a step that starts, ends or advances no maintenance.
LEMMA StepFrame ==
    ASSUME MapInv, CacheTypeOK', ObjectsKept, UNCHANGED <<source, mount, prune>>,
           \A v \in Users : \/ upc'[v] = upc[v] /\ ukey'[v] = ukey[v] /\ uobj'[v] = uobj[v]
                            \/ UserOK(v)',
           \A k \in Keys : entry'[k] = None \/ (entry'[k] = entry[k] /\ obj'[entry[k]] # Gone),
           \A i \in Ids : wpc'[i] = wpc[i] \/ (wpc[i] # "pruning" /\ Live(i)),
           \A i \in Ids : Live(i) /\ ~Live(i)' => wpc'[i] \in {"none", "begin"},
           \A k \in Keys : \/ row'[k] = row[k] \/ row'[k] = None
                           \/ Past(row'[k].of, k),
           \A i \in Ids : Live(i)' => \/ Live(i) /\ obj'[i] = obj[i]
                                      \/ Past(obj'[i].info.of, obj'[i].key)
    PROVE  MapInv'
<1>1. PruneOK'
  <2>1. \A i \in Ids : wpc[i] = "pruning" => wpc'[i] = "pruning"
    OBVIOUS
  <2> QED
    BY <2>1, PruneFrame
<1>2. UsersOK' /\ WorkersOK' /\ PastOK' /\ MapIsLive'
  <2>1. \A i \in Ids : wpc'[i] = wpc[i] \/ Live(i)
    OBVIOUS
  <2> QED
    BY <2>1, RestFrame
<1> QED
  BY <1>1, <1>2 DEF MapInv

\* And for a step of one thread on its entry, which stays in the map.
LEMMA ThreadFrame ==
    ASSUME MapInv, CacheTypeOK', UNCHANGED <<source, mount, prune, entry, ukey, uobj>>,
           NEW u \in Users, upc[u] \notin {"idle", "creating"},
           upc'[u] \notin {"idle", "creating"}, \A v \in Users : v # u => upc'[v] = upc[v],
           NEW i \in Ids, i = uobj[u], NEW refs, NEW info, NEW ready, NEW decoding,
           Changed(i, refs, info, ready, decoding), Past(info.of, ukey[u]),
           \A j \in Ids : wpc'[j] = wpc[j] \/ (wpc[j] = "none" /\ Live(j)),
           \A k \in Keys : row'[k] = row[k] \/ Past(row'[k].of, k)
    PROVE  MapInv'
<1>1. /\ ObjectsKept
      /\ \A j \in Ids : (Live(j)' <=> Live(j)) /\ (obj'[j] = None <=> obj[j] = None)
      /\ Live(i) /\ obj'[i].key = obj[i].key /\ obj'[i].info = info
      /\ \A j \in Ids : j # i => obj'[j] = obj[j]
  BY ChangedKeeps DEF Changed
<1>2. UserOK(u) /\ obj[i].key = ukey[u]
  BY <1>1 DEF MapInv, UsersOK, UserOK, Live
<1>3. UserOK(u)'
  BY <1>1, <1>2 DEF UserOK, Live
<1>4. \A k \in Keys : entry'[k] = None \/ (entry'[k] = entry[k] /\ obj'[entry[k]] # Gone)
  <2>1. \A k \in Keys : entry[k] = None \/ (entry[k] \in Ids /\ Live(entry[k]))
    BY DEF MapInv, MapIsLive, CacheTypeOK
  <2>2. \A j \in Ids : Live(j) => obj'[j] # Gone
    BY <1>1 DEF Live
  <2> QED
    BY <2>1, <2>2
<1>5. \A j \in Ids : wpc'[j] = wpc[j] \/ (wpc[j] # "pruning" /\ Live(j))
  OBVIOUS
<1>6. \A j \in Ids : Live(j)' => \/ Live(j) /\ obj'[j] = obj[j]
                                 \/ Past(obj'[j].info.of, obj'[j].key)
  BY <1>1, <1>2
<1>7. \A j \in Ids : Live(j) /\ ~Live(j)' => wpc'[j] \in {"none", "begin"}
  BY <1>1
<1> QED
  BY <1>1, <1>3, <1>4, <1>5, <1>6, <1>7, StepFrame

\* The row and the file of one key change.
LEMMA RowOf ==
    ASSUME CacheTypeOK, NEW k \in Keys, NEW info \in Infos, row' = [row EXCEPT ![k] = info]
    PROVE  row' \in [Keys -> Infos \cup {None}] /\ row'[k] = info
           /\ \A j \in Keys : j # k => row'[j] = row[j]
BY DEF CacheTypeOK

LEMMA FileOf ==
    ASSUME CacheTypeOK, NEW k \in Keys, NEW f \in Encoded \cup {None},
           file' = [file EXCEPT ![k] = f]
    PROVE  file' \in [Keys -> Encoded \cup {None}] /\ file'[k] = f
           /\ \A j \in Keys : j # k => file'[j] = file[j]
BY DEF CacheTypeOK

LEMMA EmptiedIs ==
    ASSUME CacheTypeOK, NEW k \in Keys, NEW i \in Ids, NEW f \in Emptied(k, i)
    PROVE  f \in Encoded \cup {None}
           /\ (~obj[i].ready => f = file[k])
           /\ (obj[i].ready => f = None \/ (~f.whole /\ f.by = i))
<1> DEFINE v == Version(k)
           r == [of |-> v, whole |-> FALSE, by |-> i]
<1>1. file[k] \in Encoded \cup {None} /\ v \in Origins
  BY VersionIs DEF CacheTypeOK
<1>2. f \in (IF ~obj[i].ready THEN {file[k]}
             ELSE IF \E u \in Users : uobj[u] = i /\ upc[u] = "open" THEN {None, r} ELSE {None})
  BY DEF Emptied
<1> HIDE DEF v
<1>3. r \in Encoded /\ ~r.whole /\ r.by = i
  BY <1>1 DEF Encoded
<1> HIDE DEF r
<1> QED
  BY <1>1, <1>2, <1>3

\* The entry a thread works on, and the row that belongs to it.
LEMMA UserHas ==
    ASSUME MapInv, NEW u \in Users, upc[u] \notin {"idle", "creating"}
    PROVE  /\ uobj[u] \in Ids /\ ukey[u] \in Keys /\ obj[uobj[u]] # None
           /\ obj[uobj[u]] # Gone => Live(uobj[u]) /\ obj[uobj[u]].key = ukey[u]
           /\ Live(uobj[u]) => obj[uobj[u]].key = ukey[u]
BY DEF MapInv, UsersOK, UserOK, Live

LEMMA CreateMap == ASSUME MapInv, NEW u \in Users, Create(u) PROVE MapInv'
<1> DEFINE k == ukey[u]
           i == CHOOSE j \in Ids : obj[j] = None
<1>0. CacheTypeOK /\ UNCHANGED <<row, file, source, mount, now, ukey, wpc, prune>>
  BY DEF MapInv, Create, clock
<1>1. /\ upc[u] = "creating" /\ obj' = [obj EXCEPT ![i] = Fresh(k)]
      /\ entry' = IF entry[k] = None THEN [entry EXCEPT ![k] = i] ELSE entry
      /\ upc' = [upc EXCEPT ![u] = "found"] /\ uobj' = [uobj EXCEPT ![u] = i]
      /\ astray' = (astray \/ \E j \in Ids : Live(j) /\ obj[j].key = k)
  BY DEF Create
<1>2. i \in Ids /\ obj[i] = None
  BY DEF Create
<1> HIDE DEF i
<1>3. k \in Keys
  BY <1>1 DEF MapInv, UsersOK, UserOK
<1>4. /\ Fresh(k) \in Objects /\ Fresh(k).key = k /\ Fresh(k).info = Cleared(k)
      /\ Past(Cleared(k).of, k)
  BY <1>0, <1>3, VersionIs DEF Fresh, Objects
<1>5. /\ obj' \in [Ids -> Objects \cup {None, Gone}]
      /\ \A j \in Ids : obj'[j] = IF j = i THEN Fresh(k) ELSE obj[j]
      /\ Fresh(k) # None /\ Fresh(k) # Gone
  BY <1>0, <1>1, <1>2, <1>4, NothingAssumption DEF CacheTypeOK
<1> HIDE DEF k
<1>6. CacheTypeOK'
  <2>1. entry' \in [Keys -> Ids \cup {None}] /\ uobj' \in [Users -> Ids \cup {None}]
    BY <1>0, <1>1, <1>2, <1>3 DEF CacheTypeOK
  <2>2. astray' \in BOOLEAN
    BY <1>0, <1>1 DEF CacheTypeOK
  <2> QED
    BY <1>0, <1>1, <1>5, <2>1, <2>2 DEF CacheTypeOK
<1>7. ObjectsKept
  BY <1>2, <1>5 DEF ObjectsKept, Live
<1>8. UsersOK'
  <2>1. UserOK(u)'
    BY <1>0, <1>1, <1>2, <1>3, <1>4, <1>5 DEF UserOK, CacheTypeOK, k
  <2>2. \A v \in Users : v # u =>
          upc'[v] = upc[v] /\ ukey'[v] = ukey[v] /\ uobj'[v] = uobj[v]
    BY <1>0, <1>1 DEF CacheTypeOK
  <2> QED
    BY <1>7, <2>1, <2>2, UsersFrame
<1>9. PruneOK'
  <2>1. \A j \in Keys : entry'[j] = entry[j] \/ obj[entry'[j]] = None
    BY <1>0, <1>1, <1>2 DEF CacheTypeOK
  <2> QED
    BY <1>0, <1>7, <2>1, PruneFrame
<1>10. WorkersOK'
  BY <1>0, <1>2, <1>5 DEF MapInv, WorkersOK, Live
<1>11. PastOK'
  BY <1>0, <1>2, <1>4, <1>5, PastFrame DEF Live
<1>12. MapIsLive'
  <2> SUFFICES ASSUME NEW j \in Keys, entry'[j] # None
               PROVE  obj'[entry'[j]] \notin {None, Gone} /\ obj'[entry'[j]].key = j
    BY DEF MapIsLive, Live
  <2>1. entry[j] # None => obj[entry[j]] \notin {None, Gone} /\ obj[entry[j]].key = j
                           /\ entry[j] \in Ids
    BY <1>0 DEF MapInv, MapIsLive, Live, CacheTypeOK
  <2>2. CASE entry'[j] = entry[j]
    BY <1>2, <1>5, <2>1, <2>2
  <2>3. CASE entry'[j] # entry[j]
    <3>1. j = k /\ entry'[j] = i
      BY <1>0, <1>1, <1>3, <2>3 DEF CacheTypeOK
    <3> QED
      BY <1>2, <1>4, <1>5, <3>1
  <2> QED
    BY <2>2, <2>3
<1> QED
  BY <1>6, <1>8, <1>9, <1>10, <1>11, <1>12 DEF MapInv

LEMMA EnterMap ==
    ASSUME MapInv, NEW u \in Users, NEW create \in BOOLEAN, Enter(u, create)
    PROVE  MapInv'
<1> DEFINE i == uobj[u]
<1>0. /\ CacheTypeOK /\ upc[u] = "found"
      /\ UNCHANGED <<entry, row, file, source, mount, now, ukey, uobj, wpc, prune, astray>>
  BY DEF MapInv, Enter, clock
<1>1. i \in Ids /\ ukey[u] \in Keys /\ obj[i] # None
      /\ (obj[i] # Gone => Live(i) /\ obj[i].key = ukey[u])
  BY <1>0, UserHas
<1>2. /\ upc' \in [Users -> {"idle", "creating", "found", "reading", "sizing", "stamping",
                          "checking", "starting", "open", "lost"}]
      /\ \A v \in Users : v # u => upc'[v] = upc[v]
      /\ upc'[u] \notin {"idle", "creating"}
  BY <1>0 DEF Enter, CacheTypeOK
<1>3. /\ ObjectsKept /\ obj' \in [Ids -> Objects \cup {None, Gone}]
      /\ \A j \in Ids : (Live(j)' <=> Live(j)) /\ (obj'[j] = None <=> obj[j] = None)
      /\ \A j \in Ids : Live(j) => obj'[j].info = obj[j].info /\ obj'[j].key = obj[j].key
  <2>1. CASE obj[i] = Gone
    <3>1. UNCHANGED obj
      BY <2>1 DEF Enter
    <3> QED
      BY <1>0, <3>1, SameObjects DEF CacheTypeOK
  <2>2. CASE obj[i] # Gone
    <3>1. Changed(i, obj[i].refs + 1, obj[i].info, obj[i].ready, obj[i].decoding)
      BY <1>0, <1>1, <2>2, EnterEffect
    <3> HIDE DEF i
    <3>2. obj' \in [Ids -> Objects \cup {None, Gone}] /\ \A j \in Ids : obj'[j].info = obj[j].info
      BY <3>1 DEF Changed
    <3> QED
      BY <1>1, <3>1, <3>2, ChangedKeeps
  <2> QED
    BY <2>1, <2>2
<1>4. UserOK(u)'
  BY <1>0, <1>1, <1>2, <1>3 DEF UserOK, Live
<1>5. CacheTypeOK'
  BY <1>0, <1>2, <1>3 DEF CacheTypeOK
<1>6. \A k \in Keys : entry'[k] = None \/ (entry'[k] = entry[k] /\ obj'[entry[k]] # Gone)
  BY <1>0, <1>3 DEF MapInv, MapIsLive, Live, CacheTypeOK
<1>7. \A j \in Ids : Live(j)' => Past(obj'[j].info.of, obj'[j].key)
  BY <1>3 DEF MapInv, PastOK
<1> QED
  BY <1>0, <1>2, <1>3, <1>4, <1>5, <1>6, <1>7, StepFrame

LEMMA ReadRowMap == ASSUME MapInv, NEW u \in Users, ReadRow(u) PROVE MapInv'
<1> DEFINE i == uobj[u]
           info == IF row[ukey[u]] = None THEN Unread ELSE row[ukey[u]]
<1>0. /\ CacheTypeOK /\ upc[u] \in {"reading", "sizing"} /\ Live(i)
      /\ UNCHANGED <<entry, row, file, source, mount, now, ukey, uobj, wpc, prune, astray>>
  BY DEF MapInv, ReadRow, clock
<1>1. i \in Ids /\ ukey[u] \in Keys
  BY <1>0, UserHas
<1>2. info \in Infos /\ Past(info.of, ukey[u])
  <2>1. CASE row[ukey[u]] = None
    BY <1>0, <1>1, <2>1, VersionIs DEF Past
  <2>2. CASE row[ukey[u]] # None
    BY <1>0, <1>1, <2>2 DEF CacheTypeOK, MapInv, PastOK
  <2> QED
    BY <2>1, <2>2
<1> HIDE DEF info
<1>3. Changed(i, obj[i].refs, info, obj[i].ready, obj[i].decoding)
  BY <1>0, <1>1, <1>2, ReadRowEffect DEF info
<1>4. /\ upc' \in [Users -> {"idle", "creating", "found", "reading", "sizing", "stamping",
                          "checking", "starting", "open", "lost"}]
      /\ \A v \in Users : v # u => upc'[v] = upc[v]
      /\ upc'[u] \notin {"idle", "creating"}
  BY <1>0 DEF ReadRow, CacheTypeOK
<1>5. CacheTypeOK'
  BY <1>0, <1>3, <1>4 DEF CacheTypeOK, Changed
<1> HIDE DEF i
<1>6. upc[u] \notin {"idle", "creating"}
  BY <1>0
<1> QED
  BY <1>0, <1>1, <1>2, <1>3, <1>4, <1>5, <1>6, ThreadFrame DEF i

LEMMA StampMap == ASSUME MapInv, NEW u \in Users, Stamp(u) PROVE MapInv'
<1> DEFINE i == uobj[u]
           k == ukey[u]
<1>0. /\ CacheTypeOK /\ upc[u] = "stamping" /\ Live(i)
      /\ UNCHANGED <<entry, source, mount, now, ukey, uobj, wpc, prune, astray>>
  BY DEF MapInv, Stamp, clock
<1>1. i \in Ids /\ k \in Keys /\ obj[i].key = k
  BY <1>0, UserHas
<1>2. Stamped(i) \in Infos /\ Past(Stamped(i).of, k)
  BY <1>0, <1>1, StampedIs DEF MapInv, PastOK
<1>3. Changed(i, obj[i].refs, Stamped(i), TRUE, obj[i].decoding)
  BY <1>0, <1>1, StampEffect
<1>4. /\ upc' \in [Users -> {"idle", "creating", "found", "reading", "sizing", "stamping",
                          "checking", "starting", "open", "lost"}]
      /\ \A v \in Users : v # u => upc'[v] = upc[v]
      /\ upc'[u] \notin {"idle", "creating"}
  BY <1>0 DEF Stamp, CacheTypeOK
<1>5. /\ row' \in [Keys -> Infos \cup {None}]
      /\ \A j \in Keys : row'[j] = row[j] \/ Past(row'[j].of, j)
  <2>1. row' = [row EXCEPT ![k] = Stamped(i)]
    BY DEF Stamp, Stamped
  <2> HIDE DEF i, k
  <2> QED
    BY <1>0, <1>1, <1>2, <2>1, RowOf
<1>6. file' \in [Keys -> Encoded \cup {None}]
  <2>1. file' = file \/ file' = [file EXCEPT ![k] = None]
    BY DEF Stamp
  <2> QED
    BY <1>0, <2>1 DEF CacheTypeOK
<1>7. CacheTypeOK'
  BY <1>0, <1>3, <1>4, <1>5, <1>6 DEF CacheTypeOK, Changed
<1> HIDE DEF i, k
<1>8. upc[u] \notin {"idle", "creating"}
  BY <1>0
<1> QED
  BY <1>0, <1>1, <1>2, <1>3, <1>4, <1>5, <1>7, <1>8, ThreadFrame DEF i, k

LEMMA CheckMap == ASSUME MapInv, NEW u \in Users, Check(u) PROVE MapInv'
<1> DEFINE i == uobj[u]
           k == ukey[u]
           cleared == ~obj[i].decoding /\ Outdated(i)
           info    == IF cleared THEN Cleared(k) ELSE obj[i].info
           start   == obj[i].ready /\ ~obj[i].decoding /\ info.result = "none"
<1>0. /\ CacheTypeOK /\ upc[u] = "checking" /\ Live(i) /\ (start => wpc[i] = "none")
      /\ UNCHANGED <<entry, row, source, mount, now, ukey, uobj, prune, astray>>
  BY DEF MapInv, Check, clock
<1>1. i \in Ids /\ k \in Keys /\ obj[i].key = k
  BY <1>0, UserHas
<1>2. info \in Infos /\ Past(info.of, k)
  BY <1>0, <1>1, VersionIs, LiveIs DEF MapInv, PastOK
<1>3. wpc' = (IF start THEN [wpc EXCEPT ![i] = "begin"] ELSE wpc)
      /\ \E f \in (IF cleared THEN Emptied(k, i) ELSE {file[k]}) : file' = [file EXCEPT ![k] = f]
  BY DEF Check
<1>4. start \in BOOLEAN
  BY <1>0, <1>1, LiveIs
<1>5. Changed(i, obj[i].refs, info, obj[i].ready, obj[i].decoding \/ start)
  BY <1>0, <1>1, <1>2, <1>4, CheckEffect
<1>6. /\ upc' \in [Users -> {"idle", "creating", "found", "reading", "sizing", "stamping",
                          "checking", "starting", "open", "lost"}]
      /\ \A v \in Users : v # u => upc'[v] = upc[v]
      /\ upc'[u] \notin {"idle", "creating"}
  BY <1>0 DEF Check, CacheTypeOK
<1> HIDE DEF i, k, cleared, info, start
<1>7. file' \in [Keys -> Encoded \cup {None}]
  <2>1. PICK f \in (IF cleared THEN Emptied(k, i) ELSE {file[k]}) : file' = [file EXCEPT ![k] = f]
    BY <1>3
  <2>2. f \in Encoded \cup {None}
    BY <1>0, <1>1, <2>1, EmptiedIs DEF CacheTypeOK
  <2> QED
    BY <1>0, <1>1, <2>1, <2>2, FileOf
<1>8. /\ wpc' \in [Ids -> {"none", "begin", "waiting", "pruning", "writing", "failing",
                        "finishing", "closing", "deleting"}]
      /\ \A j \in Ids : wpc'[j] = wpc[j] \/ (wpc[j] = "none" /\ Live(j))
  BY <1>0, <1>1, <1>3 DEF CacheTypeOK
<1>9. CacheTypeOK'
  BY <1>0, <1>5, <1>6, <1>7, <1>8 DEF CacheTypeOK, Changed
<1>10. upc[u] \notin {"idle", "creating"} /\ \A j \in Keys : row'[j] = row[j]
  BY <1>0
<1> QED
  BY <1>0, <1>1, <1>2, <1>5, <1>6, <1>8, <1>9, <1>10, ThreadFrame DEF i, k

LEMMA UseMap == ASSUME MapInv, NEW u \in Users, Use(u) PROVE MapInv'
<1> DEFINE i == uobj[u]
<1>0. /\ CacheTypeOK /\ upc[u] = "open" /\ Live(i)
      /\ UNCHANGED <<entry, row, file, source, mount, now, upc, ukey, uobj, wpc, prune, astray>>
  BY DEF MapInv, Use, clock, users
<1>1. i \in Ids /\ obj[i].key = ukey[u]
  BY <1>0, UserHas
<1>2. Stamped(i) \in Infos /\ Past(Stamped(i).of, ukey[u])
  BY <1>0, <1>1, StampedIs DEF MapInv, PastOK
<1>3. Changed(i, obj[i].refs, Stamped(i), obj[i].ready, obj[i].decoding)
  BY <1>0, <1>1, UseEffect
<1>4. CacheTypeOK'
  BY <1>0, <1>3 DEF CacheTypeOK, Changed
<1> HIDE DEF i
<1>5. /\ upc[u] \notin {"idle", "creating"} /\ upc'[u] \notin {"idle", "creating"}
      /\ \A v \in Users : v # u => upc'[v] = upc[v]
  BY <1>0
<1> QED
  BY <1>0, <1>1, <1>2, <1>3, <1>4, <1>5, ThreadFrame DEF i

LEMMA StartedMap == ASSUME MapInv, NEW u \in Users, Started(u) PROVE MapInv'
<1>0. /\ CacheTypeOK /\ upc[u] = "starting" /\ upc' = [upc EXCEPT ![u] = "open"]
      /\ UNCHANGED <<entry, obj, row, file, source, mount, now, ukey, uobj, wpc, prune, astray>>
  BY DEF MapInv, Started, clock
<1>1. CacheTypeOK'
  BY <1>0 DEF CacheTypeOK
<1>2. ObjectsKept /\ \A i \in Ids : Live(i)' <=> Live(i)
  BY <1>0, SameObjects
<1>3. UserOK(u)'
  BY <1>0 DEF MapInv, UsersOK, UserOK, CacheTypeOK
<1>4. \A v \in Users : \/ upc'[v] = upc[v] /\ ukey'[v] = ukey[v] /\ uobj'[v] = uobj[v]
                       \/ UserOK(v)'
  BY <1>0, <1>3 DEF CacheTypeOK
<1>5. \A k \in Keys : entry'[k] = None \/ (entry'[k] = entry[k] /\ obj'[entry[k]] # Gone)
  BY <1>0 DEF MapInv, MapIsLive, Live
<1> QED
  BY <1>0, <1>1, <1>2, <1>4, <1>5, StepFrame

\* What closing an entry does to the map, the index and the files.
LEMMA CloseEntryIs ==
    ASSUME MapInv, NEW i \in Ids, Live(i), NEW delete \in BOOLEAN, CloseEntry(i, delete)
    PROVE  /\ entry' \in [Keys -> Ids \cup {None}] /\ row' \in [Keys -> Infos \cup {None}]
           /\ file' \in [Keys -> Encoded \cup {None}]
           /\ row'[obj[i].key] = obj[i].info
           /\ file'[obj[i].key] \in {file[obj[i].key], None}
           /\ \A k \in Keys : k # obj[i].key => row'[k] = row[k] /\ file'[k] = file[k]
           /\ \A k \in Keys : entry'[k] = None \/ entry'[k] = entry[k]
           /\ delete /\ LastUser(i) =>
                file'[obj[i].key] = None /\ \A k \in Keys : entry'[k] # None => entry'[k] # i
<1> DEFINE k == obj[i].key
<1>1. /\ CacheTypeOK /\ k \in Keys /\ obj[i].info \in Infos
      /\ \A j \in Keys : entry[j] = i => j = k
  BY LiveIs, NothingAssumption DEF MapInv, MapIsLive
<1>2. /\ row' = [row EXCEPT ![k] = obj[i].info]
      /\ file' = (IF LastUser(i) /\ delete THEN [file EXCEPT ![k] = None] ELSE file)
      /\ entry' = (IF LastUser(i) /\ delete THEN [entry EXCEPT ![k] = None] ELSE entry)
  BY DEF CloseEntry
<1> HIDE DEF k
<1>3. /\ row' \in [Keys -> Infos \cup {None}] /\ row'[k] = obj[i].info
      /\ \A j \in Keys : j # k => row'[j] = row[j]
  BY <1>1, <1>2, RowOf
<1>4. CASE LastUser(i) /\ delete
  <2>1. /\ file' = [file EXCEPT ![k] = None] /\ entry' = [entry EXCEPT ![k] = None]
    BY <1>2, <1>4
  <2>2. /\ file' \in [Keys -> Encoded \cup {None}] /\ file'[k] = None
        /\ \A j \in Keys : j # k => file'[j] = file[j]
    BY <1>1, <2>1 DEF CacheTypeOK
  <2>3. /\ entry' \in [Keys -> Ids \cup {None}]
        /\ \A j \in Keys : entry'[j] = IF j = k THEN None ELSE entry[j]
    BY <1>1, <2>1 DEF CacheTypeOK
  <2>4. \A j \in Keys : entry'[j] # None => entry'[j] # i
    BY <1>1, <2>3
  <2> QED
    BY <1>3, <2>2, <2>3, <2>4 DEF k
<1>5. CASE ~(LastUser(i) /\ delete)
  <2>1. UNCHANGED <<file, entry>>
    BY <1>2, <1>5
  <2> QED
    BY <1>1, <1>3, <1>5, <2>1 DEF CacheTypeOK, k
<1> QED
  BY <1>4, <1>5

\* An entry is closed, and perhaps destroyed, by a thread or by its worker.
LEMMA ReleaseFrame ==
    ASSUME MapInv, NEW i \in Ids, Live(i), NEW delete \in BOOLEAN,
           CloseEntry(i, delete), NEW decoding \in BOOLEAN,
           \/ /\ delete /\ LastUser(i) /\ obj' = [obj EXCEPT ![i] = Gone]
              /\ wpc'[i] \in {"none", "begin"}
           \/ Changed(i, Less(i), obj[i].info, obj[i].ready, decoding),
           UNCHANGED <<source, mount>>,
           \A v \in Users : \/ upc'[v] = upc[v] /\ ukey'[v] = ukey[v] /\ uobj'[v] = uobj[v]
                            \/ UserOK(v)',
           \A j \in Ids : wpc'[j] = wpc[j] \/ (wpc[j] # "pruning" /\ Live(j))
    PROVE  /\ UsersOK' /\ WorkersOK' /\ PastOK' /\ MapIsLive'
           /\ UNCHANGED prune => PruneOK'
<1>0. CacheTypeOK
  BY DEF MapInv
<1>1. /\ ObjectsKept /\ \A j \in Ids : j # i => obj'[j] = obj[j] /\ (Live(j)' <=> Live(j))
      /\ Live(i)' => obj'[i].info = obj[i].info /\ obj'[i].key = obj[i].key
      /\ \/ Live(i)'
         \/ delete /\ LastUser(i) /\ wpc'[i] \in {"none", "begin"}
  <2>1. CASE delete /\ LastUser(i) /\ obj' = [obj EXCEPT ![i] = Gone]
             /\ wpc'[i] \in {"none", "begin"}
    <3>1. obj[i] # None
      BY DEF Live
    <3> QED
      BY <1>0, <2>1, <3>1, Destroyed
  <2>2. CASE Changed(i, Less(i), obj[i].info, obj[i].ready, decoding)
    BY <2>2, ChangedKeeps DEF Changed
  <2> QED
    BY <2>1, <2>2
<1>2. /\ row'[obj[i].key] = obj[i].info
      /\ \A k \in Keys : k # obj[i].key => row'[k] = row[k]
      /\ \A k \in Keys : entry'[k] = None \/ entry'[k] = entry[k]
      /\ delete /\ LastUser(i) => \A k \in Keys : entry'[k] # None => entry'[k] # i
  BY CloseEntryIs
<1>3. \A k \in Keys : entry'[k] = None \/ (entry'[k] = entry[k] /\ obj'[entry[k]] # Gone)
  <2> SUFFICES ASSUME NEW k \in Keys, entry'[k] # None
               PROVE  entry'[k] = entry[k] /\ obj'[entry[k]] # Gone
    OBVIOUS
  <2>1. entry'[k] = entry[k] /\ entry[k] \in Ids /\ Live(entry[k])
    BY <1>0, <1>2 DEF CacheTypeOK, MapInv, MapIsLive
  <2>2. Live(entry[k])'
    BY <1>1, <1>2, <2>1
  <2> QED
    BY <2>1, <2>2 DEF Live
<1>4. Past(obj[i].info.of, obj[i].key)
  BY DEF MapInv, PastOK
<1>5. \A k \in Keys : \/ row'[k] = row[k] \/ row'[k] = None
                      \/ Past(row'[k].of, k)
  BY <1>2, <1>4
<1>6. \A j \in Ids : Live(j)' => \/ Live(j) /\ obj'[j] = obj[j]
                                 \/ Past(obj'[j].info.of, obj'[j].key)
  BY <1>1, <1>4
<1>7. \A j \in Ids : Live(j) /\ ~Live(j)' => wpc'[j] \in {"none", "begin"}
  BY <1>1
<1>8. UNCHANGED prune => PruneOK'
  <2>1. \A j \in Ids : wpc[j] = "pruning" => wpc'[j] = "pruning"
    OBVIOUS
  <2> QED
    BY <1>1, <1>3, <2>1, PruneFrame
<1>9. \A j \in Ids : wpc'[j] = wpc[j] \/ Live(j)
  OBVIOUS
<1> QED
  BY <1>1, <1>3, <1>5, <1>6, <1>7, <1>8, <1>9, RestFrame

LEMMA CloseMap ==
    ASSUME MapInv, NEW u \in Users, NEW failed \in BOOLEAN, Close(u, failed)
    PROVE  MapInv'
<1> DEFINE i == uobj[u]
<1>0. /\ CacheTypeOK /\ upc[u] \in {"starting", "open"}
      /\ UNCHANGED <<source, mount, now, wpc, prune, astray>>
  BY DEF MapInv, Close, clock
<1>1. i \in Ids /\ ukey[u] \in Keys /\ obj[i] # None
      /\ (obj[i] # Gone => Live(i) /\ obj[i].key = ukey[u])
  BY <1>0, UserHas
<1>2. CASE obj[i] = Gone
  <2>1. upc' = [upc EXCEPT ![u] = "lost"] /\ UNCHANGED <<entry, obj, row, file, ukey, uobj>>
    BY <1>2 DEF Close
  <2>2. ObjectsKept /\ \A j \in Ids : Live(j)' <=> Live(j)
    BY <2>1, SameObjects
  <2>3. CacheTypeOK'
    BY <1>0, <2>1 DEF CacheTypeOK
  <2>4. UserOK(u)'
    BY <1>0, <1>1, <1>2, <2>1 DEF UserOK, CacheTypeOK
  <2>5. \A v \in Users : \/ upc'[v] = upc[v] /\ ukey'[v] = ukey[v] /\ uobj'[v] = uobj[v]
                         \/ UserOK(v)'
    BY <1>0, <2>1, <2>4 DEF CacheTypeOK
  <2>6. \A k \in Keys : entry'[k] = None \/ (entry'[k] = entry[k] /\ obj'[entry[k]] # Gone)
    BY <2>1 DEF MapInv, MapIsLive, Live
  <2> QED
    BY <1>0, <2>1, <2>2, <2>3, <2>5, <2>6, StepFrame
<1>3. CASE obj[i] # Gone
  <2> DEFINE decoding == obj[i].decoding /\ ~failed
  <2>0. Live(i) /\ decoding \in BOOLEAN
    BY <1>0, <1>1, <1>3, LiveIs
  <2>1. /\ upc' = [upc EXCEPT ![u] = "idle"] /\ ukey' = [ukey EXCEPT ![u] = None]
        /\ uobj' = [uobj EXCEPT ![u] = None]
    BY <1>3 DEF Close
  <2>2. /\ CloseEntry(i, failed)
        /\ IF failed /\ LastUser(i) THEN obj' = [obj EXCEPT ![i] = Gone] /\ Destroyable(i)
           ELSE Changed(i, Less(i), obj[i].info, obj[i].ready, decoding)
    BY <1>0, <1>1, <2>0, CloseEffect
  <2> HIDE DEF i, decoding
  <2>3. \/ /\ failed /\ LastUser(i) /\ obj' = [obj EXCEPT ![i] = Gone]
           /\ wpc'[i] \in {"none", "begin"}
        \/ Changed(i, Less(i), obj[i].info, obj[i].ready, decoding)
    BY <1>0, <2>2 DEF Destroyable
  <2>4. obj' \in [Ids -> Objects \cup {None, Gone}]
    BY <1>0, <1>1, <2>3, Destroyed DEF Changed
  <2>5. /\ entry' \in [Keys -> Ids \cup {None}] /\ row' \in [Keys -> Infos \cup {None}]
        /\ file' \in [Keys -> Encoded \cup {None}]
    BY <1>1, <2>0, <2>2, CloseEntryIs
  <2>6. CacheTypeOK'
    BY <1>0, <2>1, <2>4, <2>5 DEF CacheTypeOK
  <2>7. \A v \in Users : \/ upc'[v] = upc[v] /\ ukey'[v] = ukey[v] /\ uobj'[v] = uobj[v]
                         \/ UserOK(v)'
    BY <1>0, <2>1 DEF CacheTypeOK, UserOK
  <2>8. \A j \in Ids : wpc'[j] = wpc[j]
    BY <1>0
  <2> QED
    BY <1>0, <1>1, <2>0, <2>2, <2>3, <2>6, <2>7, <2>8, ReleaseFrame DEF MapInv
<1> QED
  BY <1>2, <1>3

-----------------------------------------------------------------------------
(* The steps of workers. *)

\* A worker has an entry from its first reference to its end.
LEMMA WorkerHas ==
    ASSUME MapInv, NEW i \in Ids, wpc[i] \notin {"none", "begin"}
    PROVE  Live(i) /\ CacheTypeOK /\ obj[i].key \in Keys /\ obj[i].info \in Infos
           /\ Past(obj[i].info.of, obj[i].key)
BY LiveIs DEF MapInv, WorkersOK, PastOK

LEMMA WorkerFrame ==
    ASSUME MapInv, CacheTypeOK', UNCHANGED <<source, mount, prune, entry, row, upc, ukey, uobj>>,
           NEW i \in Ids, wpc[i] # "pruning", \A j \in Ids : j # i => wpc'[j] = wpc[j],
           NEW refs, NEW info, NEW ready, NEW decoding,
           Changed(i, refs, info, ready, decoding), Past(info.of, obj[i].key)
    PROVE  MapInv'
<1>1. /\ ObjectsKept
      /\ \A j \in Ids : (Live(j)' <=> Live(j)) /\ (obj'[j] = None <=> obj[j] = None)
      /\ Live(i) /\ obj'[i].key = obj[i].key /\ obj'[i].info = info
      /\ \A j \in Ids : j # i => obj'[j] = obj[j]
  BY ChangedKeeps DEF Changed
<1>2. \A k \in Keys : entry'[k] = None \/ (entry'[k] = entry[k] /\ obj'[entry[k]] # Gone)
  <2>1. \A k \in Keys : entry[k] = None \/ (entry[k] \in Ids /\ Live(entry[k]))
    BY DEF MapInv, MapIsLive, CacheTypeOK
  <2>2. \A j \in Ids : Live(j) => obj'[j] # Gone
    BY <1>1 DEF Live
  <2> QED
    BY <2>1, <2>2
<1>3. \A j \in Ids : wpc'[j] = wpc[j] \/ (wpc[j] # "pruning" /\ Live(j))
  BY <1>1
<1>4. \A j \in Ids : Live(j)' => \/ Live(j) /\ obj'[j] = obj[j]
                                 \/ Past(obj'[j].info.of, obj'[j].key)
  BY <1>1
<1>5. \A j \in Ids : Live(j) /\ ~Live(j)' => wpc'[j] \in {"none", "begin"}
  BY <1>1
<1> QED
  BY <1>1, <1>2, <1>3, <1>4, <1>5, StepFrame

\* The object is left as it is.
LEMMA Unchanged ==
    ASSUME CacheTypeOK, NEW i \in Ids, Live(i), UNCHANGED obj
    PROVE  Changed(i, obj[i].refs, obj[i].info, obj[i].ready, obj[i].decoding)
BY LiveIs DEF Changed, CacheTypeOK

LEMMA BeginMap == ASSUME MapInv, NEW i \in Ids, Begin(i) PROVE MapInv'
<1> DEFINE k == obj[i].key
<1>0. /\ CacheTypeOK /\ wpc[i] = "begin" /\ wpc' = [wpc EXCEPT ![i] = "waiting"] /\ Live(i)
      /\ \E f \in Emptied(k, i) : file' = [file EXCEPT ![k] = f]
      /\ UNCHANGED <<entry, row, source, mount, now, upc, ukey, uobj, prune, astray>>
  BY DEF MapInv, Begin, clock, users
<1>1. k \in Keys
  BY <1>0, LiveIs
<1>2. Changed(i, obj[i].refs + 1, Cleared(k), obj[i].ready, obj[i].decoding)
  BY <1>0, BeginEffect
<1>3. Past(Cleared(k).of, k)
  BY <1>0, <1>1, VersionIs
<1> HIDE DEF k
<1>4. file' \in [Keys -> Encoded \cup {None}]
  <2>1. PICK f \in Emptied(k, i) : file' = [file EXCEPT ![k] = f]
    BY <1>0
  <2>2. f \in Encoded \cup {None}
    BY <1>0, <1>1, <2>1, EmptiedIs
  <2> QED
    BY <1>0, <1>1, <2>1, <2>2, FileOf
<1>5. CacheTypeOK'
  BY <1>0, <1>2, <1>4 DEF CacheTypeOK, Changed
<1>6. wpc[i] # "pruning" /\ \A j \in Ids : j # i => wpc'[j] = wpc[j]
  BY <1>0 DEF CacheTypeOK
<1> QED
  BY <1>0, <1>2, <1>3, <1>5, <1>6, WorkerFrame DEF k

LEMMA WriteMap == ASSUME MapInv, NEW i \in Ids, Write(i) PROVE MapInv'
<1> DEFINE k == obj[i].key
           f == [of |-> obj[i].info.of, whole |-> FALSE, by |-> i]
<1>0. /\ wpc[i] = "writing" /\ wpc' = [wpc EXCEPT ![i] = "finishing"]
      /\ file' = [file EXCEPT ![k] = f]
      /\ UNCHANGED <<entry, obj, row, source, mount, now, upc, ukey, uobj, prune, astray>>
  BY DEF Write, clock, users
<1>1. Live(i) /\ CacheTypeOK /\ k \in Keys /\ obj[i].info \in Infos
      /\ Past(obj[i].info.of, k)
  BY <1>0, WorkerHas
<1>2. f \in Encoded
  BY <1>1, InfoIs DEF Encoded
<1>3. Changed(i, obj[i].refs, obj[i].info, obj[i].ready, obj[i].decoding)
  BY <1>0, <1>1, Unchanged
<1> HIDE DEF k, f
<1>4. file' \in [Keys -> Encoded \cup {None}]
  BY <1>0, <1>1, <1>2, FileOf
<1>5. CacheTypeOK'
  BY <1>0, <1>1, <1>4 DEF CacheTypeOK
<1>6. wpc[i] # "pruning" /\ \A j \in Ids : j # i => wpc'[j] = wpc[j]
  BY <1>0, <1>1 DEF CacheTypeOK
<1> QED
  BY <1>0, <1>1, <1>3, <1>5, <1>6, WorkerFrame DEF k

LEMMA FinishMap == ASSUME MapInv, NEW i \in Ids, Finish(i) PROVE MapInv'
<1> DEFINE k == obj[i].key
<1>0. /\ wpc[i] = "finishing" /\ wpc' = [wpc EXCEPT ![i] = "closing"]
      /\ file' = (IF file[k] # None /\ file[k].by = i
                    THEN [file EXCEPT ![k] = [file[k] EXCEPT !.whole = TRUE]] ELSE file)
      /\ UNCHANGED <<entry, row, source, mount, now, upc, ukey, uobj, prune, astray>>
  BY DEF Finish, clock, users
<1>1. Live(i) /\ CacheTypeOK /\ k \in Keys /\ obj[i].info \in Infos
      /\ Past(obj[i].info.of, k)
  BY <1>0, WorkerHas
<1>2. /\ Changed(i, obj[i].refs, Finished(i), obj[i].ready, FALSE)
      /\ Past(Finished(i).of, k)
  BY <1>1, FinishEffect
<1> HIDE DEF k
<1>4. file' \in [Keys -> Encoded \cup {None}]
  <2>1. CASE file[k] # None /\ file[k].by = i
    <3>1. file[k] \in Encoded
      BY <1>1, <2>1 DEF CacheTypeOK
    <3>2. [file[k] EXCEPT !.whole = TRUE] \in Encoded
      BY <3>1 DEF Encoded
    <3> QED
      BY <1>0, <1>1, <2>1, <3>2, FileOf
  <2>2. CASE ~(file[k] # None /\ file[k].by = i)
    BY <1>0, <1>1, <2>2 DEF CacheTypeOK
  <2> QED
    BY <2>1, <2>2
<1>5. CacheTypeOK'
  BY <1>0, <1>1, <1>2, <1>4 DEF CacheTypeOK, Changed
<1>6. wpc[i] # "pruning" /\ \A j \in Ids : j # i => wpc'[j] = wpc[j]
  BY <1>0, <1>1 DEF CacheTypeOK
<1> QED
  BY <1>0, <1>2, <1>5, <1>6, WorkerFrame DEF k

LEMMA GiveMap ==
    ASSUME MapInv, NEW i \in Ids, NEW timeout \in BOOLEAN, Give(i, timeout) PROVE MapInv'
<1>0. /\ wpc[i] \in {"failing", "finishing"}
      /\ wpc' = [wpc EXCEPT ![i] = IF timeout THEN "deleting" ELSE "closing"]
      /\ UNCHANGED <<entry, row, file, source, mount, now, upc, ukey, uobj, prune, astray>>
  BY DEF Give, clock, users
<1>1. Live(i) /\ CacheTypeOK /\ Past(obj[i].info.of, obj[i].key)
  BY <1>0, WorkerHas
<1>2. Changed(i, obj[i].refs, obj[i].info, obj[i].ready, FALSE)
  BY <1>1, GiveEffect
<1>3. CacheTypeOK'
  BY <1>0, <1>1, <1>2 DEF CacheTypeOK, Changed
<1>4. wpc[i] # "pruning" /\ \A j \in Ids : j # i => wpc'[j] = wpc[j]
  BY <1>0, <1>1 DEF CacheTypeOK
<1> QED
  BY <1>0, <1>1, <1>2, <1>3, <1>4, WorkerFrame

LEMMA EndWorkMap == ASSUME MapInv, NEW i \in Ids, EndWork(i) PROVE MapInv'
<1> DEFINE delete == wpc[i] = "deleting"
<1>0. /\ wpc[i] \in {"closing", "deleting"} /\ wpc' = [wpc EXCEPT ![i] = "none"]
      /\ CloseEntry(i, delete)
      /\ obj' = (IF delete /\ LastUser(i) THEN [obj EXCEPT ![i] = Gone] ELSE Unused(i))
      /\ UNCHANGED <<source, mount, now, upc, ukey, uobj, prune, astray>>
  BY DEF EndWork, clock, users
<1>1. Live(i) /\ CacheTypeOK
  BY <1>0, WorkerHas
<1>2. delete \in BOOLEAN /\ wpc'[i] = "none" /\ wpc[i] # "pruning"
      /\ \A j \in Ids : j # i => wpc'[j] = wpc[j]
  BY <1>0, <1>1 DEF CacheTypeOK
<1> HIDE DEF delete
<1>3. \/ /\ delete /\ LastUser(i) /\ obj' = [obj EXCEPT ![i] = Gone]
         /\ wpc'[i] \in {"none", "begin"}
      \/ Changed(i, Less(i), obj[i].info, obj[i].ready, obj[i].decoding)
  BY <1>0, <1>1, <1>2, LessIs
<1>4. obj' \in [Ids -> Objects \cup {None, Gone}] /\ obj[i].decoding \in BOOLEAN
  <2>1. obj[i] # None
    BY <1>1 DEF Live
  <2> QED
    BY <1>1, <1>3, <2>1, LiveIs, Destroyed DEF Changed
<1>5. /\ entry' \in [Keys -> Ids \cup {None}] /\ row' \in [Keys -> Infos \cup {None}]
      /\ file' \in [Keys -> Encoded \cup {None}]
  BY <1>0, <1>1, <1>2, CloseEntryIs
<1>6. CacheTypeOK'
  BY <1>0, <1>1, <1>4, <1>5 DEF CacheTypeOK
<1>7. \A j \in Ids : wpc'[j] = wpc[j] \/ (wpc[j] # "pruning" /\ Live(j))
  BY <1>1, <1>2
<1> QED
  BY <1>0, <1>1, <1>2, <1>3, <1>4, <1>6, <1>7, ReleaseFrame DEF MapInv

-----------------------------------------------------------------------------
(* Maintenance. *)

\* Only the maintenance and perhaps the worker that runs it move.
LEMMA PassFrame ==
    ASSUME MapInv, UNCHANGED <<entry, obj, row, file, source, mount, now, upc, ukey, uobj, astray>>,
           PruneOK', \A i \in Ids : wpc'[i] = wpc[i] \/ Live(i),
           wpc' \in [Ids -> {"none", "begin", "waiting", "pruning", "writing", "failing",
                             "finishing", "closing", "deleting"}]
    PROVE  MapInv'
<1>1. ObjectsKept /\ \A i \in Ids : Live(i)' <=> Live(i)
  BY SameObjects
<1>2. \A k \in Keys : entry'[k] = None \/ (entry'[k] = entry[k] /\ obj'[entry[k]] # Gone)
  BY DEF MapInv, MapIsLive, Live
<1>3. UsersOK' /\ WorkersOK' /\ PastOK' /\ MapIsLive'
  BY <1>1, <1>2, RestFrame
<1>4. CacheTypeOK'
  BY DEF MapInv, CacheTypeOK, PruneOK
<1> QED
  BY <1>3, <1>4 DEF MapInv

LEMMA IdleIs ==
    /\ Idle \in [stage : {"idle"}, plan : Seq(STRING), todo : Seq(Items), left : Nat,
                 need : Nat, by : {None}, victim : {None}]
    /\ Idle.stage = "idle" /\ Idle.victim = None /\ Idle.by = None
BY DEF Idle

LEMMA MaintainMap == ASSUME MapInv, NEW by \in Ids \cup {None}, Maintain(by) PROVE MapInv'
<1>0. /\ CacheTypeOK
      /\ prune' = [Idle EXCEPT !.stage = "next", !.plan = <<"expired", "size", "disk">>, !.by = by]
      /\ UNCHANGED <<entry, obj, row, file, source, mount, now, upc, ukey, uobj, astray>>
  BY DEF MapInv, Maintain, clock, users
<1>1. /\ wpc' \in [Ids -> {"none", "begin", "waiting", "pruning", "writing", "failing",
                        "finishing", "closing", "deleting"}]
      /\ by \in Ids => wpc[by] = "waiting" /\ wpc'[by] = "pruning"
      /\ \A j \in Ids : j # by => wpc'[j] = wpc[j]
  BY <1>0 DEF Maintain, CacheTypeOK
<1>2. PruneOK'
  <2>1. /\ prune' \in [stage : {"idle", "next", "scan", "drop", "full"}, plan : {prune'.plan},
                  todo : Seq(Items), left : {prune'.left}, need : {prune'.need},
                  by : Ids \cup {None}, victim : Ids \cup {None}]
        /\ prune'.stage = "next" /\ prune'.by = by /\ prune'.victim = None
    BY <1>0, IdleIs
  <2> QED
    BY <1>1, <2>1 DEF PruneOK
<1>3. \A i \in Ids : wpc'[i] = wpc[i] \/ Live(i)
  BY <1>1 DEF MapInv, WorkersOK
<1> QED
  BY <1>0, <1>1, <1>2, <1>3, PassFrame

\* What a pass may remove are rows that are there.
LEMMA ListedIs ==
    ASSUME CacheTypeOK, NEW K \in SUBSET Rows, NEW s \in Orders(K)
    PROVE  Listed(s) \in Seq(Items)
<1>1. IsFiniteSet(K) /\ Cardinality(K) \in Nat
  <2>1. IsFiniteSet(K)
    BY CacheAssumption, FS_Subset DEF Rows
  <2> QED
    BY <2>1, FS_CardinalityType
<1>2. DOMAIN s = 1..Cardinality(K) /\ \A n \in 1..Cardinality(K) : s[n] \in K
  BY DEF Orders
<1>3. \A n \in 1..Cardinality(K) : s[n] \in Keys /\ row[s[n]].size \in Nat
  <2> SUFFICES ASSUME NEW n \in 1..Cardinality(K) PROVE s[n] \in Keys /\ row[s[n]].size \in Nat
    OBVIOUS
  <2>1. s[n] \in Keys /\ row[s[n]] # None
    BY <1>2 DEF Rows
  <2> QED
    BY <2>1, InfoIs DEF CacheTypeOK
<1>4. Listed(s) \in [1..Cardinality(K) -> Items]
  BY <1>2, <1>3 DEF Listed, Items
<1> QED
  BY <1>1, <1>4

LEMMA ScanIs ==
    ASSUME MapInv, prune.stage = "next", NEW todo \in Seq(Items), NEW left, NEW need,
           Scan(todo, left, need), UNCHANGED <<entry, obj, wpc>>
    PROVE  PruneOK'
<1>1. /\ prune' \in [stage : {"idle", "next", "scan", "drop", "full"}, plan : {prune'.plan},
                  todo : Seq(Items), left : {prune'.left}, need : {prune'.need},
                  by : Ids \cup {None}, victim : Ids \cup {None}]
      /\ prune'.by = prune.by /\ prune'.victim = prune.victim /\ prune'.todo = todo
      /\ prune'.stage = IF todo = <<>> THEN "next" ELSE "scan"
  <2> DEFINE stage == IF todo = <<>> THEN "next" ELSE "scan"
             plan  == IF todo = <<>> THEN Tail(prune.plan) ELSE prune.plan
  <2>1. prune' = [prune EXCEPT !.stage = stage, !.plan = plan, !.todo = todo,
                               !.left = left, !.need = need]
    BY DEF Scan
  <2>2. stage \in {"next", "scan"}
    OBVIOUS
  <2>3. prune \in [stage : {"idle", "next", "scan", "drop", "full"}, plan : {prune.plan},
                  todo : Seq(Items), left : {prune.left}, need : {prune.need},
                  by : Ids \cup {None}, victim : Ids \cup {None}]
    BY DEF MapInv, PruneOK
  <2>4. stage = IF todo = <<>> THEN "next" ELSE "scan"
    OBVIOUS
  <2> HIDE DEF stage, plan
  <2>5. prune' \in [stage : {"idle", "next", "scan", "drop", "full"}, plan : {plan},
                  todo : Seq(Items), left : {left}, need : {need},
                  by : Ids \cup {None}, victim : Ids \cup {None}]
    BY <2>1, <2>2, <2>3
  <2>6. prune'.plan = plan /\ prune'.left = left /\ prune'.need = need
    BY <2>5
  <2> QED
    BY <2>1, <2>3, <2>4, <2>5, <2>6
<1> QED
  BY <1>1 DEF MapInv, PruneOK

LEMMA StartPassMap == ASSUME MapInv, StartPass PROVE MapInv'
<1>0. /\ CacheTypeOK /\ prune.stage = "next"
      /\ UNCHANGED <<entry, obj, row, file, source, mount, now, upc, ukey, uobj, wpc, astray>>
  BY DEF MapInv, StartPass, clock, users
<1>1. <<>> \in Seq(Items)
  OBVIOUS
<1>2. PruneOK'
  <2>1. CASE Head(prune.plan) = "expired"
    <3>1. PICK s \in Orders(Expired) : Scan(Listed(s), 0, 0)
      BY <2>1 DEF StartPass
    <3>2. Expired \in SUBSET Rows
      BY DEF Expired
    <3> QED
      BY <1>0, <3>1, <3>2, ListedIs, ScanIs
  <2>2. CASE Head(prune.plan) = "size"
    <3>1. PICK s \in ByAccess :
                 \/ Scan(<<>>, 0, 0)
                 \/ Scan(Listed(s), Total(Listed(s)), MaxCacheSize)
      BY <2>2 DEF StartPass
    <3>2. s \in Orders(Rows)
      BY DEF ByAccess
    <3> QED
      BY <1>0, <1>1, <3>1, <3>2, ListedIs, ScanIs
  <2>3. CASE Head(prune.plan) \notin {"expired", "size"}
    <3> DEFINE need == MinDiskSpace + Predicted
    <3>0. PICK s \in ByAccess, free \in FreeSpace :
            IF free < Predicted
              THEN prune' = [prune EXCEPT !.stage = "full", !.plan = <<>>]
            ELSE IF free >= need THEN Scan(<<>>, 0, 0)
            ELSE Scan(Listed(s), 0, need - free)
      BY <2>3 DEF StartPass
    <3> HIDE DEF need
    <3>1. \/ prune' = [prune EXCEPT !.stage = "full", !.plan = <<>>]
          \/ Scan(<<>>, 0, 0)
          \/ Scan(Listed(s), 0, need - free)
      BY <3>0
    <3>2. s \in Orders(Rows)
      BY DEF ByAccess
    <3>3. CASE prune' = [prune EXCEPT !.stage = "full", !.plan = <<>>]
      <4>1. prune \in [stage : {"idle", "next", "scan", "drop", "full"}, plan : {prune.plan},
                  todo : Seq(Items), left : {prune.left}, need : {prune.need},
                  by : Ids \cup {None}, victim : Ids \cup {None}]
        BY DEF MapInv, PruneOK
      <4>2. prune' \in [stage : {"full"}, plan : {<<>>},
                  todo : Seq(Items), left : {prune.left}, need : {prune.need},
                  by : Ids \cup {None}, victim : Ids \cup {None}]
            /\ prune'.by = prune.by /\ prune'.victim = prune.victim
        BY <3>3, <4>1
      <4> QED
        BY <1>0, <4>2 DEF MapInv, PruneOK
    <3> QED
      BY <1>0, <1>1, <3>1, <3>2, <3>3, ListedIs, ScanIs
  <2> QED
    BY <2>1, <2>2, <2>3
<1> QED
  BY <1>0, <1>2, PassFrame DEF CacheTypeOK

LEMMA EndMaintenanceMap == ASSUME MapInv, EndMaintenance PROVE MapInv'
<1>0. /\ CacheTypeOK /\ prune' = Idle
      /\ wpc' = (IF prune.by \in Ids
                   THEN [wpc EXCEPT ![prune.by] = IF prune.stage = "full" THEN "failing"
                                                  ELSE "writing"]
                   ELSE wpc)
      /\ UNCHANGED <<entry, obj, row, file, source, mount, now, upc, ukey, uobj, astray>>
  BY DEF MapInv, EndMaintenance, clock, users
<1>1. PruneOK'
  <2>1. /\ prune' \in [stage : {"idle", "next", "scan", "drop", "full"}, plan : {prune'.plan},
                  todo : Seq(Items), left : {prune'.left}, need : {prune'.need},
                  by : Ids \cup {None}, victim : Ids \cup {None}]
        /\ prune'.stage = "idle" /\ prune'.by = None /\ prune'.victim = None
    BY <1>0, IdleIs
  <2> QED
    BY <2>1, NothingAssumption DEF PruneOK
<1>2. prune.by \in Ids => Live(prune.by)
  BY DEF MapInv, PruneOK, WorkersOK
<1>3. /\ wpc' \in [Ids -> {"none", "begin", "waiting", "pruning", "writing", "failing",
                        "finishing", "closing", "deleting"}]
      /\ \A i \in Ids : wpc'[i] = wpc[i] \/ Live(i)
  BY <1>0, <1>2 DEF CacheTypeOK
<1> QED
  BY <1>0, <1>1, <1>3, PassFrame

\* The row that is next in the pass, and its entry if it is in the map.
LEMMA NextHas ==
    ASSUME MapInv, prune.stage \in {"scan", "drop"}, NEW k, k = Head(prune.todo).key
    PROVE  k \in Keys /\ entry[k] \in Ids \cup {None} /\ Tail(prune.todo) \in Seq(Items)
           /\ (entry[k] # None => entry[k] \in Ids /\ Live(entry[k]) /\ obj[entry[k]].key = k)
<1>1. prune.todo \in Seq(Items) /\ prune.todo # <<>>
  BY DEF MapInv, PruneOK
<1>2. Head(prune.todo) \in Items /\ Tail(prune.todo) \in Seq(Items)
  BY <1>1
<1>3. k \in Keys
  BY <1>2 DEF Items
<1> QED
  BY <1>2, <1>3 DEF MapInv, CacheTypeOK, MapIsLive

LEMMA PruneEntryMap == ASSUME MapInv, PruneEntry PROVE MapInv'
<1> DEFINE k == Head(prune.todo).key
           i == entry[k]
           victim == IF i # None /\ LastUser(i) THEN i ELSE None
<1>0. /\ CacheTypeOK /\ prune.stage = "scan"
      /\ prune' = [prune EXCEPT !.stage = "drop", !.victim = victim]
      /\ UNCHANGED <<source, mount, now, upc, ukey, uobj, wpc>>
  BY DEF MapInv, PruneEntry, clock, users
<1>1. k \in Keys /\ i \in Ids \cup {None} /\ (i # None => i \in Ids /\ Live(i) /\ obj[i].key = k)
  BY <1>0, NextHas
<1>2. prune \in [stage : {"idle", "next", "scan", "drop", "full"}, plan : {prune.plan},
                  todo : Seq(Items), left : {prune.left}, need : {prune.need},
                  by : Ids \cup {None}, victim : Ids \cup {None}]
      /\ prune.todo # <<>> /\ (prune.by \in Ids => wpc[prune.by] = "pruning")
  BY <1>0 DEF MapInv, PruneOK
<1>3. /\ prune' \in [stage : {"drop"}, plan : {prune.plan},
                  todo : Seq(Items), left : {prune.left}, need : {prune.need},
                  by : Ids \cup {None}, victim : Ids \cup {None}]
      /\ prune'.todo = prune.todo /\ prune'.by = prune.by /\ prune'.victim = victim
  <2>1. victim \in Ids \cup {None}
    BY <1>1
  <2> HIDE DEF victim
  <2> QED
    BY <1>0, <1>2, <2>1
<1>4. CASE i = None
  <2>1. UNCHANGED <<entry, obj, row, file, astray>> /\ prune'.victim = None
    BY <1>3, <1>4 DEF PruneEntry
  <2>2. PruneOK'
    BY <1>0, <1>2, <1>3, <2>1 DEF PruneOK
  <2> QED
    BY <1>0, <2>1, <2>2, PassFrame DEF CacheTypeOK
<1>5. CASE i # None
  <2> DEFINE decoding == obj[i].decoding
  <2>1. /\ CloseEntry(i, TRUE) /\ obj' = Unused(i) /\ astray' = (astray \/ InUse(i))
    BY <1>5 DEF PruneEntry
  <2>2. Changed(i, Less(i), obj[i].info, obj[i].ready, decoding) /\ decoding \in BOOLEAN
    BY <1>0, <1>1, <1>5, <2>1, LessIs, LiveIs
  <2>3. /\ entry' \in [Keys -> Ids \cup {None}] /\ row' \in [Keys -> Infos \cup {None}]
        /\ file' \in [Keys -> Encoded \cup {None}]
        /\ LastUser(i) => \A j \in Keys : entry'[j] # None => entry'[j] # i
    BY <1>1, <1>5, <2>1, CloseEntryIs
  <2>4. CacheTypeOK'
    BY <1>0, <1>3, <2>1, <2>2, <2>3 DEF CacheTypeOK, Changed
  <2>5. PruneOK'
    <3>1. victim # None => obj'[victim] # None /\ \A j \in Keys : entry'[j] # victim
      BY <1>1, <2>2, <2>3, NothingAssumption DEF Changed
    <3> HIDE DEF victim
    <3> QED
      BY <1>0, <1>2, <1>3, <3>1 DEF PruneOK
  <2> HIDE DEF i, k, victim, decoding
  <2>6. UsersOK' /\ WorkersOK' /\ PastOK' /\ MapIsLive'
    BY <1>0, <1>1, <1>5, <2>1, <2>2, ReleaseFrame
  <2> QED
    BY <2>4, <2>5, <2>6 DEF MapInv
<1> QED
  BY <1>4, <1>5

LEMMA PruneRowMap == ASSUME MapInv, PruneRow PROVE MapInv'
<1> DEFINE k == Head(prune.todo).key
           rest == Tail(prune.todo)
           done == rest = <<>> \/ Enough(Gained)
<1> PICK v : v = prune.victim
  OBVIOUS
<1>0. /\ CacheTypeOK /\ prune.stage = "drop" /\ (v # None => Destroyable(v))
      /\ obj' = (IF v = None THEN obj ELSE [obj EXCEPT ![v] = Gone])
      /\ row' = [row EXCEPT ![k] = None] /\ file' = [file EXCEPT ![k] = None]
      /\ prune' = [prune EXCEPT !.stage = IF done THEN "next" ELSE "scan",
                       !.plan = IF done THEN Tail(prune.plan) ELSE prune.plan,
                       !.todo = IF done THEN <<>> ELSE rest,
                       !.left = Gained, !.victim = None]
      /\ UNCHANGED <<entry, source, mount, now, upc, ukey, uobj, wpc, astray>>
  BY DEF MapInv, PruneRow, clock, users
<1>1. k \in Keys /\ rest \in Seq(Items)
  BY <1>0, NextHas
<1>2. prune \in [stage : {"idle", "next", "scan", "drop", "full"}, plan : {prune.plan},
                  todo : Seq(Items), left : {prune.left}, need : {prune.need},
                  by : Ids \cup {None}, victim : Ids \cup {None}]
      /\ (prune.by \in Ids => wpc[prune.by] = "pruning") /\ v \in Ids \cup {None}
      /\ (v # None => obj[v] # None /\ \A j \in Keys : entry[j] # v)
  BY <1>0 DEF MapInv, PruneOK
<1>3. PruneOK'
  <2> DEFINE stage == IF done THEN "next" ELSE "scan"
             plan  == IF done THEN Tail(prune.plan) ELSE prune.plan
             todo  == IF done THEN <<>> ELSE rest
             left  == Gained
  <2>1. /\ stage \in {"next", "scan"} /\ todo \in Seq(Items) /\ (stage = "scan" => todo # <<>>)
        /\ prune' = [prune EXCEPT !.stage = stage, !.plan = plan, !.todo = todo,
                                  !.left = left, !.victim = None]
    BY <1>0, <1>1
  <2> HIDE DEF stage, plan, todo, left
  <2>2. /\ prune' \in [stage : {"idle", "next", "scan", "drop", "full"}, plan : {plan},
                  todo : Seq(Items), left : {left}, need : {prune.need},
                  by : Ids \cup {None}, victim : Ids \cup {None}]
        /\ prune'.stage = stage /\ prune'.todo = todo /\ prune'.victim = None
        /\ prune'.by = prune.by
    BY <1>2, <2>1
  <2>3. prune'.plan = plan /\ prune'.left = left /\ prune'.need = prune.need
    BY <2>2
  <2> QED
    BY <1>0, <1>2, <2>1, <2>2, <2>3 DEF PruneOK
<1>4. /\ obj' \in [Ids -> Objects \cup {None, Gone}] /\ ObjectsKept
      /\ \A j \in Ids : j # v => obj'[j] = obj[j] /\ (Live(j)' <=> Live(j))
      /\ v \in Ids => obj'[v] = Gone /\ wpc[v] \in {"none", "begin"} /\ ~Live(v)'
  <2>1. CASE v = None
    BY <1>0, <2>1, SameObjects, NothingAssumption DEF CacheTypeOK
  <2>2. CASE v # None
    BY <1>0, <1>2, <2>2, Destroyed DEF Destroyable
  <2> QED
    BY <2>1, <2>2
<1>5. /\ row' \in [Keys -> Infos \cup {None}] /\ file' \in [Keys -> Encoded \cup {None}]
      /\ \A j \in Keys : row'[j] = row[j] \/ row'[j] = None
  BY <1>0, <1>1 DEF CacheTypeOK
<1> HIDE DEF k, rest
<1>6. CacheTypeOK'
  BY <1>0, <1>3, <1>4, <1>5 DEF CacheTypeOK, PruneOK
<1>7. \A j \in Keys : entry'[j] = None \/ (entry'[j] = entry[j] /\ obj'[entry[j]] # Gone)
  <2>1. \A j \in Keys : entry[j] = None \/ (entry[j] \in Ids /\ obj[entry[j]] # Gone)
    BY DEF MapInv, MapIsLive, CacheTypeOK, Live
  <2>2. \A j \in Keys : entry[j] # None => entry[j] # v
    BY <1>2
  <2> QED
    BY <1>0, <1>4, <2>1, <2>2
<1>8. \A j \in Ids : Live(j) /\ ~Live(j)' => wpc'[j] \in {"none", "begin"}
  BY <1>0, <1>4
<1>9. \A j \in Ids : Live(j)' => Live(j) /\ obj'[j] = obj[j]
  BY <1>4
<1>10. UsersOK' /\ WorkersOK' /\ PastOK' /\ MapIsLive'
  BY <1>0, <1>4, <1>5, <1>7, <1>8, <1>9, RestFrame
<1> QED
  BY <1>3, <1>6, <1>10 DEF MapInv

-----------------------------------------------------------------------------
(* The clock, the sources and the mounts. *)

LEMMA TickMap == ASSUME MapInv, Tick PROVE MapInv'
<1>0. /\ CacheTypeOK /\ now < MaxTime /\ now' = now + 1
      /\ UNCHANGED <<entry, obj, row, file, source, mount, upc, ukey, uobj, wpc, prune, astray>>
  BY DEF MapInv, Tick, users
<1>1. CacheTypeOK'
  BY <1>0, CacheAssumption DEF CacheTypeOK
<1>2. ObjectsKept /\ \A i \in Ids : Live(i)' <=> Live(i)
  BY <1>0, SameObjects
<1>3. \A k \in Keys : entry'[k] = None \/ (entry'[k] = entry[k] /\ obj'[entry[k]] # Gone)
  BY <1>0 DEF MapInv, MapIsLive, Live
<1> QED
  BY <1>0, <1>1, <1>2, <1>3, StepFrame

LEMMA TouchMap == ASSUME MapInv, NEW k \in Keys, Touch(k) PROVE MapInv'
<1>0. /\ CacheTypeOK /\ source' = [source EXCEPT ![k] = source[k] + 1]
      /\ UNCHANGED <<entry, obj, row, file, mount, now, upc, ukey, uobj, wpc, prune, astray>>
  BY DEF MapInv, Touch, users
<1>1. /\ source' \in [Keys -> Nat] /\ source \in [Keys -> Nat]
      /\ \A j \in Keys : source'[j] = source[j] \/ source'[j] = source[j] + 1
  BY <1>0 DEF CacheTypeOK
<1>2. CacheTypeOK'
  BY <1>0, <1>1 DEF CacheTypeOK
<1>3. ObjectsKept /\ \A i \in Ids : Live(i)' <=> Live(i)
  BY <1>0, SameObjects
<1>4. \A k2 \in Keys : entry'[k2] = None \/ (entry'[k2] = entry[k2] /\ obj'[entry[k2]] # Gone)
  BY <1>0 DEF MapInv, MapIsLive, Live
<1>5. PruneOK' /\ UsersOK' /\ WorkersOK' /\ MapIsLive'
  <2>1. PruneOK'
    BY <1>0, <1>3, PruneFrame
  <2>2. UsersOK'
    BY <1>0, <1>3, UsersFrame
  <2>3. WorkersOK'
    BY <1>0, <1>3 DEF MapInv, WorkersOK
  <2>4. MapIsLive'
    BY <1>3, <1>4, MapFrame
  <2> QED
    BY <2>1, <2>2, <2>3, <2>4
<1>6. PastOK'
  <2>1. ASSUME NEW j \in Keys, NEW of \in Origins \cup {None}, Past(of, j)
        PROVE  of # None => of.source <= source'[j] /\ \E m \in 1..mount' : of.settings = Mounts[m]
    <3>1. of # None => of.source \in Nat
      BY DEF Origins
    <3> QED
      BY <1>0, <1>1, <2>1, <3>1 DEF Past
  <2>2. \A j \in Keys : row'[j] # None => row'[j].of \in Origins \cup {None} /\ Past(row'[j].of, j)
    BY <1>0, InfoIs DEF CacheTypeOK, MapInv, PastOK
  <2>3. \A i \in Ids : Live(i)' =>
          /\ obj'[i].key \in Keys /\ obj'[i].info.of \in Origins \cup {None}
          /\ Past(obj'[i].info.of, obj'[i].key)
    BY <1>0, <1>3, LiveIs, InfoIs DEF MapInv, PastOK
  <2> QED
    BY <2>1, <2>2, <2>3 DEF PastOK, Past
<1> QED
  BY <1>2, <1>5, <1>6 DEF MapInv

LEMMA RemountMap == ASSUME MapInv, Remount PROVE MapInv'
<1>0. /\ CacheTypeOK /\ mount < Len(Mounts) /\ mount' = mount + 1
      /\ entry' = [k \in Keys |-> None] /\ obj' = [i \in Ids |-> None]
      /\ \/ ClearIndex
         \/ /\ row' = row
            /\ file' = [k \in Keys |-> IF file[k] = None THEN None
                                       ELSE [file[k] EXCEPT !.by = None]]
      /\ upc' = [u \in Users |-> "idle"] /\ ukey' = [u \in Users |-> None]
      /\ uobj' = [u \in Users |-> None] /\ wpc' = [i \in Ids |-> "none"]
      /\ prune' = Idle /\ UNCHANGED <<source, now, astray>>
  BY DEF MapInv, Remount
<1>1. \A k \in Keys : file[k] # None => [file[k] EXCEPT !.by = None] \in Encoded
  <2> SUFFICES ASSUME NEW k \in Keys, file[k] # None PROVE [file[k] EXCEPT !.by = None] \in Encoded
    OBVIOUS
  <2>1. file[k] \in Encoded
    BY <1>0 DEF CacheTypeOK
  <2> QED
    BY <2>1 DEF Encoded
<1>2. file' \in [Keys -> Encoded \cup {None}]
  <2>1. CASE ClearIndex
    BY <1>1, <2>1 DEF ClearIndex
  <2>2. CASE file' = [k \in Keys |-> IF file[k] = None THEN None
                                     ELSE [file[k] EXCEPT !.by = None]]
    BY <1>1, <2>2
  <2> QED
    BY <1>0, <2>1, <2>2
<1>3. row' \in [Keys -> Infos \cup {None}] /\ \A k \in Keys : row'[k] \in {None, row[k]}
  BY <1>0 DEF CacheTypeOK, ClearIndex
<1>4. mount \in Nat /\ mount' \in 1..Len(Mounts)
  <2>1. Len(Mounts) \in Nat
    BY CacheAssumption
  <2> QED
    BY <1>0, <2>1 DEF CacheTypeOK
<1>5. CacheTypeOK'
  <2>1. prune'.stage = "idle"
    BY <1>0, IdleIs
  <2> QED
    BY <1>0, <1>2, <1>3, <1>4, <2>1 DEF CacheTypeOK
<1>6. PruneOK'
  <2>1. /\ prune' \in [stage : {"idle", "next", "scan", "drop", "full"}, plan : {prune'.plan},
                  todo : Seq(Items), left : {prune'.left}, need : {prune'.need},
                  by : Ids \cup {None}, victim : Ids \cup {None}]
        /\ prune'.stage = "idle" /\ prune'.by = None /\ prune'.victim = None
    BY <1>0, IdleIs
  <2> QED
    BY <2>1, NothingAssumption DEF PruneOK
<1>7. UsersOK' /\ WorkersOK' /\ MapIsLive'
  BY <1>0 DEF UsersOK, UserOK, WorkersOK, MapIsLive
<1>8. PastOK'
  <2>1. \A i \in Ids : ~Live(i)'
    BY <1>0 DEF Live
  <2>2. ASSUME NEW k \in Keys, NEW of, Past(of, k)
        PROVE  of # None => of.source <= source'[k] /\ \E m \in 1..mount' : of.settings = Mounts[m]
    <3>1. 1..mount \subseteq 1..mount'
      BY <1>0, <1>4
    <3> QED
      BY <1>0, <2>2, <3>1 DEF Past
  <2>3. \A k \in Keys : row'[k] # None => Past(row'[k].of, k)
    BY <1>3 DEF MapInv, PastOK
  <2> QED
    BY <2>1, <2>2, <2>3 DEF PastOK, Past
<1> QED
  BY <1>5, <1>6, <1>7, <1>8 DEF MapInv

-----------------------------------------------------------------------------
LEMMA InitMap == CacheInit => MapInv
<1> SUFFICES ASSUME CacheInit PROVE MapInv
  OBVIOUS
<1>1. 1 \in 1..Len(Mounts) /\ 1 \in 1..MaxTime
  BY CacheAssumption
<1>2. CacheTypeOK
  BY <1>1, IdleIs DEF CacheInit, CacheTypeOK
<1>3. PruneOK
  <2>1. /\ prune \in [stage : {"idle", "next", "scan", "drop", "full"}, plan : {prune.plan},
                  todo : Seq(Items), left : {prune.left}, need : {prune.need},
                  by : Ids \cup {None}, victim : Ids \cup {None}]
        /\ prune.stage = "idle" /\ prune.by = None /\ prune.victim = None
    BY IdleIs DEF CacheInit
  <2> QED
    BY <2>1, NothingAssumption DEF PruneOK
<1>4. UsersOK /\ WorkersOK /\ PastOK /\ MapIsLive
  BY DEF CacheInit, UsersOK, UserOK, WorkersOK, PastOK, MapIsLive, Live
<1> QED
  BY <1>2, <1>3, <1>4 DEF MapInv

LEMMA StepMap == MapInv /\ [CacheNext]_cacheVars => MapInv'
<1> SUFFICES ASSUME MapInv, [CacheNext]_cacheVars PROVE MapInv'
  OBVIOUS
<1>1. ASSUME NEW u \in Users, NEW k \in Keys, Find(u, k) PROVE MapInv'
  BY <1>1, FindMap
<1>2. ASSUME NEW u \in Users, Create(u) PROVE MapInv'
  BY <1>2, CreateMap
<1>3. ASSUME NEW u \in Users, ReadRow(u) PROVE MapInv'
  BY <1>3, ReadRowMap
<1>4. ASSUME NEW u \in Users, Stamp(u) PROVE MapInv'
  BY <1>4, StampMap
<1>5. ASSUME NEW u \in Users, Check(u) PROVE MapInv'
  BY <1>5, CheckMap
<1>6. ASSUME NEW u \in Users, Started(u) PROVE MapInv'
  BY <1>6, StartedMap
<1>7. ASSUME NEW u \in Users, Use(u) PROVE MapInv'
  BY <1>7, UseMap
<1>8. ASSUME NEW u \in Users, NEW b \in BOOLEAN, Enter(u, b) PROVE MapInv'
  BY <1>8, EnterMap
<1>9. ASSUME NEW u \in Users, NEW b \in BOOLEAN, Close(u, b) PROVE MapInv'
  BY <1>9, CloseMap
<1>10. ASSUME NEW i \in Ids, Begin(i) PROVE MapInv'
  BY <1>10, BeginMap
<1>11. ASSUME NEW i \in Ids, Write(i) PROVE MapInv'
  BY <1>11, WriteMap
<1>12. ASSUME NEW i \in Ids, Finish(i) PROVE MapInv'
  BY <1>12, FinishMap
<1>13. ASSUME NEW i \in Ids, EndWork(i) PROVE MapInv'
  BY <1>13, EndWorkMap
<1>14. ASSUME NEW i \in Ids, NEW b \in BOOLEAN, Give(i, b) PROVE MapInv'
  BY <1>14, GiveMap
<1>15. ASSUME NEW by \in Ids \cup {None}, Maintain(by) PROVE MapInv'
  BY <1>15, MaintainMap
<1>16. ASSUME NEW k \in Keys, Touch(k) PROVE MapInv'
  BY <1>16, TouchMap
<1>17. CASE UNCHANGED cacheVars
  <2>1. UNCHANGED <<entry, obj, row, file, source, mount, now, upc, ukey, uobj, wpc, prune, astray>>
    BY <1>17 DEF cacheVars
  <2>2. PruneOK'
    BY <2>1, SameObjects, PruneFrame
  <2> QED
    BY <2>1, <2>2, PassFrame DEF MapInv, CacheTypeOK
<1> QED
  BY <1>1, <1>2, <1>3, <1>4, <1>5, <1>6, <1>7, <1>8, <1>9, <1>10, <1>11, <1>12, <1>13, <1>14,
     <1>15, <1>16, <1>17, StartPassMap, PruneEntryMap, PruneRowMap, EndMaintenanceMap, TickMap,
     RemountMap DEF CacheNext

\* The map of entries never leads to an entry that was destroyed, nor to one
\* of another file (Cache::openio, delete_entry, prune_*), whatever opens,
\* closes, workers, pruning and remounts do.
THEOREM MapIsLiveHolds == CacheSpec => []MapIsLive
<1>1. CacheSpec => []MapInv
  BY InitMap, StepMap, PTL DEF CacheSpec
<1>2. MapInv => MapIsLive
  BY DEF MapInv
<1> QED
  BY <1>1, <1>2, PTL

-----------------------------------------------------------------------------
(***************************************************************************)
(* What is served from the cache is what its index says of it, for any     *)
(* number of files, threads, entries and remounts.  The argument: an entry *)
(* counts the threads that are inside and its worker, so the thread that   *)
(* finds the count at zero and reads the row is alone with the entry; an   *)
(* entry being encoded says "none", and its row promises nothing; a row    *)
(* promises today's encoding only where the file keeps it.                 *)
(***************************************************************************)
Entered == {"reading", "sizing", "stamping", "checking", "starting", "open"}
Active  == {"begin", "waiting", "pruning", "writing", "finishing", "failing"}

\* The threads that hold a reference, and whether the worker does.
Inside(i)   == {u \in Users : uobj[u] = i /\ upc[u] \in Entered}
Holds(i)    == IF wpc[i] \in {"none", "begin"} THEN 0 ELSE 1
Some(i, S)  == \E u \in Users : uobj[u] = i /\ upc[u] \in S
Settled(i)  == wpc[i] # "none" \/ Some(i, {"starting", "open"})
Reading(i)  == obj[i].refs = 0 \/ Some(i, {"reading", "sizing"})

\* The file an encoding tells of is gone, or is that encoding and complete.
Valid(info, k) ==
    info.result = "success" /\ file[k] # None => file[k].whole /\ file[k].of = info.of
\* The row would be taken for an encoding of today's source and settings.
Promise(k) == row[k] # None /\ row[k].result = "success" /\ row[k].of = Version(k)

\* The count of references is exact (m_ref_count).
Counted(i) == obj[i].refs = Cardinality(Inside(i)) + Holds(i)
\* The thread that reads the row, or the size of the file, is the only one.
ReadsAlone(i) ==
    \A u \in Users : uobj[u] = i /\ upc[u] \in {"reading", "sizing"} =>
      wpc[i] = "none" /\ Inside(i) = {u}
\* A worker without its reference is awaited by the thread that started it.
HasStarter(i) == wpc[i] = "begin" => Some(i, {"starting"})
\* What an entry says while it is encoded, and whose the file is at the end.
Encoding(i) ==
    /\ wpc[i] \in Active => obj[i].info.result = "none"
    /\ wpc[i] # "none" => obj[i].ready
    /\ obj[i].decoding => wpc[i] \in Active
    /\ wpc[i] = "finishing" /\ file[obj[i].key] # None =>
         file[obj[i].key].by = i /\ file[obj[i].key].of = obj[i].info.of
\* An entry that passed the check is of this mount.
Today(i) ==
    Settled(i) => obj[i].info.of # None /\ obj[i].info.of.settings = Mounts[mount]
\* It tells the truth of the file, as does any that tells of today's source.
InfoTrue(i) ==
    Settled(i) \/ obj[i].info.of = Version(obj[i].key) => Valid(obj[i].info, obj[i].key)
\* A row that promises an encoding is the entry's once the entry has read it.
RowKept(i) ==
    ~Reading(i) /\ Promise(obj[i].key) =>
      obj[i].info.result = "success" /\ obj[i].info.of = Version(obj[i].key)

Sound(i) ==
    Live(i) => /\ Counted(i) /\ ReadsAlone(i) /\ HasStarter(i) /\ Encoding(i)
               /\ Today(i) /\ InfoTrue(i) /\ RowKept(i)
\* A row that promises an encoding tells the truth of the file.
RowTrue(k) == Promise(k) => Valid(row[k], k)
\* A file has one entry.
Unique ==
    \A i, j \in Ids : Live(i) /\ Live(j) /\ obj[i].key = obj[j].key => i = j

Core == Unique /\ (\A i \in Ids : Sound(i)) /\ \A k \in Keys : RowTrue(k)

-----------------------------------------------------------------------------
(* Counting the threads that hold a reference. *)

LEMMA InsideIs ==
    ASSUME NEW i
    PROVE  /\ IsFiniteSet(Inside(i)) /\ Cardinality(Inside(i)) \in Nat
           /\ Cardinality(Inside(i)) = 0 <=> Inside(i) = {}
<1>1. Inside(i) \in SUBSET Users
  BY DEF Inside
<1>2. IsFiniteSet(Inside(i))
  BY <1>1, CacheAssumption, FS_Subset
<1> QED
  BY <1>2, FS_CardinalityType, FS_EmptySet

LEMMA OneMore ==
    ASSUME NEW i, NEW u \in Users, u \notin Inside(i), Inside(i)' = Inside(i) \cup {u}
    PROVE  Cardinality(Inside(i))' = Cardinality(Inside(i)) + 1
BY InsideIs, FS_AddElement

LEMMA OneLess ==
    ASSUME NEW i, NEW u \in Users, u \in Inside(i), Inside(i)' = Inside(i) \ {u}
    PROVE  /\ Cardinality(Inside(i)) > 0
           /\ Cardinality(Inside(i))' = Cardinality(Inside(i)) - 1
BY InsideIs, FS_RemoveElement

\* An entry somebody works on has a reference.
LEMMA Referenced ==
    ASSUME CacheTypeOK, NEW i \in Ids, Live(i), Counted(i),
           Inside(i) # {} \/ wpc[i] \notin {"none", "begin"}
    PROVE  obj[i].refs > 0
<1>1. Cardinality(Inside(i)) \in Nat /\ (Inside(i) # {} => Cardinality(Inside(i)) > 0)
  BY InsideIs
<1>2. Holds(i) \in Nat /\ (wpc[i] \notin {"none", "begin"} => Holds(i) = 1)
  BY DEF Holds
<1> QED
  BY <1>1, <1>2 DEF Counted

LEMMA NobodyIn ==
    ASSUME CacheTypeOK, NEW i \in Ids, Live(i), Counted(i), HasStarter(i), obj[i].refs = 0
    PROVE  Inside(i) = {} /\ wpc[i] = "none"
<1>1. Inside(i) = {} /\ wpc[i] \in {"none", "begin"}
  BY Referenced
<1>2. wpc[i] = "begin" => Inside(i) # {}
  BY DEF HasStarter, Some, Inside, Entered
<1> QED
  BY <1>1, <1>2

\* A thread inside means no other is reading the row.
LEMMA NoReader ==
    ASSUME NEW i \in Ids, ReadsAlone(i),
           \/ wpc[i] # "none"
           \/ \E u \in Users : u \in Inside(i) /\ upc[u] \notin {"reading", "sizing"}
    PROVE  ~Some(i, {"reading", "sizing"})
BY DEF ReadsAlone, Some

-----------------------------------------------------------------------------
(* What a step leaves alone. *)

Same(u) == upc'[u] = upc[u] /\ uobj'[u] = uobj[u]
\* The thread neither held nor holds a reference to j.
Elsewhere(u, j) ==
    /\ uobj[u] # j \/ upc[u] \notin Entered
    /\ uobj'[u] # j \/ upc'[u] \notin Entered

LEMMA SomeFrame ==
    ASSUME NEW j, \A u \in Users : Same(u) \/ Elsewhere(u, j)
    PROVE  /\ Inside(j)' = Inside(j)
           /\ \A S \in SUBSET Entered : Some(j, S)' <=> Some(j, S)
<1>1. \A u \in Users : uobj'[u] = j /\ upc'[u] \in Entered <=> uobj[u] = j /\ upc[u] \in Entered
  BY DEF Same, Elsewhere
<1>2. Inside(j)' = {u \in Users : uobj'[u] = j /\ upc'[u] \in Entered}
  BY DEF Inside
<1>3. ASSUME NEW S \in SUBSET Entered
      PROVE  Some(j, S)' <=> Some(j, S)
  <2>1. \A u \in Users : uobj'[u] = j /\ upc'[u] \in S <=> uobj[u] = j /\ upc[u] \in S
    BY DEF Same, Elsewhere
  <2>2. Some(j, S)' <=> \E u \in Users : uobj'[u] = j /\ upc'[u] \in S
    BY DEF Some
  <2> QED
    BY <2>1, <2>2 DEF Some
<1> QED
  BY <1>1, <1>2, <1>3 DEF Inside

\* Moves of a worker the cache does not see.
WorkerSame(j) ==
    \/ wpc'[j] = wpc[j]
    \/ {wpc[j], wpc'[j]} \subseteq {"waiting", "pruning", "writing", "failing"}

LEMMA SoundFrame ==
    ASSUME NEW j \in Ids, Sound(j), obj'[j] = obj[j], WorkerSame(j),
           \A u \in Users : Same(u) \/ Elsewhere(u, j), UNCHANGED <<source, mount>>,
           Live(j) => /\ row'[obj[j].key] \in {row[obj[j].key], None}
                      /\ file'[obj[j].key] \in {file[obj[j].key], None}
    PROVE  Sound(j)'
<1> SUFFICES ASSUME Live(j)'
             PROVE  Counted(j)' /\ ReadsAlone(j)' /\ HasStarter(j)' /\ Encoding(j)'
                    /\ Today(j)' /\ InfoTrue(j)' /\ RowKept(j)'
  BY DEF Sound
<1>0. /\ Live(j) /\ Counted(j) /\ ReadsAlone(j) /\ HasStarter(j) /\ Encoding(j)
      /\ Today(j) /\ InfoTrue(j) /\ RowKept(j)
  BY DEF Live, Sound
<1>1. /\ Inside(j)' = Inside(j)
      /\ Some(j, {"starting", "open"})' <=> Some(j, {"starting", "open"})
      /\ Some(j, {"reading", "sizing"})' <=> Some(j, {"reading", "sizing"})
      /\ Some(j, {"starting"})' <=> Some(j, {"starting"})
  BY SomeFrame DEF Entered
<1>2. /\ wpc'[j] = "none" <=> wpc[j] = "none"
      /\ wpc'[j] = "begin" <=> wpc[j] = "begin"
      /\ wpc'[j] = "finishing" <=> wpc[j] = "finishing"
      /\ wpc'[j] \in Active <=> wpc[j] \in Active
  BY DEF WorkerSame, Active
<1> DEFINE k == obj[j].key
           v == Version(k)
<1>3. /\ Version(k)' = v
      /\ Promise(k)' => Promise(k)
      /\ Valid(obj[j].info, k) => Valid(obj[j].info, k)'
  BY <1>0 DEF Version, Promise, Valid
<1>4. (Settled(j)' <=> Settled(j)) /\ (Reading(j)' <=> Reading(j))
  BY <1>1, <1>2 DEF Settled, Reading
<1>5. Counted(j)'
  BY <1>0, <1>1, <1>2 DEF Counted, Holds
<1>6. ReadsAlone(j)'
  <2>1. \A u \in Users : uobj'[u] = j /\ upc'[u] \in {"reading", "sizing"} =>
          uobj[u] = j /\ upc[u] \in {"reading", "sizing"}
    BY DEF Same, Elsewhere, Entered
  <2> QED
    BY <1>0, <1>1, <1>2, <2>1 DEF ReadsAlone
<1>7. HasStarter(j)' /\ Encoding(j)'
  BY <1>0, <1>1, <1>2 DEF HasStarter, Encoding
<1>8. Today(j)' /\ InfoTrue(j)' /\ RowKept(j)'
  BY <1>0, <1>3, <1>4 DEF Today, InfoTrue, RowKept
<1> QED
  BY <1>5, <1>6, <1>7, <1>8

LEMMA RowFrame ==
    ASSUME NEW k \in Keys, RowTrue(k), UNCHANGED <<source, mount>>,
           row'[k] \in {row[k], None}, file'[k] \in {file[k], None}
    PROVE  RowTrue(k)'
BY DEF RowTrue, Promise, Valid, Version

LEMMA UniqueFrame ==
    ASSUME Unique, \A j \in Ids : Live(j)' => Live(j) /\ obj'[j].key = obj[j].key
    PROVE  Unique'
BY DEF Unique, Live

\* A step on entry i and on the row and file of k, which are of nobody else.
LEMMA CoreStep ==
    ASSUME MapInv, Core, NEW i \in Ids, NEW k \in Keys, UNCHANGED <<source, mount>>,
           \A j \in Ids : Live(j) /\ obj[j].key = k => j = i,
           \A j \in Ids : j # i => obj'[j] = obj[j] /\ WorkerSame(j)
                                   /\ \A u \in Users : Same(u) \/ Elsewhere(u, j),
           \A n \in Keys : n # k => row'[n] \in {row[n], None} /\ file'[n] \in {file[n], None},
           Live(i)' => obj'[i].key = k,
           Sound(i)', RowTrue(k)'
    PROVE  Core'
<1>1. \A j \in Ids : Sound(j)'
  <2> SUFFICES ASSUME NEW j \in Ids, j # i PROVE Sound(j)'
    OBVIOUS
  <2>1. Live(j) => obj[j].key # k /\ obj[j].key \in Keys
    BY LiveIs DEF MapInv
  <2>2. Sound(j)
    BY DEF Core
  <2>3. Live(j) => /\ row'[obj[j].key] \in {row[obj[j].key], None}
                   /\ file'[obj[j].key] \in {file[obj[j].key], None}
    BY <2>1
  <2> QED
    BY <2>2, <2>3, SoundFrame
<1>2. \A n \in Keys : RowTrue(n)'
  <2> SUFFICES ASSUME NEW n \in Keys, n # k PROVE RowTrue(n)'
    OBVIOUS
  <2> QED
    BY RowFrame DEF Core
<1>3. Unique'
  <2>1. \A j \in Ids : j # i => (Live(j)' <=> Live(j)) /\ obj'[j] = obj[j]
    BY DEF Live
  <2> SUFFICES ASSUME NEW j \in Ids, NEW l \in Ids, Live(j)', Live(l)', obj'[j].key = obj'[l].key,
                      j # l
               PROVE  FALSE
    BY DEF Unique
  <2>2. CASE j # i /\ l # i
    BY <2>1, <2>2 DEF Core, Unique
  <2>3. CASE j = i
    BY <2>1, <2>3
  <2>4. CASE l = i
    BY <2>1, <2>4
  <2> QED
    BY <2>2, <2>3, <2>4
<1> QED
  BY <1>1, <1>2, <1>3 DEF Core

\* A step of a thread that keeps its reference.
LEMMA Moves ==
    ASSUME NEW u \in Users, NEW i, uobj[u] = i, uobj'[u] = i,
           \A v \in Users : v # u => Same(v), upc[u] \in Entered, upc'[u] \in Entered
    PROVE  /\ Inside(i)' = Inside(i) /\ u \in Inside(i)
           /\ \A S \in SUBSET Entered :
                Some(i, S)' <=> \/ upc'[u] \in S
                                \/ \E v \in Users \ {u} : uobj[v] = i /\ upc[v] \in S
           /\ \A S \in SUBSET Entered :
                Some(i, S) <=> \/ upc[u] \in S
                               \/ \E v \in Users \ {u} : uobj[v] = i /\ upc[v] \in S
<1>1. \A v \in Users : uobj'[v] = i /\ upc'[v] \in Entered <=> uobj[v] = i /\ upc[v] \in Entered
  BY DEF Same
<1>2. Inside(i)' = {v \in Users : uobj'[v] = i /\ upc'[v] \in Entered}
  BY DEF Inside
<1>3. ASSUME NEW S \in SUBSET Entered
      PROVE  Some(i, S)' <=> \/ upc'[u] \in S
                             \/ \E v \in Users \ {u} : uobj[v] = i /\ upc[v] \in S
  <2>1. \A v \in Users \ {u} : uobj'[v] = i /\ upc'[v] \in S <=> uobj[v] = i /\ upc[v] \in S
    BY DEF Same
  <2>2. Some(i, S)' <=> \E v \in Users : uobj'[v] = i /\ upc'[v] \in S
    BY DEF Some
  <2> QED
    BY <2>1, <2>2
<1>4. \A S \in SUBSET Entered :
        Some(i, S) <=> \/ upc[u] \in S
                       \/ \E v \in Users \ {u} : uobj[v] = i /\ upc[v] \in S
  BY DEF Some
<1> QED
  BY <1>1, <1>2, <1>3, <1>4 DEF Inside

\* Nobody reads the row of an entry another thread is in.
LEMMA QuietAfter ==
    ASSUME NEW u \in Users, NEW i, ReadsAlone(i), uobj[u] = i, uobj'[u] = i,
           \A v \in Users : v # u => Same(v), upc[u] \in Entered,
           upc'[u] \in Entered \ {"reading", "sizing"}
    PROVE  ReadsAlone(i)' /\ ~Some(i, {"reading", "sizing"})'
<1>1. u \in Inside(i)
  BY DEF Inside
<1>2. \A v \in Users : uobj'[v] = i => upc'[v] \notin {"reading", "sizing"}
  BY <1>1 DEF ReadsAlone, Same
<1> QED
  BY <1>2 DEF ReadsAlone, Some

LEMMA VersionSame ==
    ASSUME UNCHANGED <<source, mount>>, NEW k
    PROVE  Version(k)' = Version(k)
BY DEF Version

\* Looking an entry up, or making a new one, changes no row and no file.
LEMMA FindCore ==
    ASSUME MapInv, Core, NEW u \in Users, NEW k \in Keys, Find(u, k) PROVE Core'
<1>0. /\ CacheTypeOK /\ upc[u] = "idle" /\ upc'[u] \in {"creating", "found"}
      /\ \A v \in Users : v # u => Same(v)
      /\ UNCHANGED <<obj, row, file, source, mount, wpc>>
  BY DEF MapInv, Find, clock, CacheTypeOK, Same
<1>1. \A j \in Ids : WorkerSame(j) /\ \A v \in Users : Same(v) \/ Elsewhere(v, j)
  BY <1>0 DEF WorkerSame, Elsewhere, Entered
<1>2. \A j \in Ids : Sound(j)'
  BY <1>0, <1>1, SoundFrame DEF Core
<1>3. \A n \in Keys : RowTrue(n)'
  BY <1>0, RowFrame DEF Core
<1>4. Unique'
  BY <1>0, UniqueFrame DEF Core, Live
<1> QED
  BY <1>2, <1>3, <1>4 DEF Core

LEMMA CreateCore ==
    ASSUME MapInv, MapInv', Core, ~astray', NEW u \in Users, Create(u) PROVE Core'
<1>2. PICK k \in Keys : k = ukey[u]
  BY DEF Create, MapInv, UsersOK, UserOK
<1>0. /\ CacheTypeOK /\ upc[u] = "creating" /\ upc'[u] = "found"
      /\ \A v \in Users : v # u => Same(v)
      /\ UNCHANGED <<row, file, source, mount, wpc, now>>
      /\ ~\E j \in Ids : Live(j) /\ obj[j].key = k
  <2>1. CacheTypeOK /\ UNCHANGED <<row, file, source, mount, wpc, now>>
    BY DEF MapInv, Create, clock
  <2>2. /\ upc[u] = "creating" /\ upc' = [upc EXCEPT ![u] = "found"] /\ ukey' = ukey
        /\ uobj' = [uobj EXCEPT ![u] = CHOOSE j \in Ids : obj[j] = None]
    BY DEF Create
  <2>3. upc'[u] = "found" /\ \A v \in Users : v # u => Same(v)
    BY <2>1, <2>2 DEF CacheTypeOK, Same
  <2>4. ~\E j \in Ids : Live(j) /\ obj[j].key = k
    BY <1>2 DEF Create
  <2> QED
    BY <2>1, <2>2, <2>3, <2>4
<1>1. PICK i \in Ids : obj[i] = None /\ obj' = [obj EXCEPT ![i] = Fresh(k)] /\ uobj'[u] = i
  <2> DEFINE i == CHOOSE j \in Ids : obj[j] = None
  <2>1. i \in Ids /\ obj[i] = None
    BY DEF Create
  <2>2. obj' = [obj EXCEPT ![i] = Fresh(k)] /\ uobj' = [uobj EXCEPT ![u] = i]
    BY <1>2 DEF Create
  <2> HIDE DEF i
  <2> QED
    BY <1>0, <2>1, <2>2 DEF CacheTypeOK
<1>3. obj'[i] = Fresh(k) /\ \A j \in Ids : j # i => obj'[j] = obj[j]
  BY <1>0, <1>1 DEF CacheTypeOK
<1>4. /\ obj'[i].key = k /\ obj'[i].refs = 0 /\ obj'[i].ready = FALSE /\ obj'[i].decoding = FALSE
      /\ obj'[i].info.result = "none"
  BY <1>3 DEF Fresh, Cleared
<1>5. wpc'[i] = "none"
  BY <1>0, <1>1 DEF MapInv, WorkersOK
<1>6. \A v \in Users : ~(uobj'[v] = i /\ upc'[v] \in Entered)
  <2>1. \A v \in Users : upc[v] \in Entered => obj[uobj[v]] # None
    BY DEF MapInv, UsersOK, UserOK, Entered
  <2> QED
    BY <1>0, <1>1, <2>1 DEF Same, Entered
<1>7. Sound(i)'
  <2>1. Inside(i)' = {} /\ Cardinality(Inside(i))' = 0 /\ Holds(i)' = 0
    <3>1. Inside(i)' = {}
      BY <1>6 DEF Inside
    <3> QED
      BY <1>5, <3>1, FS_EmptySet DEF Holds
  <2>2. Counted(i)'
    BY <1>4, <2>1 DEF Counted
  <2>3. ReadsAlone(i)' /\ HasStarter(i)' /\ Encoding(i)'
    BY <1>4, <1>5, <1>6 DEF ReadsAlone, HasStarter, Encoding, Entered, Active
  <2>4. ~Settled(i)' /\ Reading(i)'
    BY <1>4, <1>5, <1>6 DEF Settled, Some, Entered, Reading
  <2>5. Today(i)' /\ InfoTrue(i)' /\ RowKept(i)'
    BY <1>4, <2>4 DEF Today, InfoTrue, RowKept, Valid
  <2> QED
    BY <2>2, <2>3, <2>5 DEF Sound
<1>8. RowTrue(k)'
  BY <1>0, <1>2, RowFrame DEF Core
<1>9. \A j \in Ids : j # i => /\ obj'[j] = obj[j] /\ WorkerSame(j)
                              /\ \A v \in Users : Same(v) \/ Elsewhere(v, j)
  BY <1>0, <1>1, <1>3 DEF WorkerSame, Elsewhere, Entered
<1> QED
  BY <1>0, <1>2, <1>4, <1>7, <1>8, <1>9, CoreStep

\* A step of a thread on its own entry, and on its row and file.
LEMMA ThreadCore ==
    ASSUME MapInv, Core, NEW u \in Users, NEW i \in Ids, NEW k \in Keys,
           Live(i), obj[i].key = k, uobj[u] = i, uobj'[u] \in {i, None},
           \A v \in Users : v # u => Same(v), UNCHANGED <<source, mount>>,
           \A j \in Ids : j # i => obj'[j] = obj[j] /\ wpc'[j] = wpc[j],
           \A n \in Keys : n # k => row'[n] = row[n] /\ file'[n] = file[n],
           Live(i)' => obj'[i].key = k, Sound(i)', RowTrue(k)'
    PROVE  Core'
<1>1. \A j \in Ids : Live(j) /\ obj[j].key = k => j = i
  BY DEF Core, Unique
<1>2. \A j \in Ids : j # i => obj'[j] = obj[j] /\ WorkerSame(j)
                              /\ \A v \in Users : Same(v) \/ Elsewhere(v, j)
  BY NothingAssumption DEF WorkerSame, Elsewhere
<1> QED
  BY <1>1, <1>2, CoreStep

-----------------------------------------------------------------------------
(* The steps of threads. *)

LEMMA EnterCore ==
    ASSUME MapInv, Core, NEW u \in Users, NEW create \in BOOLEAN, Enter(u, create)
    PROVE  Core'
<1>1. PICK i \in Ids : i = uobj[u]
  BY UserHas DEF Enter
<1>2. PICK k \in Keys : k = ukey[u]
  BY UserHas DEF Enter
<1>0. /\ CacheTypeOK /\ upc[u] = "found" /\ uobj' = uobj /\ EntryFree(i)
      /\ \A v \in Users : v # u => Same(v)
      /\ UNCHANGED <<row, file, source, mount, wpc>>
  BY <1>1 DEF MapInv, Enter, clock, CacheTypeOK, Same
<1>3. CASE obj[i] = Gone
  <2>1. UNCHANGED obj /\ upc'[u] = "lost"
    BY <1>0, <1>1, <1>3 DEF Enter, CacheTypeOK
  <2>2. \A j \in Ids : WorkerSame(j) /\ \A v \in Users : Same(v) \/ Elsewhere(v, j)
    BY <1>0, <2>1 DEF WorkerSame, Elsewhere, Entered
  <2>3. \A j \in Ids : Sound(j)'
    BY <1>0, <2>1, <2>2, SoundFrame DEF Core
  <2>4. \A n \in Keys : RowTrue(n)'
    BY <1>0, RowFrame DEF Core
  <2>5. Unique'
    BY <2>1, UniqueFrame DEF Core, Live
  <2> QED
    BY <2>3, <2>4, <2>5 DEF Core
<1>4. CASE obj[i] # Gone
  <2>1. Live(i) /\ obj[i].key = k
    BY <1>0, <1>1, <1>2, <1>4, UserHas
  <2>2. Changed(i, obj[i].refs + 1, obj[i].info, obj[i].ready, obj[i].decoding)
    BY <1>0, <1>1, <2>1, EnterEffect
  <2>3. /\ obj'[i].key = k /\ obj'[i].refs = obj[i].refs + 1 /\ obj'[i].info = obj[i].info
        /\ obj'[i].ready = obj[i].ready /\ obj'[i].decoding = obj[i].decoding
        /\ \A j \in Ids : j # i => obj'[j] = obj[j]
    BY <2>1, <2>2 DEF Changed
  <2>4. obj[i].refs \in Nat
    BY <1>0, <2>1, LiveIs
  <2>5. /\ upc'[u] \in {"reading", "sizing", "stamping", "checking"}
        /\ upc'[u] \in {"reading", "sizing"} <=> obj[i].refs = 0
    BY <1>0, <1>1, <1>4 DEF Enter, CacheTypeOK
  <2>6. /\ Counted(i) /\ ReadsAlone(i) /\ HasStarter(i) /\ Encoding(i)
        /\ Today(i) /\ InfoTrue(i) /\ RowKept(i)
    BY <2>1 DEF Core, Sound
  <2>7. /\ \A v \in Users : v # u => (uobj'[v] = uobj[v] /\ upc'[v] = upc[v])
        /\ \A v \in Users : uobj[v] = i =>
             upc[v] \notin {"reading", "sizing", "stamping", "checking", "starting"}
    BY <1>0 DEF Same, EntryFree
  <2>8. Inside(i)' = Inside(i) \cup {u} /\ u \notin Inside(i)
    <3>1. Inside(i)' = {v \in Users : uobj'[v] = i /\ upc'[v] \in Entered}
      BY DEF Inside
    <3>2. \A v \in Users : uobj'[v] = i /\ upc'[v] \in Entered
                             <=> v = u \/ (uobj[v] = i /\ upc[v] \in Entered)
      BY <1>0, <1>1, <2>5, <2>7 DEF Entered
    <3> QED
      BY <1>0, <3>1, <3>2 DEF Inside, Entered
  <2>9. Counted(i)'
    <3>1. Cardinality(Inside(i))' = Cardinality(Inside(i)) + 1 /\ Cardinality(Inside(i)) \in Nat
      BY <2>8, OneMore, InsideIs
    <3>2. Holds(i)' = Holds(i) /\ Holds(i) \in Nat
      BY <1>0 DEF Holds
    <3> QED
      BY <2>3, <2>6, <3>1, <3>2 DEF Counted
  <2>10. ReadsAlone(i)'
    <3> SUFFICES ASSUME NEW v \in Users, uobj'[v] = i, upc'[v] \in {"reading", "sizing"}
                 PROVE  wpc'[i] = "none" /\ Inside(i)' = {v}
      BY DEF ReadsAlone
    <3>1. v = u /\ obj[i].refs = 0
      BY <2>5, <2>7
    <3>2. Inside(i) = {} /\ wpc[i] = "none"
      BY <1>0, <2>1, <2>6, <3>1, NobodyIn
    <3> QED
      BY <1>0, <2>8, <3>1, <3>2
  <2>11. HasStarter(i)' /\ Encoding(i)'
    <3>1. wpc[i] # "begin"
      BY <2>6, <2>7 DEF HasStarter, Some
    <3> QED
      BY <1>0, <2>1, <2>3, <2>6, <3>1 DEF HasStarter, Encoding
  <2>12. Settled(i)' => Settled(i)
    BY <1>0, <2>5, <2>7 DEF Settled, Some
  <2>13. Today(i)' /\ InfoTrue(i)'
    BY <1>0, <2>1, <2>3, <2>6, <2>12 DEF Today, InfoTrue, Valid, Version
  <2>14. RowKept(i)'
    <3>1. ~Reading(i)' => ~Reading(i)
      BY <1>0, <1>1, <2>5, <2>7 DEF Reading, Some
    <3> QED
      BY <1>0, <2>1, <2>3, <2>6, <3>1 DEF RowKept, Promise, Version
  <2>15. Sound(i)'
    BY <2>9, <2>10, <2>11, <2>13, <2>14 DEF Sound
  <2>16. RowTrue(k)'
    BY <1>0, RowFrame DEF Core
  <2> QED
    BY <1>0, <1>1, <2>1, <2>3, <2>15, <2>16, ThreadCore
<1> QED
  BY <1>3, <1>4

LEMMA ReadRowCore == ASSUME MapInv, Core, NEW u \in Users, ReadRow(u) PROVE Core'
<1>1. PICK i \in Ids : i = uobj[u]
  BY UserHas DEF ReadRow
<1>2. PICK k \in Keys : k = ukey[u]
  BY UserHas DEF ReadRow
<1>0. /\ CacheTypeOK /\ upc[u] \in {"reading", "sizing"} /\ Live(i) /\ uobj[u] = i /\ uobj' = uobj
      /\ upc'[u] \in {"stamping", "checking"}
      /\ \A v \in Users : v # u => Same(v)
      /\ UNCHANGED <<row, file, source, mount, wpc>>
  BY <1>1 DEF MapInv, ReadRow, clock, CacheTypeOK, Same
<1>3. obj[i].key = k
  BY <1>0, <1>1, <1>2, UserHas
<1>4. PICK info \in Infos : info = IF row[k] = None THEN Unread ELSE row[k]
  BY <1>0, VersionIs DEF CacheTypeOK
<1>5. Changed(i, obj[i].refs, info, obj[i].ready, obj[i].decoding)
  BY <1>0, <1>1, <1>2, <1>4, ReadRowEffect
<1>6. /\ obj'[i].key = k /\ obj'[i].refs = obj[i].refs /\ obj'[i].info = info
      /\ obj'[i].ready = obj[i].ready /\ obj'[i].decoding = obj[i].decoding
      /\ \A j \in Ids : j # i => obj'[j] = obj[j]
  BY <1>3, <1>5 DEF Changed
<1>7. /\ Counted(i) /\ ReadsAlone(i) /\ HasStarter(i) /\ Encoding(i)
      /\ Today(i) /\ InfoTrue(i) /\ RowKept(i) /\ RowTrue(k)
  BY <1>0 DEF Core, Sound
<1>8. /\ Inside(i)' = Inside(i) /\ ReadsAlone(i)'
  BY <1>0, <1>7, Moves, QuietAfter DEF Entered
<1>9. wpc[i] = "none" /\ Inside(i) = {u} /\ wpc'[i] = "none"
  BY <1>0, <1>7 DEF ReadsAlone
<1>10. ~Settled(i)'
  <2>1. \A v \in Users : uobj'[v] = i /\ upc'[v] \in {"starting", "open"} => v \in Inside(i)'
    BY DEF Inside, Entered
  <2> QED
    BY <1>0, <1>8, <1>9, <2>1 DEF Settled, Some
<1>11. Counted(i)' /\ HasStarter(i)' /\ Encoding(i)' /\ Today(i)'
  <2>1. ~obj[i].decoding
    BY <1>7, <1>9 DEF Encoding, Active
  <2> QED
    BY <1>0, <1>6, <1>7, <1>8, <1>9, <1>10, <2>1
       DEF Counted, Holds, HasStarter, Encoding, Active, Today
<1>12. InfoTrue(i)'
  <2>1. info.result = "success" /\ info.of = Version(k) => Promise(k) /\ info = row[k]
    BY <1>0, <1>4, VersionIs DEF Promise
  <2> QED
    BY <1>0, <1>6, <1>7, <1>10, <2>1 DEF InfoTrue, Valid, RowTrue, Version
<1>13. RowKept(i)'
  BY <1>0, <1>4, <1>6 DEF RowKept, Promise, Version
<1>14. Sound(i)'
  BY <1>8, <1>11, <1>12, <1>13 DEF Sound
<1>15. RowTrue(k)'
  BY <1>0, RowFrame DEF Core
<1> QED
  BY <1>0, <1>3, <1>6, <1>14, <1>15, ThreadCore

LEMMA StampCore == ASSUME MapInv, Core, NEW u \in Users, Stamp(u) PROVE Core'
<1>1. PICK i \in Ids : i = uobj[u]
  BY UserHas DEF Stamp
<1>2. PICK k \in Keys : k = ukey[u]
  BY UserHas DEF Stamp
<1>0. /\ CacheTypeOK /\ upc[u] = "stamping" /\ Live(i) /\ uobj[u] = i /\ uobj' = uobj
      /\ upc'[u] = "checking"
      /\ \A v \in Users : v # u => Same(v)
      /\ UNCHANGED <<source, mount, wpc>>
  BY <1>1 DEF MapInv, Stamp, clock, CacheTypeOK, Same
<1>3. obj[i].key = k
  BY <1>0, <1>1, <1>2, UserHas
<1>4. PICK info \in Infos : info = Stamped(i)
  BY <1>0, StampedIs
<1>5. Changed(i, obj[i].refs, info, TRUE, obj[i].decoding)
  BY <1>0, <1>1, <1>4, StampEffect
<1>6. /\ obj'[i].key = k /\ obj'[i].refs = obj[i].refs /\ obj'[i].info = info
      /\ obj'[i].ready = TRUE /\ obj'[i].decoding = obj[i].decoding
      /\ \A j \in Ids : j # i => obj'[j] = obj[j]
      /\ info.result = obj[i].info.result /\ info.of = obj[i].info.of
  BY <1>0, <1>3, <1>4, <1>5, StampedIs DEF Changed
<1>7. /\ row'[k] = info /\ file'[k] \in {file[k], None}
      /\ \A n \in Keys : n # k => row'[n] = row[n] /\ file'[n] = file[n]
  <2>1. /\ row' = [row EXCEPT ![k] = info]
        /\ file' = (IF Erases(i) THEN [file EXCEPT ![k] = None] ELSE file)
    BY <1>1, <1>2, <1>4 DEF Stamp, Stamped
  <2> QED
    BY <1>0, <2>1 DEF CacheTypeOK
<1>8. /\ Counted(i) /\ ReadsAlone(i) /\ HasStarter(i) /\ Encoding(i)
      /\ Today(i) /\ InfoTrue(i)
  BY <1>0 DEF Core, Sound
<1>9. /\ Inside(i)' = Inside(i) /\ ReadsAlone(i)'
      /\ Some(i, {"starting", "open"})' <=> Some(i, {"starting", "open"})
      /\ Some(i, {"starting"})' <=> Some(i, {"starting"})
  BY <1>0, <1>8, Moves, QuietAfter DEF Entered
<1>10. Counted(i)' /\ HasStarter(i)' /\ Encoding(i)' /\ Today(i)' /\ InfoTrue(i)' /\ RowKept(i)'
  <2>1. Counted(i)' /\ HasStarter(i)'
    BY <1>0, <1>6, <1>8, <1>9 DEF Counted, Holds, HasStarter
  <2>2. Encoding(i)'
    BY <1>0, <1>3, <1>6, <1>7, <1>8 DEF Encoding
  <2>3. Today(i)' /\ InfoTrue(i)'
    BY <1>0, <1>3, <1>6, <1>7, <1>8, <1>9 DEF Today, InfoTrue, Settled, Valid, Version
  <2>4. RowKept(i)'
    BY <1>6, <1>7 DEF RowKept, Promise
  <2> QED
    BY <2>1, <2>2, <2>3, <2>4
<1>11. Sound(i)'
  BY <1>9, <1>10 DEF Sound
<1>12. RowTrue(k)'
  BY <1>6, <1>7, <1>10 DEF RowTrue, Promise, InfoTrue, Version
<1> QED
  BY <1>0, <1>3, <1>6, <1>7, <1>11, <1>12, ThreadCore

LEMMA UseCore == ASSUME MapInv, Core, NEW u \in Users, Use(u) PROVE Core'
<1>1. PICK i \in Ids : i = uobj[u]
  BY UserHas DEF Use
<1>2. PICK k \in Keys : k = ukey[u]
  BY UserHas DEF Use
<1>0. /\ CacheTypeOK /\ upc[u] = "open" /\ Live(i) /\ uobj[u] = i /\ upc' = upc /\ uobj' = uobj
      /\ UNCHANGED <<row, file, source, mount, wpc>>
  BY <1>1 DEF MapInv, Use, clock, users
<1>3. obj[i].key = k
  BY <1>0, <1>1, <1>2, UserHas
<1>4. Changed(i, obj[i].refs, Stamped(i), obj[i].ready, obj[i].decoding)
  BY <1>0, <1>1, UseEffect
<1>5. /\ obj'[i].key = k /\ obj'[i].refs = obj[i].refs
      /\ obj'[i].ready = obj[i].ready /\ obj'[i].decoding = obj[i].decoding
      /\ \A j \in Ids : j # i => obj'[j] = obj[j]
      /\ obj'[i].info.result = obj[i].info.result /\ obj'[i].info.of = obj[i].info.of
  BY <1>0, <1>3, <1>4, StampedIs DEF Changed
<1>6. /\ Counted(i) /\ ReadsAlone(i) /\ HasStarter(i) /\ Encoding(i)
      /\ Today(i) /\ InfoTrue(i) /\ RowKept(i)
  BY <1>0 DEF Core, Sound
<1>7. /\ Inside(i)' = Inside(i)
      /\ Some(i, {"starting", "open"})' <=> Some(i, {"starting", "open"})
      /\ Some(i, {"starting"})' <=> Some(i, {"starting"})
      /\ Some(i, {"reading", "sizing"})' <=> Some(i, {"reading", "sizing"})
  BY <1>0 DEF Inside, Some
<1>8. Counted(i)' /\ ReadsAlone(i)' /\ HasStarter(i)' /\ Encoding(i)'
  BY <1>0, <1>3, <1>5, <1>6, <1>7 DEF Counted, Holds, ReadsAlone, HasStarter, Encoding
<1>9. Today(i)' /\ InfoTrue(i)' /\ RowKept(i)'
  BY <1>0, <1>3, <1>5, <1>6, <1>7
     DEF Today, InfoTrue, RowKept, Settled, Reading, Valid, Promise, Version
<1>10. Sound(i)'
  BY <1>8, <1>9 DEF Sound
<1>11. RowTrue(k)'
  BY <1>0, RowFrame DEF Core
<1> QED
  BY <1>0, <1>3, <1>5, <1>10, <1>11, ThreadCore DEF Same

LEMMA StartedCore == ASSUME MapInv, Core, NEW u \in Users, Started(u) PROVE Core'
<1>1. PICK i \in Ids : i = uobj[u]
  BY UserHas DEF Started
<1>2. PICK k \in Keys : k = ukey[u]
  BY UserHas DEF Started
<1>0. /\ CacheTypeOK /\ upc[u] = "starting" /\ uobj[u] = i /\ uobj' = uobj
      /\ upc'[u] = "open" /\ wpc[i] # "begin"
      /\ \A v \in Users : v # u => Same(v)
      /\ UNCHANGED <<obj, row, file, source, mount, wpc>>
  BY <1>1 DEF MapInv, Started, clock, CacheTypeOK, Same
<1>3. Live(i)' <=> Live(i)
  BY <1>0 DEF Live
<1>4. ASSUME Live(i) PROVE Sound(i)'
  <2>1. /\ Counted(i) /\ ReadsAlone(i) /\ HasStarter(i) /\ Encoding(i)
        /\ Today(i) /\ InfoTrue(i) /\ RowKept(i)
    BY <1>4 DEF Core, Sound
  <2>2. /\ Inside(i)' = Inside(i) /\ ReadsAlone(i)'
        /\ Some(i, {"starting", "open"})
        /\ Some(i, {"reading", "sizing"})' <=> Some(i, {"reading", "sizing"})
    BY <1>0, <2>1, Moves, QuietAfter DEF Entered
  <2>3. Counted(i)' /\ HasStarter(i)' /\ Encoding(i)'
    BY <1>0, <2>1, <2>2 DEF Counted, Holds, HasStarter, Encoding
  <2>4. Today(i)' /\ InfoTrue(i)' /\ RowKept(i)'
    BY <1>0, <2>1, <2>2
       DEF Today, InfoTrue, RowKept, Settled, Reading, Valid, Promise, Version
  <2> QED
    BY <2>2, <2>3, <2>4 DEF Sound
<1>5. Sound(i)'
  BY <1>3, <1>4 DEF Sound
<1>6. \A j \in Ids : j # i => WorkerSame(j) /\ \A v \in Users : Same(v) \/ Elsewhere(v, j)
  BY <1>0 DEF WorkerSame, Elsewhere
<1>7. \A j \in Ids : Sound(j)'
  BY <1>0, <1>5, <1>6, SoundFrame DEF Core
<1>8. \A n \in Keys : RowTrue(n)'
  BY <1>0, RowFrame DEF Core
<1>9. Unique'
  BY <1>0, UniqueFrame DEF Core, Live
<1> QED
  BY <1>7, <1>8, <1>9 DEF Core

LEMMA CheckCore == ASSUME MapInv, Core, NEW u \in Users, Check(u) PROVE Core'
<1>1. PICK i \in Ids : i = uobj[u]
  BY UserHas DEF Check
<1>2. PICK k \in Keys : k = ukey[u]
  BY UserHas DEF Check
<1>3. Live(i) /\ obj[i].key = k /\ CacheTypeOK
  BY <1>1, <1>2, UserHas DEF Check, MapInv
<1>4. PICK cleared \in BOOLEAN : cleared = (~obj[i].decoding /\ Outdated(i))
  BY <1>3, LiveIs
<1>5. PICK info \in Infos : info = IF cleared THEN Cleared(k) ELSE obj[i].info
  BY <1>3, LiveIs, VersionIs
<1>6. PICK start \in BOOLEAN : start = (obj[i].ready /\ ~obj[i].decoding /\ info.result = "none")
  BY <1>3, LiveIs
<1>0. /\ upc[u] = "checking" /\ uobj[u] = i /\ uobj' = uobj /\ (start => wpc[i] = "none")
      /\ wpc' = (IF start THEN [wpc EXCEPT ![i] = "begin"] ELSE wpc)
      /\ upc' = [upc EXCEPT ![u] = IF start THEN "starting" ELSE "open"]
      /\ \E f \in (IF cleared THEN Emptied(k, i) ELSE {file[k]}) : file' = [file EXCEPT ![k] = f]
      /\ UNCHANGED <<row, source, mount>>
  BY <1>1, <1>2, <1>4, <1>5, <1>6 DEF Check, clock
<1>7. Changed(i, obj[i].refs, info, obj[i].ready, obj[i].decoding \/ start)
  BY <1>1, <1>2, <1>3, <1>4, <1>5, <1>6, CheckEffect
<1>8. /\ upc'[u] = (IF start THEN "starting" ELSE "open") /\ \A v \in Users : v # u => Same(v)
      /\ wpc'[i] = (IF start THEN "begin" ELSE wpc[i])
      /\ \A j \in Ids : j # i => wpc'[j] = wpc[j]
  BY <1>0, <1>3 DEF CacheTypeOK, Same
<1>9. /\ obj'[i].key = k /\ obj'[i].refs = obj[i].refs /\ obj'[i].info = info
      /\ obj'[i].ready = obj[i].ready /\ obj'[i].decoding = (obj[i].decoding \/ start)
      /\ \A j \in Ids : j # i => obj'[j] = obj[j]
  BY <1>3, <1>7 DEF Changed
<1>10. PICK f \in (IF cleared THEN Emptied(k, i) ELSE {file[k]}) :
          file'[k] = f /\ \A n \in Keys : n # k => file'[n] = file[n]
  BY <1>0, <1>3 DEF CacheTypeOK
<1>11. ~cleared => f = file[k]
  BY <1>10
<1>12. /\ Counted(i) /\ ReadsAlone(i) /\ HasStarter(i) /\ Encoding(i)
       /\ Today(i) /\ InfoTrue(i) /\ RowKept(i) /\ RowTrue(k)
  BY <1>3 DEF Core, Sound
<1>13. /\ Inside(i)' = Inside(i) /\ u \in Inside(i) /\ ReadsAlone(i)'
       /\ ~Some(i, {"reading", "sizing"}) /\ ~Some(i, {"reading", "sizing"})'
       /\ start => Some(i, {"starting"})'
       /\ Some(i, {"starting"}) => Some(i, {"starting"})'
  <2>1. \E w \in Users : w \in Inside(i) /\ upc[w] \notin {"reading", "sizing"}
    BY <1>0 DEF Inside, Entered
  <2>2. upc[u] \in Entered /\ upc'[u] \in Entered \ {"reading", "sizing"}
    BY <1>0, <1>8 DEF Entered
  <2>3. /\ ReadsAlone(i)' /\ ~Some(i, {"reading", "sizing"})'
    BY <1>0, <1>8, <1>12, <2>2, QuietAfter
  <2>4. \A S \in SUBSET Entered :
                Some(i, S)' <=> \/ upc'[u] \in S
                                \/ \E v \in Users \ {u} : uobj[v] = i /\ upc[v] \in S
    BY <1>0, <1>8, <2>2, Moves
  <2>5. Some(i, {"starting"})' <=> \/ upc'[u] \in {"starting"}
                                   \/ \E v \in Users \ {u} : uobj[v] = i /\ upc[v] \in {"starting"}
    BY <2>4 DEF Entered
  <2>6. Some(i, {"starting"}) => \E v \in Users \ {u} : uobj[v] = i /\ upc[v] \in {"starting"}
    BY <1>0 DEF Some
  <2> QED
    BY <1>0, <1>8, <1>12, <2>1, <2>2, <2>3, <2>5, <2>6, Moves, NoReader
<1>14. Counted(i)'
  <2>1. Holds(i)' = Holds(i)
    BY <1>0, <1>8 DEF Holds
  <2> QED
    BY <1>9, <1>12, <1>13, <2>1 DEF Counted
<1>15. HasStarter(i)'
  BY <1>8, <1>12, <1>13 DEF HasStarter
<1>16. obj[i].refs # 0 /\ ~Reading(i)
  BY <1>3, <1>12, <1>13, Referenced, LiveIs DEF Reading
<1>17. cleared => info.result = "none" /\ info.of = Version(k) /\ ~obj[i].decoding
                  /\ obj[i].info.of # Version(k)
  BY <1>3, <1>4, <1>5, VersionIs DEF Outdated
<1>18. ~cleared => info = obj[i].info /\ (obj[i].decoding \/ obj[i].info.of = Version(k))
  BY <1>3, <1>4, <1>5 DEF Outdated
<1>19. obj[i].decoding => Settled(i) /\ wpc[i] \in Active
  BY <1>12 DEF Encoding, Settled, Active
<1>20. Encoding(i)'
  <2>1. wpc'[i] \in Active => info.result = "none"
    <3>1. CASE start
      BY <1>6, <3>1
    <3>2. CASE ~start
      BY <1>8, <1>12, <1>17, <1>18, <3>2 DEF Encoding
    <3> QED
      BY <3>1, <3>2
  <2>2. wpc'[i] # "none" => obj[i].ready
    BY <1>6, <1>8, <1>12 DEF Encoding
  <2>3. obj[i].decoding \/ start => wpc'[i] \in Active
    BY <1>6, <1>8, <1>19 DEF Active
  <2>4. wpc'[i] = "finishing" /\ file'[k] # None =>
          file'[k].by = i /\ file'[k].of = info.of
    <3> SUFFICES ASSUME wpc[i] = "finishing", f # None PROVE f.by = i /\ f.of = info.of
      BY <1>8, <1>10
    <3>1. CASE cleared
      <4>1. f \in Emptied(k, i) /\ obj[i].ready
        BY <1>10, <1>12, <3>1 DEF Encoding
      <4>2. f = [of |-> Version(k), whole |-> FALSE, by |-> i]
        BY <4>1 DEF Emptied
      <4> QED
        BY <1>17, <3>1, <4>2
    <3>2. CASE ~cleared
      BY <1>3, <1>11, <1>12, <1>18, <3>2 DEF Encoding
    <3> QED
      BY <3>1, <3>2
  <2> QED
    BY <1>9, <2>1, <2>2, <2>3, <2>4 DEF Encoding
<1>21. Today(i)'
  <2>1. info.of # None /\ info.of.settings = Mounts[mount]
    BY <1>3, <1>12, <1>17, <1>18, <1>19, VersionIs DEF Today
  <2> QED
    BY <1>0, <1>9, <2>1 DEF Today
<1>22. InfoTrue(i)'
  <2>1. ~cleared => Valid(info, k)
    BY <1>3, <1>12, <1>18, <1>19 DEF InfoTrue
  <2>2. info.result = "success" /\ file'[k] # None => file'[k].whole /\ file'[k].of = info.of
    BY <1>10, <1>11, <1>17, <2>1 DEF Valid
  <2> QED
    BY <1>9, <2>2 DEF InfoTrue, Valid
<1>23. Promise(k) => ~cleared
  BY <1>3, <1>12, <1>16, <1>17 DEF RowKept
<1>24. RowKept(i)'
  <2>1. Promise(k)' <=> Promise(k)
    BY <1>0 DEF Promise, Version
  <2>2. Promise(k) => info.result = "success" /\ info.of = Version(k)
    BY <1>3, <1>12, <1>16, <1>18, <1>23 DEF RowKept
  <2> QED
    BY <1>0, <1>9, <2>1, <2>2 DEF RowKept, Promise, Version
<1>25. Sound(i)'
  BY <1>13, <1>14, <1>15, <1>20, <1>21, <1>22, <1>24 DEF Sound
<1>26. RowTrue(k)'
  BY <1>0, <1>10, <1>11, <1>12, <1>23 DEF RowTrue, Promise, Valid, Version
<1>27. \A n \in Keys : n # k => row'[n] = row[n] /\ file'[n] = file[n]
  BY <1>0, <1>10
<1>28. uobj'[u] \in {i, None}
  BY <1>0
<1> QED
  BY <1>0, <1>3, <1>8, <1>9, <1>25, <1>26, <1>27, <1>28, ThreadCore

\* A reference is given back: what becomes of the row and the file.
LEMMA ReleaseCore ==
    ASSUME MapInv, Core, NEW i \in Ids, NEW k \in Keys, Live(i), obj[i].key = k,
           NEW delete \in BOOLEAN, CloseEntry(i, delete), Settled(i), UNCHANGED <<source, mount>>
    PROVE  /\ row'[k] = obj[i].info /\ file'[k] \in {file[k], None}
           /\ \A n \in Keys : n # k => row'[n] = row[n] /\ file'[n] = file[n]
           /\ RowTrue(k)'
<1>1. /\ row'[k] = obj[i].info /\ file'[k] \in {file[k], None}
      /\ \A n \in Keys : n # k => row'[n] = row[n] /\ file'[n] = file[n]
  BY CloseEntryIs
<1>2. Valid(obj[i].info, k)
  BY DEF Core, Sound, InfoTrue
<1> QED
  BY <1>1, <1>2 DEF RowTrue, Promise, Valid, Version

LEMMA CloseCore ==
    ASSUME MapInv, Core, NEW u \in Users, NEW failed \in BOOLEAN, Close(u, failed)
    PROVE  Core'
<1>0. /\ CacheTypeOK /\ upc[u] = (IF failed THEN "starting" ELSE "open")
      /\ UNCHANGED <<source, mount, wpc>>
  BY DEF MapInv, Close, clock
<1>1. PICK i \in Ids : i = uobj[u]
  BY <1>0, UserHas
<1>2. PICK k \in Keys : k = ukey[u]
  BY <1>0, UserHas
<1>3. CASE obj[i] = Gone
  <2>1. UNCHANGED <<obj, row, file, uobj>> /\ upc' = [upc EXCEPT ![u] = "lost"]
    BY <1>1, <1>3 DEF Close
  <2>2. \A j \in Ids : j # i => WorkerSame(j) /\ \A v \in Users : Same(v) \/ Elsewhere(v, j)
    BY <1>0, <1>1, <2>1 DEF WorkerSame, Elsewhere, Same, CacheTypeOK
  <2>3. Sound(i)'
    BY <1>3, <2>1 DEF Sound, Live
  <2>4. \A j \in Ids : Sound(j)'
    BY <1>0, <2>1, <2>2, <2>3, SoundFrame DEF Core
  <2>5. \A n \in Keys : RowTrue(n)'
    BY <1>0, <2>1, RowFrame DEF Core
  <2>6. Unique'
    BY <2>1, UniqueFrame DEF Core, Live
  <2> QED
    BY <2>4, <2>5, <2>6 DEF Core
<1>4. CASE obj[i] # Gone
  <2>1. Live(i) /\ obj[i].key = k /\ uobj[u] = i
    BY <1>0, <1>1, <1>2, <1>4, UserHas
  <2>2. /\ \A v \in Users : v # u => Same(v)
        /\ upc'[u] = "idle" /\ uobj'[u] = None
        /\ failed => wpc[i] # "begin"
    BY <1>0, <1>1, <1>4 DEF Close, CacheTypeOK, Same
  <2>3. PICK decoding \in BOOLEAN : decoding = (obj[i].decoding /\ ~failed)
    BY <1>0, <2>1, LiveIs
  <2>4. /\ CloseEntry(i, failed)
        /\ IF failed /\ LastUser(i) THEN obj' = [obj EXCEPT ![i] = Gone] /\ Destroyable(i)
           ELSE Changed(i, Less(i), obj[i].info, obj[i].ready, decoding)
    BY <1>0, <1>1, <2>1, <2>3, CloseEffect
  <2>5. Settled(i)
    BY <1>0, <2>1 DEF Settled, Some
  <2>6. /\ row'[k] = obj[i].info /\ file'[k] \in {file[k], None}
        /\ \A n \in Keys : n # k => row'[n] = row[n] /\ file'[n] = file[n]
        /\ RowTrue(k)'
    BY <1>0, <2>1, <2>4, <2>5, ReleaseCore
  <2>7. CASE failed /\ LastUser(i)
    <3>1. obj' = [obj EXCEPT ![i] = Gone] /\ obj[i] # None
      BY <2>1, <2>4, <2>7 DEF Live
    <3>2. ~Live(i)' /\ \A j \in Ids : j # i => obj'[j] = obj[j]
      BY <1>0, <3>1, Destroyed
    <3>3. Sound(i)'
      BY <3>2 DEF Sound
    <3> QED
      BY <1>0, <2>1, <2>2, <2>6, <3>2, <3>3, ThreadCore
  <2>8. CASE ~(failed /\ LastUser(i))
    <3>1. /\ obj'[i].key = k /\ obj'[i].refs = Less(i) /\ obj'[i].info = obj[i].info
          /\ obj'[i].ready = obj[i].ready /\ obj'[i].decoding = decoding
          /\ \A j \in Ids : j # i => obj'[j] = obj[j]
      BY <2>1, <2>4, <2>8 DEF Changed
    <3>2. /\ Counted(i) /\ ReadsAlone(i) /\ HasStarter(i) /\ Encoding(i)
          /\ Today(i) /\ InfoTrue(i)
      BY <2>1 DEF Core, Sound
    <3>3. Inside(i)' = Inside(i) \ {u} /\ u \in Inside(i)
      <4>1. Inside(i)' = {v \in Users : uobj'[v] = i /\ upc'[v] \in Entered}
        BY DEF Inside
      <4>2. \A v \in Users : uobj'[v] = i /\ upc'[v] \in Entered
                             <=> v # u /\ uobj[v] = i /\ upc[v] \in Entered
        BY <2>1, <2>2 DEF Entered, Same
      <4> QED
        BY <1>0, <2>1, <4>1, <4>2 DEF Inside, Entered
    <3>4. Counted(i)'
      <4>1. /\ Cardinality(Inside(i))' = Cardinality(Inside(i)) - 1
            /\ Cardinality(Inside(i)) > 0 /\ Cardinality(Inside(i)) \in Nat
        BY <3>3, OneLess, InsideIs
      <4>2. Holds(i)' = Holds(i) /\ Holds(i) \in Nat
        BY <1>0 DEF Holds
      <4>3. obj[i].refs > 0 => Less(i) = obj[i].refs - 1
        BY <1>0, <2>1, LessIs
      <4> QED
        BY <3>1, <3>2, <4>1, <4>2, <4>3 DEF Counted
    <3>5. ReadsAlone(i)' /\ ~Some(i, {"reading", "sizing"})'
      <4>1. \A v \in Users : uobj'[v] = i => upc'[v] \notin {"reading", "sizing"}
        BY <1>0, <2>1, <2>2, <3>2, <3>3, NothingAssumption DEF ReadsAlone, Same
      <4> QED
        BY <4>1 DEF ReadsAlone, Some
    <3>6. HasStarter(i)'
      BY <1>0, <2>1, <2>2, <3>2 DEF HasStarter, Some, Same
    <3>7. Encoding(i)'
      <4>1. decoding => wpc[i] \in Active
        BY <2>3, <3>2 DEF Encoding
      <4>2. wpc[i] = "finishing" /\ file'[k] # None =>
              file'[k].by = i /\ file'[k].of = obj[i].info.of
        BY <2>1, <2>6, <3>2 DEF Encoding
      <4> QED
        BY <1>0, <3>1, <3>2, <4>1, <4>2 DEF Encoding
    <3>8. Today(i)' /\ InfoTrue(i)'
      BY <1>0, <2>1, <2>5, <2>6, <3>1, <3>2 DEF Today, InfoTrue, Valid, Version
    <3>9. RowKept(i)'
      BY <2>6, <3>1 DEF RowKept, Promise
    <3>10. Sound(i)'
      BY <3>4, <3>5, <3>6, <3>7, <3>8, <3>9 DEF Sound
    <3> QED
      BY <1>0, <2>1, <2>2, <2>6, <3>1, <3>10, ThreadCore
  <2> QED
    BY <2>7, <2>8
<1> QED
  BY <1>3, <1>4

-----------------------------------------------------------------------------
(* The steps of workers. *)

LEMMA WorkerCore ==
    ASSUME MapInv, Core, NEW i \in Ids, NEW k \in Keys, Live(i), obj[i].key = k,
           UNCHANGED <<source, mount, upc, uobj>>,
           \A j \in Ids : j # i => obj'[j] = obj[j] /\ wpc'[j] = wpc[j],
           \A n \in Keys : n # k => row'[n] = row[n] /\ file'[n] = file[n],
           Live(i)' => obj'[i].key = k, Sound(i)', RowTrue(k)'
    PROVE  Core'
<1>1. \A j \in Ids : Live(j) /\ obj[j].key = k => j = i
  BY DEF Core, Unique
<1>2. \A j \in Ids : j # i => obj'[j] = obj[j] /\ WorkerSame(j)
                              /\ \A v \in Users : Same(v) \/ Elsewhere(v, j)
  BY DEF WorkerSame, Same
<1> QED
  BY <1>1, <1>2, CoreStep

\* The row of an entry being encoded promises nothing.
LEMMA NoPromise ==
    ASSUME MapInv, Core, NEW i \in Ids, Live(i), wpc[i] \in Active
    PROVE  /\ ~Promise(obj[i].key) /\ ~Some(i, {"reading", "sizing"}) /\ obj[i].ready
           /\ obj[i].info.result = "none" /\ obj[i].refs > 0
<1>1. /\ Counted(i) /\ ReadsAlone(i) /\ HasStarter(i) /\ Encoding(i) /\ RowKept(i)
      /\ CacheTypeOK
  BY DEF Core, Sound, MapInv
<1>2. wpc[i] # "none"
  BY DEF Active
<1>3. wpc[i] = "begin" => Inside(i) # {}
  BY <1>1 DEF HasStarter, Some, Inside, Entered
<1>4. obj[i].refs > 0
  BY <1>1, <1>2, <1>3, Referenced
<1>5. obj[i].info.result = "none" /\ obj[i].ready
  BY <1>1, <1>2 DEF Encoding
<1>6. ~Some(i, {"reading", "sizing"})
  BY <1>1, <1>2, NoReader
<1> QED
  BY <1>1, <1>4, <1>5, <1>6 DEF RowKept, Reading

LEMMA StillInside ==
    ASSUME NEW i, UNCHANGED <<upc, uobj>>
    PROVE  Inside(i)' = Inside(i) /\ \A S \in SUBSET Entered : Some(i, S)' <=> Some(i, S)
BY DEF Inside, Some

LEMMA BeginCore == ASSUME MapInv, Core, NEW i \in Ids, Begin(i) PROVE Core'
<1>0. /\ CacheTypeOK /\ wpc[i] = "begin" /\ wpc' = [wpc EXCEPT ![i] = "waiting"] /\ Live(i)
      /\ \E f \in Emptied(obj[i].key, i) : file' = [file EXCEPT ![obj[i].key] = f]
      /\ UNCHANGED <<row, source, mount, upc, uobj>>
  BY DEF MapInv, Begin, clock, users
<1>1. PICK k \in Keys : k = obj[i].key
  BY <1>0, LiveIs
<1>2. Changed(i, obj[i].refs + 1, Cleared(k), obj[i].ready, obj[i].decoding)
  BY <1>0, <1>1, BeginEffect
<1>3. PICK info \in Infos : info = Cleared(k) /\ info.result = "none" /\ info.of = Version(k)
  BY <1>0, VersionIs
<1>4. /\ obj'[i].key = k /\ obj'[i].refs = obj[i].refs + 1 /\ obj'[i].info = info
      /\ obj'[i].ready = obj[i].ready /\ obj'[i].decoding = obj[i].decoding
      /\ \A j \in Ids : j # i => obj'[j] = obj[j]
      /\ wpc'[i] = "waiting" /\ \A j \in Ids : j # i => wpc'[j] = wpc[j]
      /\ \A n \in Keys : n # k => file'[n] = file[n]
  BY <1>0, <1>1, <1>2, <1>3 DEF Changed, CacheTypeOK
<1>5. Counted(i) /\ ReadsAlone(i) /\ Inside(i)' = Inside(i)
  BY <1>0, StillInside DEF Core, Sound
<1>6. ~Promise(k) /\ ~Some(i, {"reading", "sizing"}) /\ obj[i].ready
  BY <1>0, <1>1, NoPromise DEF Active
<1>7. Counted(i)'
  <2>1. Cardinality(Inside(i)) \in Nat
    BY InsideIs
  <2> QED
    BY <1>0, <1>4, <1>5, <2>1 DEF Counted, Holds
<1>8. ReadsAlone(i)'
  BY <1>0, <1>6 DEF ReadsAlone, Some
<1>9. HasStarter(i)' /\ Encoding(i)'
  BY <1>3, <1>4, <1>6 DEF HasStarter, Encoding, Active
<1>10. ~Promise(k)' /\ Version(k)' = Version(k)
  BY <1>0, <1>6 DEF Promise, Version
<1>11. Today(i)' /\ InfoTrue(i)' /\ RowKept(i)'
  <2>1. Today(i)'
    BY <1>0, <1>3, <1>4, VersionIs DEF Today
  <2> QED
    BY <1>3, <1>4, <1>10, <2>1 DEF InfoTrue, RowKept, Valid, Promise, Version
<1>12. Sound(i)' /\ RowTrue(k)'
  BY <1>7, <1>8, <1>9, <1>10, <1>11 DEF Sound, RowTrue
<1> QED
  BY <1>0, <1>1, <1>4, <1>12, WorkerCore

LEMMA WriteCore == ASSUME MapInv, Core, NEW i \in Ids, Write(i) PROVE Core'
<1>0. /\ wpc[i] = "writing" /\ wpc' = [wpc EXCEPT ![i] = "finishing"]
      /\ file' = [file EXCEPT ![obj[i].key] =
                   [of |-> obj[i].info.of, whole |-> FALSE, by |-> i]]
      /\ UNCHANGED <<obj, row, source, mount, upc, uobj>>
  BY DEF Write, clock, users
<1>1. Live(i) /\ CacheTypeOK /\ obj[i].key \in Keys
  BY <1>0, WorkerHas
<1>2. PICK k \in Keys : k = obj[i].key
  BY <1>1
<1>3. /\ wpc'[i] = "finishing" /\ \A j \in Ids : j # i => wpc'[j] = wpc[j]
      /\ file'[k].by = i /\ file'[k].of = obj[i].info.of
      /\ \A n \in Keys : n # k => file'[n] = file[n]
  BY <1>0, <1>1, <1>2 DEF CacheTypeOK
<1>4. ~Promise(k) /\ obj[i].ready /\ obj[i].info.result = "none"
  BY <1>0, <1>1, <1>2, NoPromise DEF Active
<1>5. /\ Counted(i) /\ ReadsAlone(i) /\ Encoding(i) /\ Today(i)
  BY <1>1 DEF Core, Sound
<1>6. Inside(i)' = Inside(i)
  BY <1>0, StillInside
<1>7. Counted(i)' /\ ReadsAlone(i)' /\ HasStarter(i)' /\ Encoding(i)' /\ Today(i)'
  <2>1. Settled(i)
    BY <1>0 DEF Settled
  <2>2. Counted(i)'
    BY <1>0, <1>3, <1>5, <1>6 DEF Counted, Holds
  <2>3. ReadsAlone(i)' /\ HasStarter(i)' /\ Today(i)'
    BY <1>0, <1>3, <1>5, <2>1 DEF ReadsAlone, HasStarter, Today
  <2>4. Encoding(i)'
    BY <1>0, <1>2, <1>3, <1>4, <1>5 DEF Encoding, Active
  <2> QED
    BY <2>2, <2>3, <2>4
<1>8. InfoTrue(i)' /\ RowKept(i)' /\ RowTrue(k)'
  BY <1>0, <1>2, <1>4 DEF InfoTrue, RowKept, RowTrue, Promise, Valid, Version
<1>9. Sound(i)'
  BY <1>7, <1>8 DEF Sound
<1> QED
  BY <1>0, <1>1, <1>2, <1>3, <1>8, <1>9, WorkerCore

LEMMA FinishCore == ASSUME MapInv, Core, NEW i \in Ids, Finish(i) PROVE Core'
<1>0. /\ wpc[i] = "finishing" /\ wpc' = [wpc EXCEPT ![i] = "closing"]
      /\ file' = (IF file[obj[i].key] # None /\ file[obj[i].key].by = i
                    THEN [file EXCEPT ![obj[i].key] = [file[obj[i].key] EXCEPT !.whole = TRUE]]
                    ELSE file)
      /\ UNCHANGED <<row, source, mount, upc, uobj>>
  BY DEF Finish, clock, users
<1>1. Live(i) /\ CacheTypeOK /\ obj[i].key \in Keys
  BY <1>0, WorkerHas
<1>2. PICK k \in Keys : k = obj[i].key
  BY <1>1
<1>3. Changed(i, obj[i].refs, Finished(i), obj[i].ready, FALSE) /\ Finished(i).of = obj[i].info.of
  BY <1>1, FinishEffect
<1>4. /\ obj'[i].key = k /\ obj'[i].refs = obj[i].refs /\ obj'[i].info.of = obj[i].info.of
      /\ obj'[i].ready = obj[i].ready /\ obj'[i].decoding = FALSE
      /\ \A j \in Ids : j # i => obj'[j] = obj[j]
      /\ wpc'[i] = "closing" /\ \A j \in Ids : j # i => wpc'[j] = wpc[j]
  BY <1>0, <1>1, <1>2, <1>3 DEF Changed, CacheTypeOK
<1>5. /\ Counted(i) /\ ReadsAlone(i) /\ Encoding(i) /\ Today(i)
  BY <1>1 DEF Core, Sound
<1>6. ~Promise(k) /\ obj[i].ready
  BY <1>0, <1>1, <1>2, NoPromise DEF Active
<1>7. /\ file'[k] # None => file'[k].whole /\ file'[k].of = obj[i].info.of
      /\ \A n \in Keys : n # k => file'[n] = file[n]
  <2>1. CASE file[k] = None
    BY <1>0, <1>2, <2>1
  <2>2. CASE file[k] # None
    <3>1. file[k] \in Encoded /\ file[k].by = i /\ file[k].of = obj[i].info.of
      BY <1>0, <1>1, <1>2, <1>5, <2>2 DEF Encoding, CacheTypeOK
    <3> DEFINE f == [file[k] EXCEPT !.whole = TRUE]
    <3>2. f.whole /\ f.of = file[k].of
      BY <3>1 DEF Encoded
    <3>3. file' = [file EXCEPT ![k] = f]
      BY <1>0, <1>2, <2>2, <3>1
    <3> HIDE DEF f
    <3> QED
      BY <1>1, <3>1, <3>2, <3>3 DEF CacheTypeOK
  <2> QED
    BY <2>1, <2>2
<1>8. Inside(i)' = Inside(i)
  BY <1>0, StillInside
<1>9. Counted(i)' /\ ReadsAlone(i)' /\ HasStarter(i)' /\ Encoding(i)' /\ Today(i)'
  <2>1. Settled(i)
    BY <1>0 DEF Settled
  <2>2. Counted(i)'
    BY <1>0, <1>4, <1>5, <1>8 DEF Counted, Holds
  <2>3. ReadsAlone(i)' /\ HasStarter(i)'
    BY <1>0, <1>4, <1>5 DEF ReadsAlone, HasStarter
  <2>4. Today(i)'
    BY <1>0, <1>4, <1>5, <2>1 DEF Today
  <2>5. Encoding(i)'
    BY <1>4, <1>6 DEF Encoding, Active
  <2> QED
    BY <2>2, <2>3, <2>4, <2>5
<1>10. InfoTrue(i)' /\ RowKept(i)' /\ RowTrue(k)'
  BY <1>0, <1>4, <1>6, <1>7 DEF InfoTrue, RowKept, RowTrue, Promise, Valid, Version
<1>11. Sound(i)'
  BY <1>9, <1>10 DEF Sound
<1> QED
  BY <1>0, <1>1, <1>2, <1>4, <1>7, <1>10, <1>11, WorkerCore

LEMMA GiveCore ==
    ASSUME MapInv, Core, NEW i \in Ids, NEW timeout \in BOOLEAN, Give(i, timeout) PROVE Core'
<1>0. /\ wpc[i] \in {"failing", "finishing"}
      /\ wpc' = [wpc EXCEPT ![i] = IF timeout THEN "deleting" ELSE "closing"]
      /\ UNCHANGED <<row, file, source, mount, upc, uobj>>
  BY DEF Give, clock, users
<1>1. Live(i) /\ CacheTypeOK /\ obj[i].key \in Keys
  BY <1>0, WorkerHas
<1>2. PICK k \in Keys : k = obj[i].key
  BY <1>1
<1>3. Changed(i, obj[i].refs, obj[i].info, obj[i].ready, FALSE)
  BY <1>1, GiveEffect
<1>4. /\ obj'[i].key = k /\ obj'[i].refs = obj[i].refs /\ obj'[i].info = obj[i].info
      /\ obj'[i].ready = obj[i].ready /\ obj'[i].decoding = FALSE
      /\ \A j \in Ids : j # i => obj'[j] = obj[j]
      /\ wpc'[i] \in {"closing", "deleting"} /\ \A j \in Ids : j # i => wpc'[j] = wpc[j]
  BY <1>0, <1>1, <1>2, <1>3 DEF Changed, CacheTypeOK
<1>5. /\ Counted(i) /\ ReadsAlone(i) /\ Encoding(i) /\ Today(i) /\ InfoTrue(i) /\ RowKept(i)
  BY <1>1 DEF Core, Sound
<1>6. /\ Inside(i)' = Inside(i)
      /\ Some(i, {"reading", "sizing"})' <=> Some(i, {"reading", "sizing"})
  BY <1>0, StillInside DEF Entered
<1>7. Counted(i)' /\ ReadsAlone(i)' /\ HasStarter(i)' /\ Encoding(i)' /\ Today(i)'
  <2>1. Settled(i)
    BY <1>0 DEF Settled
  <2>2. Counted(i)'
    BY <1>0, <1>4, <1>5, <1>6 DEF Counted, Holds
  <2>3. ReadsAlone(i)' /\ HasStarter(i)'
    BY <1>0, <1>4, <1>5 DEF ReadsAlone, HasStarter
  <2>4. Today(i)'
    BY <1>0, <1>4, <1>5, <2>1 DEF Today
  <2>5. Encoding(i)'
    BY <1>0, <1>4, <1>5 DEF Encoding, Active
  <2> QED
    BY <2>2, <2>3, <2>4, <2>5
<1>8. InfoTrue(i)' /\ RowKept(i)'
  <2>1. Settled(i)
    BY <1>0 DEF Settled
  <2> QED
    BY <1>0, <1>2, <1>4, <1>5, <1>6, <2>1
       DEF InfoTrue, RowKept, Reading, Promise, Valid, Version
<1>9. Sound(i)'
  BY <1>7, <1>8 DEF Sound
<1>10. RowTrue(k)'
  BY <1>0, RowFrame DEF Core
<1> QED
  BY <1>0, <1>1, <1>2, <1>4, <1>9, <1>10, WorkerCore

LEMMA EndWorkCore == ASSUME MapInv, Core, NEW i \in Ids, EndWork(i) PROVE Core'
<1>1. PICK delete \in BOOLEAN : delete = (wpc[i] = "deleting")
  OBVIOUS
<1>0. /\ wpc[i] \in {"closing", "deleting"} /\ wpc' = [wpc EXCEPT ![i] = "none"]
      /\ CloseEntry(i, delete)
      /\ obj' = (IF delete /\ LastUser(i) THEN [obj EXCEPT ![i] = Gone] ELSE Unused(i))
      /\ UNCHANGED <<source, mount, upc, uobj>>
  BY <1>1 DEF EndWork, clock, users
<1>2. Live(i) /\ CacheTypeOK /\ obj[i].key \in Keys
  BY <1>0, WorkerHas
<1>3. PICK k \in Keys : k = obj[i].key
  BY <1>2
<1>4. wpc'[i] = "none" /\ \A j \in Ids : j # i => wpc'[j] = wpc[j]
  BY <1>0, <1>2 DEF CacheTypeOK
<1>5. Settled(i)
  BY <1>0 DEF Settled
<1>6. /\ row'[k] = obj[i].info /\ file'[k] \in {file[k], None}
      /\ \A n \in Keys : n # k => row'[n] = row[n] /\ file'[n] = file[n]
      /\ RowTrue(k)'
  BY <1>0, <1>2, <1>3, <1>5, ReleaseCore
<1>7. CASE delete /\ LastUser(i)
  <2>1. obj' = [obj EXCEPT ![i] = Gone] /\ obj[i] # None
    BY <1>0, <1>2, <1>7 DEF Live
  <2>2. ~Live(i)' /\ \A j \in Ids : j # i => obj'[j] = obj[j]
    BY <1>2, <2>1, Destroyed
  <2>3. Sound(i)'
    BY <2>2 DEF Sound
  <2> QED
    BY <1>0, <1>2, <1>3, <1>4, <1>6, <2>2, <2>3, WorkerCore
<1>8. CASE ~(delete /\ LastUser(i))
  <2>0. Changed(i, Less(i), obj[i].info, obj[i].ready, obj[i].decoding)
    BY <1>0, <1>2, <1>8, LessIs
  <2>1. /\ obj'[i].key = k /\ obj'[i].refs = Less(i) /\ obj'[i].info = obj[i].info
        /\ obj'[i].ready = obj[i].ready /\ obj'[i].decoding = obj[i].decoding
        /\ \A j \in Ids : j # i => obj'[j] = obj[j]
    BY <1>3, <2>0 DEF Changed
  <2>2. /\ Counted(i) /\ ReadsAlone(i) /\ Encoding(i) /\ Today(i) /\ InfoTrue(i)
    BY <1>2 DEF Core, Sound
  <2>3. /\ Inside(i)' = Inside(i)
        /\ Some(i, {"starting", "open"})' <=> Some(i, {"starting", "open"})
    BY <1>0, StillInside DEF Entered
  <2>4. Counted(i)'
    <3>1. Cardinality(Inside(i)) \in Nat
      BY InsideIs
    <3>2. Holds(i) = 1 /\ Holds(i)' = 0
      BY <1>0, <1>4 DEF Holds
    <3>3. obj[i].refs > 0 => Less(i) = obj[i].refs - 1
      BY <1>2, LessIs
    <3> QED
      BY <2>1, <2>2, <2>3, <3>1, <3>2, <3>3 DEF Counted
  <2>5. ReadsAlone(i)' /\ HasStarter(i)'
    BY <1>0, <1>4, <2>2 DEF ReadsAlone, HasStarter
  <2>6. Encoding(i)'
    BY <1>0, <1>4, <2>1, <2>2 DEF Encoding, Active
  <2>7. Today(i)' /\ InfoTrue(i)'
    BY <1>0, <1>3, <1>5, <1>6, <2>1, <2>2 DEF Today, InfoTrue, Valid, Version
  <2>8. RowKept(i)'
    BY <1>6, <2>1 DEF RowKept, Promise
  <2>9. Sound(i)'
    BY <2>4, <2>5, <2>6, <2>7, <2>8 DEF Sound
  <2> QED
    BY <1>0, <1>2, <1>3, <1>4, <1>6, <2>1, <2>9, WorkerCore
<1> QED
  BY <1>7, <1>8

-----------------------------------------------------------------------------
(* Maintenance, the clock, the sources and the mounts. *)

\* A step that the entries, the index, the files and the threads do not see.
LEMMA QuietCore ==
    ASSUME Core, UNCHANGED <<obj, row, file, source, mount, upc, uobj>>,
           \A j \in Ids : WorkerSame(j)
    PROVE  Core'
<1>1. \A j \in Ids : Sound(j)'
  BY SoundFrame DEF Core, Same
<1>2. \A n \in Keys : RowTrue(n)'
  BY RowFrame DEF Core
<1>3. Unique'
  BY UniqueFrame DEF Core, Live
<1> QED
  BY <1>1, <1>2, <1>3 DEF Core

LEMMA MaintainCore ==
    ASSUME MapInv, Core, NEW by \in Ids \cup {None}, Maintain(by) PROVE Core'
<1>1. /\ CacheTypeOK /\ UNCHANGED <<obj, row, file, source, mount, upc, uobj>>
      /\ IF by \in Ids
           THEN wpc[by] = "waiting" /\ wpc' = [wpc EXCEPT ![by] = "pruning"]
           ELSE UNCHANGED wpc
  BY DEF MapInv, Maintain, clock, users
<1>2. \A j \in Ids : WorkerSame(j)
  BY <1>1 DEF WorkerSame, CacheTypeOK
<1> QED
  BY <1>1, <1>2, QuietCore

LEMMA EndMaintenanceCore == ASSUME MapInv, Core, EndMaintenance PROVE Core'
<1>1. /\ CacheTypeOK /\ UNCHANGED <<obj, row, file, source, mount, upc, uobj>>
      /\ wpc' = (IF prune.by \in Ids
                   THEN [wpc EXCEPT ![prune.by] = IF prune.stage = "full" THEN "failing"
                                                  ELSE "writing"]
                   ELSE wpc)
      /\ prune.by \in Ids => wpc[prune.by] = "pruning"
  BY DEF MapInv, EndMaintenance, clock, users, PruneOK
<1>2. \A j \in Ids : WorkerSame(j)
  BY <1>1 DEF WorkerSame, CacheTypeOK
<1> QED
  BY <1>1, <1>2, QuietCore

LEMMA PruneEntryCore == ASSUME MapInv, Core, ~astray', PruneEntry PROVE Core'
<1>1. PICK k \in Keys : k = Head(prune.todo).key
  BY NextHas DEF PruneEntry
<1>0. /\ CacheTypeOK /\ prune.stage = "scan" /\ UNCHANGED <<source, mount, upc, uobj, wpc>>
  BY DEF MapInv, PruneEntry, clock, users
<1>2. CASE entry[k] = None
  <2>1. UNCHANGED <<obj, row, file>>
    BY <1>1, <1>2 DEF PruneEntry
  <2> QED
    BY <1>0, <2>1, QuietCore DEF WorkerSame
<1>3. CASE entry[k] # None
  <2>1. PICK i \in Ids : i = entry[k] /\ Live(i) /\ obj[i].key = k
    BY <1>0, <1>1, <1>3, NextHas
  <2>2. /\ CloseEntry(i, TRUE) /\ obj' = Unused(i) /\ ~InUse(i)
    BY <1>1, <1>3, <2>1 DEF PruneEntry
  <2>3. /\ wpc[i] = "none" /\ \A u \in Users : uobj[u] = i => upc[u] \notin Entered
    BY <2>2 DEF InUse, Entered
  <2>4. /\ Counted(i) /\ Encoding(i)
    BY <2>1 DEF Core, Sound
  <2>5. Inside(i) = {} /\ Cardinality(Inside(i)) = 0 /\ obj[i].refs = 0
    <3>1. Inside(i) = {}
      BY <2>3 DEF Inside
    <3> QED
      BY <2>3, <2>4, <3>1, FS_EmptySet DEF Counted, Holds
  <2>6. LastUser(i) /\ Less(i) = 0
    BY <2>5 DEF LastUser, Less
  <2>7. /\ row'[k] = obj[i].info /\ file'[k] = None
        /\ \A n \in Keys : n # k => row'[n] = row[n] /\ file'[n] = file[n]
    <3>1. /\ row'[obj[i].key] = obj[i].info
          /\ \A n \in Keys : n # obj[i].key => row'[n] = row[n] /\ file'[n] = file[n]
          /\ LastUser(i) => file'[obj[i].key] = None
      BY <2>1, <2>2, CloseEntryIs
    <3> QED
      BY <2>1, <2>6, <3>1
  <2>8. Changed(i, 0, obj[i].info, obj[i].ready, obj[i].decoding)
    BY <1>0, <2>1, <2>2, <2>6, LessIs
  <2>9. /\ obj'[i].key = k /\ obj'[i].refs = 0 /\ obj'[i].info = obj[i].info
        /\ obj'[i].ready = obj[i].ready /\ obj'[i].decoding = obj[i].decoding
        /\ \A j \in Ids : j # i => obj'[j] = obj[j]
    BY <2>1, <2>8 DEF Changed
  <2>10. Inside(i)' = Inside(i)
    BY <1>0, StillInside
  <2>11. Counted(i)' /\ ReadsAlone(i)' /\ HasStarter(i)' /\ Encoding(i)'
    BY <1>0, <2>3, <2>4, <2>5, <2>9, <2>10
       DEF Counted, Holds, ReadsAlone, HasStarter, Encoding, Active, Entered
  <2>12. ~Settled(i)' /\ Reading(i)'
    BY <1>0, <2>3, <2>9 DEF Settled, Some, Reading, Entered
  <2>13. Today(i)' /\ InfoTrue(i)' /\ RowKept(i)' /\ RowTrue(k)'
    BY <2>7, <2>9, <2>12 DEF Today, InfoTrue, RowKept, RowTrue, Valid
  <2>14. Sound(i)'
    BY <2>11, <2>13 DEF Sound
  <2> QED
    BY <1>0, <2>1, <2>7, <2>9, <2>13, <2>14, WorkerCore
<1> QED
  BY <1>2, <1>3

LEMMA PruneRowCore == ASSUME MapInv, Core, PruneRow PROVE Core'
<1>1. PICK k \in Keys : k = Head(prune.todo).key
  BY NextHas DEF PruneRow
<1>2. PICK v \in Ids \cup {None} : v = prune.victim
  BY DEF MapInv, PruneOK
<1>0. /\ CacheTypeOK /\ UNCHANGED <<source, mount, upc, uobj, wpc>>
      /\ obj' = (IF v = None THEN obj ELSE [obj EXCEPT ![v] = Gone])
      /\ row' = [row EXCEPT ![k] = None] /\ file' = [file EXCEPT ![k] = None]
      /\ v # None => obj[v] # None
  BY <1>1, <1>2 DEF MapInv, PruneRow, clock, users, PruneOK
<1>3. /\ \A j \in Ids : j # v => obj'[j] = obj[j]
      /\ \A j \in Ids : Live(j)' => j # v /\ Live(j)
  BY <1>0, <1>2, Destroyed, NothingAssumption DEF Live
<1>4. \A n \in Keys : row'[n] \in {row[n], None} /\ file'[n] \in {file[n], None}
  BY <1>0 DEF CacheTypeOK
<1>5. \A j \in Ids : Sound(j)'
  <2> SUFFICES ASSUME NEW j \in Ids PROVE Sound(j)'
    OBVIOUS
  <2>1. CASE j = v
    BY <1>3, <2>1 DEF Sound
  <2>2. CASE j # v
    <3>1. Live(j) => obj[j].key \in Keys
      BY <1>0, LiveIs
    <3> QED
      BY <1>0, <1>3, <1>4, <2>2, <3>1, SoundFrame DEF Core, WorkerSame, Same
  <2> QED
    BY <2>1, <2>2
<1>6. \A n \in Keys : RowTrue(n)'
  BY <1>0, <1>4, RowFrame DEF Core
<1>7. Unique'
  BY <1>3, UniqueFrame DEF Core
<1> QED
  BY <1>5, <1>6, <1>7 DEF Core

\* A source that was replaced is not what any encoding was made from.
LEMMA TouchCore == ASSUME MapInv, Core, NEW k \in Keys, Touch(k) PROVE Core'
<1>0. /\ CacheTypeOK /\ source' = [source EXCEPT ![k] = source[k] + 1]
      /\ UNCHANGED <<obj, row, file, mount, upc, uobj, wpc>>
  BY DEF MapInv, Touch, users
<1>1. /\ source'[k] = source[k] + 1 /\ source[k] \in Nat
      /\ \A n \in Keys : n # k => source'[n] = source[n]
  BY <1>0 DEF CacheTypeOK
<1>2. ASSUME NEW of, Past(of, k), of \in {None} \cup Origins PROVE of # Version(k)'
  <2>1. Version(k)'.source = source[k] + 1
    BY <1>1 DEF Version
  <2>2. CASE of = None
    <3>1. Mounts[mount'] \in Range(Mounts)
      BY <1>0, CacheAssumption DEF CacheTypeOK, Range
    <3>2. source'[k] \in Nat
      BY <1>1
    <3>3. Version(k)' \in Origins
      BY <3>1, <3>2 DEF Version, Origins
    <3> QED
      BY <2>2, <3>3, NothingAssumption
  <2>3. CASE of # None
    <3>1. of.source <= source[k] /\ of.source \in Nat
      BY <1>2, <2>3 DEF Past, Origins
    <3> QED
      BY <1>1, <2>1, <3>1
  <2> QED
    BY <2>2, <2>3
<1>3. row[k] # None => row[k].of # Version(k)'
  <2>1. row[k] # None => Past(row[k].of, k) /\ row[k].of \in {None} \cup Origins
    BY <1>0, InfoIs DEF MapInv, PastOK, CacheTypeOK
  <2> QED
    BY <1>2, <2>1
<1>4. \A n \in Keys : n # k => Version(n)' = Version(n)
  BY <1>0, <1>1 DEF Version
<1>5. \A n \in Keys : Promise(n)' => n # k /\ Promise(n)
  BY <1>0, <1>3, <1>4 DEF Promise
<1>6. \A n \in Keys : RowTrue(n)'
  BY <1>0, <1>5 DEF Core, RowTrue, Valid
<1>7. \A j \in Ids : Sound(j)'
  <2> SUFFICES ASSUME NEW j \in Ids, Live(j)' PROVE Sound(j)'
    BY DEF Sound
  <2>1. PICK n \in Keys : n = obj[j].key
    BY <1>0, LiveIs DEF Live
  <2>2. /\ Live(j) /\ Counted(j) /\ ReadsAlone(j) /\ HasStarter(j) /\ Encoding(j)
        /\ Today(j) /\ InfoTrue(j) /\ RowKept(j)
    BY <1>0 DEF Live, Core, Sound
  <2>3. Inside(j)' = Inside(j) /\ (Settled(j)' <=> Settled(j)) /\ (Reading(j)' <=> Reading(j))
        /\ (Some(j, {"starting"})' <=> Some(j, {"starting"}))
    BY <1>0 DEF Inside, Settled, Reading, Some
  <2>4. Counted(j)' /\ ReadsAlone(j)' /\ HasStarter(j)' /\ Encoding(j)' /\ Today(j)'
    BY <1>0, <2>2, <2>3 DEF Counted, Holds, ReadsAlone, HasStarter, Encoding, Today
  <2>5. obj[j].info.of = Version(n)' => n # k
    BY <1>0, <1>2, <2>1, <2>2, LiveIs, InfoIs DEF MapInv, PastOK
  <2>6. InfoTrue(j)'
    <3>1. obj[j].info.of = Version(n)' => obj[j].info.of = Version(n)
      BY <1>4, <2>5
    <3>2. Settled(j) \/ obj[j].info.of = Version(n) => Valid(obj[j].info, n)
      BY <2>1, <2>2 DEF InfoTrue
    <3>3. Settled(j)' \/ obj[j].info.of = Version(n)' => Valid(obj[j].info, n)
      BY <2>3, <3>1, <3>2
    <3>4. obj'[j] = obj[j] /\ obj'[j].key = n /\ file' = file
      BY <1>0, <2>1
    <3> QED
      BY <3>3, <3>4 DEF InfoTrue, Valid, Version
  <2>7. RowKept(j)'
    <3>1. ~Reading(j) /\ Promise(n) =>
            obj[j].info.result = "success" /\ obj[j].info.of = Version(n)
      BY <2>1, <2>2 DEF RowKept
    <3>2. ~Reading(j)' /\ Promise(n)' =>
            obj[j].info.result = "success" /\ obj[j].info.of = Version(n)'
      BY <1>4, <1>5, <2>3, <3>1
    <3>3. obj'[j] = obj[j] /\ obj'[j].key = n
      BY <1>0, <2>1
    <3> QED
      BY <3>2, <3>3 DEF RowKept, Promise, Version
  <2> QED
    BY <2>4, <2>6, <2>7 DEF Sound
<1>8. Unique'
  BY <1>0, UniqueFrame DEF Core, Live
<1> QED
  BY <1>6, <1>7, <1>8 DEF Core

\* No two mounts have the same settings.
Apart == \A m, n \in DOMAIN Mounts : Mounts[m] = Mounts[n] => m = n

\* An encoding of an earlier mount is not what this one asks for.
LEMMA RemountCore == ASSUME MapInv, Apart, Remount PROVE Core'
<1>0. /\ CacheTypeOK /\ mount < Len(Mounts) /\ mount' = mount + 1
      /\ obj' = [i \in Ids |-> None]
      /\ row' = [k \in Keys |-> None] \/ row' = row
  BY DEF MapInv, Remount, ClearIndex
<1>1. \A i \in Ids : ~Live(i)'
  BY <1>0 DEF Live
<1>2. ASSUME NEW k \in Keys, Promise(k)' PROVE FALSE
  <2>1. row[k] # None /\ row[k].of = Version(k)'
    BY <1>0, <1>2 DEF Promise
  <2>2. Past(row[k].of, k) /\ row[k].of \in {None} \cup Origins
    BY <1>0, <2>1, InfoIs DEF MapInv, PastOK, CacheTypeOK
  <2>3. /\ DOMAIN Mounts = 1..Len(Mounts) /\ Len(Mounts) \in Nat /\ mount \in 1..Len(Mounts)
        /\ source' = source /\ source[k] \in Nat
    BY <1>0, CacheAssumption DEF CacheTypeOK, Remount
  <2>4. Version(k)' \in Origins /\ Version(k)'.settings = Mounts[mount + 1]
    <3>1. Mounts[mount + 1] \in Range(Mounts)
      BY <1>0, <2>3 DEF Range
    <3> QED
      BY <1>0, <2>3, <3>1 DEF Version, Origins
  <2>5. PICK m \in 1..mount : row[k].of.settings = Mounts[m]
    BY <2>1, <2>2, <2>4, NothingAssumption DEF Past
  <2>6. m = mount + 1
    BY <1>0, <2>1, <2>3, <2>4, <2>5 DEF Apart
  <2> QED
    BY <2>3, <2>6
<1> QED
  BY <1>1, <1>2 DEF Core, Unique, Sound, RowTrue

-----------------------------------------------------------------------------
ServedInv == astray \/ Core

LEMMA ServedInit == ASSUME CacheInit PROVE ServedInv
BY DEF CacheInit, ServedInv, Core, Unique, Sound, Live, RowTrue, Promise

LEMMA ServedStep ==
    ASSUME Apart, MapInv, MapInv', ServedInv, [CacheNext]_cacheVars
    PROVE  ServedInv'
<1> SUFFICES ASSUME ~astray' PROVE Core'
  BY DEF ServedInv
<1>0. Core
  <2>1. CacheNext => (astray => astray')
    <3>1. \A u \in Users : (\E k \in Keys : Find(u, k)) => UNCHANGED astray
      BY DEF Find
    <3>2. \A u \in Users : Create(u) => (astray => astray')
      BY DEF Create
    <3>3. \A u \in Users : ReadRow(u) \/ Stamp(u) \/ Check(u) \/ Started(u) \/ Use(u)
            => UNCHANGED astray
      BY DEF ReadRow, Stamp, Check, Started, Use
    <3>4. \A u \in Users, b \in BOOLEAN : Enter(u, b) \/ Close(u, b) => UNCHANGED astray
      BY DEF Enter, Close
    <3>5. \A i \in Ids : Begin(i) \/ Write(i) \/ Finish(i) \/ EndWork(i) => UNCHANGED astray
      BY DEF Begin, Write, Finish, EndWork
    <3>6. \A i \in Ids, b \in BOOLEAN : Give(i, b) => UNCHANGED astray
      BY DEF Give
    <3>7. \A by \in Ids \cup {None} : Maintain(by) => UNCHANGED astray
      BY DEF Maintain
    <3>8. StartPass \/ PruneRow \/ EndMaintenance \/ Tick \/ Remount => UNCHANGED astray
      BY DEF StartPass, PruneRow, EndMaintenance, Tick, Remount
    <3>9. PruneEntry => (astray => astray')
      BY DEF PruneEntry
    <3>10. \A k \in Keys : Touch(k) => UNCHANGED astray
      BY DEF Touch
    <3> QED
      BY <3>1, <3>2, <3>3, <3>4, <3>5, <3>6, <3>7, <3>8, <3>9, <3>10 DEF CacheNext
  <2>2. UNCHANGED cacheVars => UNCHANGED astray
    BY DEF cacheVars
  <2> QED
    BY <2>1, <2>2 DEF ServedInv
<1>1. ASSUME NEW u \in Users, NEW k \in Keys, Find(u, k) PROVE Core'
  BY <1>0, <1>1, FindCore
<1>2. ASSUME NEW u \in Users, Create(u) PROVE Core'
  BY <1>0, <1>2, CreateCore
<1>3. ASSUME NEW u \in Users, ReadRow(u) PROVE Core'
  BY <1>0, <1>3, ReadRowCore
<1>4. ASSUME NEW u \in Users, Stamp(u) PROVE Core'
  BY <1>0, <1>4, StampCore
<1>5. ASSUME NEW u \in Users, Check(u) PROVE Core'
  BY <1>0, <1>5, CheckCore
<1>6. ASSUME NEW u \in Users, Started(u) PROVE Core'
  BY <1>0, <1>6, StartedCore
<1>7. ASSUME NEW u \in Users, Use(u) PROVE Core'
  BY <1>0, <1>7, UseCore
<1>8. ASSUME NEW u \in Users, NEW b \in BOOLEAN, Enter(u, b) PROVE Core'
  BY <1>0, <1>8, EnterCore
<1>9. ASSUME NEW u \in Users, NEW b \in BOOLEAN, Close(u, b) PROVE Core'
  BY <1>0, <1>9, CloseCore
<1>10. ASSUME NEW i \in Ids, Begin(i) PROVE Core'
  BY <1>0, <1>10, BeginCore
<1>11. ASSUME NEW i \in Ids, Write(i) PROVE Core'
  BY <1>0, <1>11, WriteCore
<1>12. ASSUME NEW i \in Ids, Finish(i) PROVE Core'
  BY <1>0, <1>12, FinishCore
<1>13. ASSUME NEW i \in Ids, EndWork(i) PROVE Core'
  BY <1>0, <1>13, EndWorkCore
<1>14. ASSUME NEW i \in Ids, NEW b \in BOOLEAN, Give(i, b) PROVE Core'
  BY <1>0, <1>14, GiveCore
<1>15. ASSUME NEW by \in Ids \cup {None}, Maintain(by) PROVE Core'
  BY <1>0, <1>15, MaintainCore
<1>16. ASSUME NEW k \in Keys, Touch(k) PROVE Core'
  BY <1>0, <1>16, TouchCore
<1>17. ASSUME StartPass \/ Tick \/ UNCHANGED cacheVars PROVE Core'
  BY <1>0, <1>17, QuietCore DEF StartPass, Tick, cacheVars, clock, users, WorkerSame
<1> QED
  BY <1>0, <1>1, <1>2, <1>3, <1>4, <1>5, <1>6, <1>7, <1>8, <1>9, <1>10, <1>11, <1>12, <1>13,
     <1>14, <1>15, <1>16, <1>17, PruneEntryCore, PruneRowCore, EndMaintenanceCore, RemountCore
     DEF CacheNext

\* What the invariant says of a file that is served.
LEMMA ServedFollows == ASSUME MapInv, ServedInv PROVE ServedIsWhole
<1> SUFFICES ASSUME NEW u \in Users, NEW i, NEW k, i = uobj[u], k = ukey[u],
                    ~astray, upc[u] = "open", Live(i), obj[i].ready,
                    obj[i].info.result = "success", file[k] # None
             PROVE  /\ file[k].whole /\ file[k].of = obj[i].info.of
                    /\ file[k].of.settings = Mounts[mount]
  BY DEF ServedIsWhole
<1>1. i \in Ids /\ obj[i].key = k
  BY UserHas
<1>2. Settled(i)
  BY DEF Settled, Some
<1>3. InfoTrue(i) /\ Today(i)
  BY <1>1 DEF ServedInv, Core, Sound
<1> QED
  BY <1>1, <1>2, <1>3 DEF InfoTrue, Today, Valid

\* A file that is served as complete was encoded to its end, from the source
\* and with the settings its entry tells of, and with those of this mount
\* (Cache_Entry::openio, outdated, closeio; Transcode's end; Cache::prune_*),
\* over crashes, remounts and pruning, as long as no entry went astray and
\* settings that were given up do not come back.
THEOREM ServedIsWholeHolds ==
    ASSUME Apart
    PROVE  CacheSpec => []ServedIsWhole
<1>1. CacheSpec => []MapInv
  BY InitMap, StepMap, PTL DEF CacheSpec
<1>2. CacheInit => ServedInv
  BY ServedInit
<1>3. MapInv /\ MapInv' /\ ServedInv /\ [CacheNext]_cacheVars => ServedInv'
  BY ServedStep
<1>4. MapInv /\ ServedInv => ServedIsWhole
  BY ServedFollows
<1> QED
  BY <1>1, <1>2, <1>3, <1>4, PTL DEF CacheSpec

-----------------------------------------------------------------------------
(***************************************************************************)
(* A pass over the cache size ends within the limit, for any number of     *)
(* files, of any sizes.  prune_cache_size adds up the sizes the rows tell  *)
(* it once and takes off what it removes; the property adds up the rows    *)
(* that are left.  The two sums go over different sets in different        *)
(* orders, so first: a sum does not depend on the order.                   *)
(***************************************************************************)
LEMMA LeastOf == ASSUME NEW S \in SUBSET Nat, S # {} PROVE \E x \in S : \A y \in S : x <= y
<1>1. PICK x \in S : \A y \in S : ~(<<y, x>> \in OpToRel(<, Nat))
  BY NatLessThanWellFounded, WFMin
<1>2. \A y \in S : ~(y < x)
  BY <1>1 DEF OpToRel
<1> QED
  BY <1>2

\* g has the sums of f over the subsets of D, added up in whatever order.
Sums(g, f, D) ==
    /\ g \in [SUBSET D -> Nat] /\ g[{}] = 0
    /\ \A S \in SUBSET D : S # {} => \E c \in S : g[S] = f[c] + g[S \ {c}]

LEMMA Smaller ==
    ASSUME NEW S, IsFiniteSet(S), NEW c \in S
    PROVE  Cardinality(S \ {c}) \in Nat /\ Cardinality(S) = Cardinality(S \ {c}) + 1
           /\ IsFiniteSet(S \ {c})
<1>1. IsFiniteSet(S \ {c}) /\ Cardinality(S \ {c}) = Cardinality(S) - 1 /\ Cardinality(S) \in Nat
  BY FS_RemoveElement, FS_CardinalityType
<1>2. Cardinality(S \ {c}) \in Nat
  BY <1>1, FS_CardinalityType
<1> QED
  BY <1>1, <1>2

\* The order does not matter.
LEMMA SumAdds ==
    ASSUME NEW D, IsFiniteSet(D), NEW f \in [D -> Nat], NEW g, Sums(g, f, D)
    PROVE  \A S \in SUBSET D, k \in D : k \notin S => g[S \cup {k}] = g[S] + f[k]
<1> DEFINE Adds(S) == \A k \in D : k \notin S => g[S \cup {k}] = g[S] + f[k]
           Bad == {n \in Nat : \E S \in SUBSET D : n = Cardinality(S) /\ ~Adds(S)}
<1>1. Bad = {}
  <2>1. SUFFICES ASSUME Bad # {} PROVE FALSE
    OBVIOUS
  <2>2. Bad \in SUBSET Nat
    OBVIOUS
  <2> HIDE DEF Bad
  <2>3. PICK n \in Bad : \A x \in Bad : n <= x
    BY <2>1, <2>2, LeastOf
  <2> HIDE DEF Adds
  <2>4. PICK S \in SUBSET D : n = Cardinality(S) /\ ~Adds(S)
    BY <2>3 DEF Bad
  <2>5. ASSUME NEW T \in SUBSET D, Cardinality(T) < Cardinality(S) PROVE Adds(T)
    <3>1. IsFiniteSet(T) /\ IsFiniteSet(S)
      BY FS_Subset
    <3>2. Cardinality(T) \in Nat /\ Cardinality(S) \in Nat
      BY <3>1, FS_CardinalityType
    <3>3. Cardinality(T) \notin Bad
      BY <2>3, <2>4, <2>5, <3>2
    <3> QED
      BY <3>2, <3>3 DEF Bad
  <2>6. PICK k \in D : k \notin S /\ g[S \cup {k}] # g[S] + f[k]
    BY <2>4 DEF Adds
  <2>7. S \cup {k} \in SUBSET D /\ S \cup {k} # {}
    OBVIOUS
  <2>8. PICK c \in S \cup {k} : g[S \cup {k}] = f[c] + g[(S \cup {k}) \ {c}]
    BY <2>7 DEF Sums
  <2>9. CASE c = k
    <3>1. (S \cup {k}) \ {c} = S
      BY <2>6, <2>9
    <3>2. g[S] \in Nat /\ f[k] \in Nat
      BY DEF Sums
    <3>3. g[S \cup {k}] = f[k] + g[S]
      BY <2>8, <2>9, <3>1
    <3> QED
      BY <2>6, <3>2, <3>3
  <2>10. CASE c # k
    <3> DEFINE T == S \ {c}
    <3>1. c \in S /\ (S \cup {k}) \ {c} = T \cup {k} /\ S = T \cup {c} /\ c \notin T /\ k \notin T
          /\ T \in SUBSET D /\ c \in D
      BY <2>6, <2>8, <2>10
    <3>2. Cardinality(T) < Cardinality(S)
      <4>1. IsFiniteSet(S)
        BY FS_Subset
      <4> QED
        BY <3>1, <4>1, Smaller
    <3> HIDE DEF T
    <3>3. Adds(T)
      BY <2>5, <3>1, <3>2
    <3>4. g[T \cup {k}] = g[T] + f[k] /\ g[T \cup {c}] = g[T] + f[c]
      BY <3>1, <3>3 DEF Adds
    <3>5. g[T] \in Nat /\ f[k] \in Nat /\ f[c] \in Nat
      BY <3>1 DEF Sums
    <3>6. g[S \cup {k}] = f[c] + g[T \cup {k}]
      BY <2>8, <3>1
    <3>7. g[S] = g[T] + f[c]
      BY <3>1, <3>4
    <3> QED
      BY <2>6, <3>4, <3>5, <3>6, <3>7
  <2> QED
    BY <2>9, <2>10
<1>2. ASSUME NEW S \in SUBSET D PROVE Adds(S)
  <2>1. Cardinality(S) \in Nat
    BY FS_Subset, FS_CardinalityType
  <2> HIDE DEF Adds
  <2> QED
    BY <1>1, <2>1
<1> QED
  BY <1>2

\* Sums of the same numbers are the same.
Image(b, S) == {b[d] : d \in S}
Matches(b, f, e, E, S) ==
    /\ \A d \in S : b[d] \in E /\ f[d] = e[b[d]]
    /\ \A c, d \in S : b[c] = b[d] => c = d

LEMMA SumsMatch ==
    ASSUME NEW D, IsFiniteSet(D), NEW f \in [D -> Nat], NEW g, Sums(g, f, D),
           NEW E, IsFiniteSet(E), NEW e \in [E -> Nat], NEW h, Sums(h, e, E), NEW b
    PROVE  \A S \in SUBSET D : Matches(b, f, e, E, S) => g[S] = h[Image(b, S)]
<1> DEFINE Right(S) == Matches(b, f, e, E, S) => g[S] = h[Image(b, S)]
           Bad == {n \in Nat : \E S \in SUBSET D : n = Cardinality(S) /\ ~Right(S)}
<1>1. Bad = {}
  <2>1. SUFFICES ASSUME Bad # {} PROVE FALSE
    OBVIOUS
  <2>2. Bad \in SUBSET Nat
    OBVIOUS
  <2> HIDE DEF Bad
  <2>3. PICK n \in Bad : \A x \in Bad : n <= x
    BY <2>1, <2>2, LeastOf
  <2> HIDE DEF Right
  <2>4. PICK S \in SUBSET D : n = Cardinality(S) /\ ~Right(S)
    BY <2>3 DEF Bad
  <2>5. ASSUME NEW T \in SUBSET D, Cardinality(T) < Cardinality(S) PROVE Right(T)
    <3>1. IsFiniteSet(T) /\ IsFiniteSet(S)
      BY FS_Subset
    <3>2. Cardinality(T) \in Nat /\ Cardinality(S) \in Nat
      BY <3>1, FS_CardinalityType
    <3>3. Cardinality(T) \notin Bad
      BY <2>3, <2>4, <2>5, <3>2
    <3> QED
      BY <3>2, <3>3 DEF Bad
  <2>6. Matches(b, f, e, E, S) /\ g[S] # h[Image(b, S)]
    BY <2>4 DEF Right
  <2>7. CASE S = {}
    <3>1. Image(b, S) = {}
      BY <2>7 DEF Image
    <3> QED
      BY <2>6, <2>7, <3>1 DEF Sums
  <2>8. CASE S # {}
    <3>1. PICK c \in S : g[S] = f[c] + g[S \ {c}]
      BY <2>8 DEF Sums
    <3> DEFINE T == S \ {c}
    <3>2. T \in SUBSET D /\ Matches(b, f, e, E, T)
      BY <2>6 DEF Matches
    <3>3. Cardinality(T) < Cardinality(S)
      <4>1. IsFiniteSet(S)
        BY FS_Subset
      <4>2. Cardinality(S \ {c}) \in Nat /\ Cardinality(S) = Cardinality(S \ {c}) + 1
        BY <4>1, Smaller
      <4> QED
        BY <4>2
    <3>4. Image(b, S) = Image(b, T) \cup {b[c]} /\ b[c] \notin Image(b, T)
      BY <2>6 DEF Image, Matches
    <3>5. Image(b, T) \in SUBSET E /\ b[c] \in E /\ f[c] = e[b[c]]
      BY <2>6 DEF Image, Matches
    <3>6. f[c] \in Nat /\ g[T] \in Nat /\ g[S] = f[c] + g[T]
      BY <3>1, <3>2 DEF Sums
    <3> HIDE DEF T
    <3>7. g[T] = h[Image(b, T)]
      BY <2>5, <3>2, <3>3 DEF Right
    <3>8. h[Image(b, T) \cup {b[c]}] = h[Image(b, T)] + e[b[c]]
      BY <3>4, <3>5, SumAdds
    <3> QED
      BY <2>6, <3>4, <3>5, <3>6, <3>7, <3>8
  <2> QED
    BY <2>7, <2>8
<1>2. ASSUME NEW S \in SUBSET D PROVE Right(S)
  <2>1. Cardinality(S) \in Nat
    BY FS_Subset, FS_CardinalityType
  <2> HIDE DEF Right
  <2> QED
    BY <1>1, <2>1
<1> QED
  BY <1>2

Finite(g, f, D) == IsFiniteSet(D) /\ f \in [D -> Nat] /\ Sums(g, f, D)
Paired(D, f, g, E, e, h, b) == Finite(g, f, D) /\ Finite(h, e, E) /\ Matches(b, f, e, E, D)

LEMMA SumsEqual ==
    ASSUME NEW D, NEW f, NEW g, NEW E, NEW e, NEW h, NEW b, Paired(D, f, g, E, e, h, b)
    PROVE  g[D] = h[Image(b, D)]
<1>0. /\ IsFiniteSet(D) /\ f \in [D -> Nat] /\ Sums(g, f, D)
      /\ IsFiniteSet(E) /\ e \in [E -> Nat] /\ Sums(h, e, E)
  BY DEF Paired, Finite
<1>1. \A S \in SUBSET D : Matches(b, f, e, E, S) => g[S] = h[Image(b, S)]
  BY <1>0, SumsMatch
<1>2. D \in SUBSET D
  OBVIOUS
<1> QED
  BY <1>1, <1>2 DEF Paired

\* What is zero does not count.
Zero(f, Z) == \A d \in Z : f[d] = 0

LEMMA SumOfZeros ==
    ASSUME NEW D, IsFiniteSet(D), NEW f \in [D -> Nat], NEW g, Sums(g, f, D),
           NEW Z \in SUBSET D, Zero(f, Z)
    PROVE  g[D] = g[D \ Z]
<1> DEFINE Right(S) == g[(D \ Z) \cup S] = g[D \ Z]
           Bad == {n \in Nat : \E S \in SUBSET Z : n = Cardinality(S) /\ ~Right(S)}
<1>1. Bad = {}
  <2>1. SUFFICES ASSUME Bad # {} PROVE FALSE
    OBVIOUS
  <2>2. Bad \in SUBSET Nat
    OBVIOUS
  <2> HIDE DEF Bad
  <2>3. PICK n \in Bad : \A x \in Bad : n <= x
    BY <2>1, <2>2, LeastOf
  <2> HIDE DEF Right
  <2>4. PICK S \in SUBSET Z : n = Cardinality(S) /\ ~Right(S)
    BY <2>3 DEF Bad
  <2>5. CASE S = {}
    <3>1. (D \ Z) \cup S = D \ Z
      BY <2>5
    <3> QED
      BY <2>4, <3>1 DEF Right
  <2>6. CASE S # {}
    <3>1. PICK c : c \in S
      BY <2>6
    <3> DEFINE T == S \ {c}
               R == (D \ Z) \cup T
    <3>2. IsFiniteSet(S)
      BY FS_Subset
    <3>3. Cardinality(T) \in Nat /\ Cardinality(T) < Cardinality(S)
      BY <3>1, <3>2, Smaller
    <3>4. T \in SUBSET Z
      OBVIOUS
    <3>5. Right(T)
      <4> HIDE DEF T
      <4>1. Cardinality(T) \notin Bad
        <5>1. Cardinality(S) \in Nat
          BY <3>2, FS_CardinalityType
        <5> QED
          BY <2>3, <2>4, <3>3, <5>1
      <4> QED
        BY <3>3, <3>4, <4>1 DEF Bad
    <3>6. R \in SUBSET D /\ c \in D /\ c \notin R /\ (D \ Z) \cup S = R \cup {c} /\ f[c] = 0
      BY <3>1 DEF Zero
    <3>7. g[R] = g[D \ Z]
      BY <3>5 DEF Right
    <3>8. g[R] \in Nat
      BY <3>6 DEF Sums
    <3> HIDE DEF R, T
    <3>9. g[R \cup {c}] = g[R] + f[c]
      BY <3>6, SumAdds
    <3>10. g[(D \ Z) \cup S] = g[R]
      BY <3>6, <3>8, <3>9
    <3> QED
      BY <2>4, <3>7, <3>10 DEF Right
  <2> QED
    BY <2>5, <2>6
<1>2. Right(Z)
  <2>1. Cardinality(Z) \in Nat
    BY FS_Subset, FS_CardinalityType
  <2> HIDE DEF Right
  <2> QED
    BY <1>1, <2>1
<1>3. (D \ Z) \cup Z = D
  OBVIOUS
<1> QED
  BY <1>2, <1>3

-----------------------------------------------------------------------------
(* Both sums are sums in this sense.                                       *)

\* The sums of f as a recursive function that takes the element c[s] of s first.
AddUp(g, f, c, s) == IF s = {} THEN 0 ELSE f[c[s]] + g[s \ {c[s]}]
Adding(g, f, c, D) == g = [s \in SUBSET D |-> AddUp(g, f, c, s)]
Picks(c, D)       == \A s \in SUBSET D : s # {} => c[s] \in s
Fewer(D, m)       == {s \in SUBSET D : Cardinality(s) <= m}

LEMMA SumsExist ==
    ASSUME NEW D, IsFiniteSet(D), NEW f, NEW c, Picks(c, D)
    PROVE  \E g : Adding(g, f, c, D)
<1> DEFINE Upto(m) == \E g : g = [s \in Fewer(D, m) |-> AddUp(g, f, c, s)]
           Bad == {m \in Nat : ~Upto(m)}
<1>1. \A s \in SUBSET D : Cardinality(s) \in Nat /\ Cardinality(s) <= Cardinality(D)
  BY FS_Subset, FS_CardinalityType
<1>2. \A s \in SUBSET D : s # {} => Cardinality(s) = Cardinality(s \ {c[s]}) + 1
  <2> SUFFICES ASSUME NEW s \in SUBSET D, s # {} PROVE Cardinality(s) = Cardinality(s \ {c[s]}) + 1
    OBVIOUS
  <2>1. IsFiniteSet(s) /\ c[s] \in s
    BY FS_Subset DEF Picks
  <2> QED
    BY <2>1, Smaller
<1>3. Bad = {}
  <2>1. SUFFICES ASSUME Bad # {} PROVE FALSE
    OBVIOUS
  <2>2. Bad \in SUBSET Nat
    OBVIOUS
  <2> HIDE DEF Bad
  <2>3. PICK m \in Bad : \A x \in Bad : m <= x
    BY <2>1, <2>2, LeastOf
  <2> HIDE DEF Upto
  <2>4. m \in Nat /\ ~Upto(m)
    BY <2>3 DEF Bad
  <2> USE DEF Upto
  <2>5. CASE m = 0
    <3> DEFINE g == [s \in Fewer(D, 0) |-> 0]
    <3>1. \A s \in Fewer(D, 0) : s = {}
      <4> SUFFICES ASSUME NEW s \in Fewer(D, 0), s # {} PROVE FALSE
        OBVIOUS
      <4>1. s \in SUBSET D /\ Cardinality(s) <= 0
        BY DEF Fewer
      <4>2. s \ {c[s]} \in SUBSET D
        BY <4>1
      <4>3. Cardinality(s \ {c[s]}) \in Nat /\ Cardinality(s) = Cardinality(s \ {c[s]}) + 1
        BY <1>1, <1>2, <4>1, <4>2
      <4> QED
        BY <4>1, <4>3
    <3>2. g = [s \in Fewer(D, 0) |-> AddUp(g, f, c, s)]
      BY <3>1 DEF AddUp
    <3> QED
      BY <2>4, <2>5, <3>2
  <2>6. CASE m # 0
    <3>1. m - 1 \in Nat /\ m - 1 < m
      BY <2>4, <2>6
    <3>2. Upto(m - 1)
      <4>1. m - 1 \notin Bad
        BY <2>3, <2>4, <3>1
      <4> HIDE DEF Upto
      <4> QED
        BY <3>1, <4>1 DEF Bad
    <3>3. PICK g : g = [s \in Fewer(D, m - 1) |-> AddUp(g, f, c, s)]
      BY <3>2
    <3> DEFINE h == [s \in Fewer(D, m) |-> AddUp(g, f, c, s)]
    <3>4. ASSUME NEW s \in Fewer(D, m - 1) PROVE g[s] = AddUp(g, f, c, s)
      BY <3>3
    <3>5. ASSUME NEW s \in Fewer(D, m), s # {} PROVE g[s \ {c[s]}] = h[s \ {c[s]}]
      <4> DEFINE t == s \ {c[s]}
      <4>1. s \in SUBSET D /\ Cardinality(s) <= m
        BY DEF Fewer
      <4>2. t \in SUBSET D
        BY <4>1
      <4>3. Cardinality(t) \in Nat /\ Cardinality(s) = Cardinality(t) + 1
        BY <1>1, <1>2, <3>5, <4>1, <4>2
      <4> HIDE DEF t
      <4>4. t \in Fewer(D, m - 1) /\ t \in Fewer(D, m)
        BY <2>4, <4>1, <4>2, <4>3 DEF Fewer
      <4>5. g[t] = AddUp(g, f, c, t)
        BY <3>4, <4>4
      <4>6. g[t] = h[t]
        BY <4>4, <4>5
      <4> QED
        BY <4>6 DEF t
    <3>6. \A s \in Fewer(D, m) : AddUp(g, f, c, s) = AddUp(h, f, c, s)
      <4> HIDE DEF h
      <4> QED
        BY <3>5 DEF AddUp
    <3>7. h = [s \in Fewer(D, m) |-> AddUp(h, f, c, s)]
      BY <3>6
    <3> QED
      BY <2>4, <3>7
  <2> QED
    BY <2>5, <2>6
<1>4. Upto(Cardinality(D))
  <2>1. Cardinality(D) \in Nat
    BY <1>1
  <2> HIDE DEF Upto
  <2> QED
    BY <1>3, <2>1
<1>5. Fewer(D, Cardinality(D)) = SUBSET D
  BY <1>1 DEF Fewer
<1> QED
  BY <1>4, <1>5 DEF Adding

\* Whichever is added to the other, a function of this kind has the sums.
LEMMA SumsAre ==
    ASSUME NEW D, IsFiniteSet(D), NEW f \in [D -> Nat], NEW g,
           g = [s \in SUBSET D |-> g[s]], g[{}] = 0,
           \A s \in SUBSET D : s # {} =>
               \E c \in s : g[s] = f[c] + g[s \ {c}] \/ g[s] = g[s \ {c}] + f[c]
    PROVE  Sums(g, f, D)
<1> DEFINE Bad == {n \in Nat : \E s \in SUBSET D : n = Cardinality(s) /\ g[s] \notin Nat}
<1>1. Bad = {}
  <2>1. SUFFICES ASSUME Bad # {} PROVE FALSE
    OBVIOUS
  <2>2. Bad \in SUBSET Nat
    OBVIOUS
  <2> HIDE DEF Bad
  <2>3. PICK n \in Bad : \A x \in Bad : n <= x
    BY <2>1, <2>2, LeastOf
  <2>4. PICK s \in SUBSET D : n = Cardinality(s) /\ g[s] \notin Nat
    BY <2>3 DEF Bad
  <2>5. s # {}
    <3>1. g[{}] \in Nat
      OBVIOUS
    <3> QED
      BY <2>4, <3>1
  <2>6. PICK c \in s : g[s] = f[c] + g[s \ {c}] \/ g[s] = g[s \ {c}] + f[c]
    BY <2>5
  <2> DEFINE t == s \ {c}
  <2>7. t \in SUBSET D /\ c \in D /\ IsFiniteSet(s)
    BY FS_Subset
  <2>8. Cardinality(t) \in Nat /\ Cardinality(s) = Cardinality(t) + 1
    BY <2>7, Smaller
  <2>9. g[s] = f[c] + g[t] \/ g[s] = g[t] + f[c]
    BY <2>6
  <2> HIDE DEF t
  <2>10. Cardinality(t) \notin Bad
    BY <2>3, <2>4, <2>8
  <2>11. g[t] \in Nat
    BY <2>7, <2>8, <2>10 DEF Bad
  <2>12. f[c] \in Nat
    BY <2>7
  <2> QED
    BY <2>4, <2>9, <2>11, <2>12
<1>2. ASSUME NEW s \in SUBSET D PROVE g[s] \in Nat
  <2>1. Cardinality(s) \in Nat
    BY FS_Subset, FS_CardinalityType
  <2> QED
    BY <1>1, <2>1
<1>3. ASSUME NEW s \in SUBSET D, s # {} PROVE \E c \in s : g[s] = f[c] + g[s \ {c}]
  <2>1. PICK c \in s : g[s] = f[c] + g[s \ {c}] \/ g[s] = g[s \ {c}] + f[c]
    BY <1>3
  <2> DEFINE t == s \ {c}
  <2>2. t \in SUBSET D /\ c \in D
    OBVIOUS
  <2>3. g[t] \in Nat /\ f[c] \in Nat
    BY <1>2, <2>2
  <2>4. f[c] + g[t] = g[t] + f[c]
    <3> HIDE DEF t
    <3> QED
      BY <2>3
  <2> QED
    BY <2>1, <2>4
<1>4. g \in [SUBSET D -> Nat]
  BY <1>2
<1> QED
  BY <1>3, <1>4 DEF Sums

LEMMA MaxIn ==
    ASSUME NEW n \in Nat, NEW S \in SUBSET (1..n), S # {}
    PROVE  Max(S) \in S
<1> DEFINE T == {n - x : x \in S}
<1>1. T \in SUBSET Nat /\ T # {}
  <2>1. \A x \in 1..n : n - x \in Nat
    OBVIOUS
  <2>2. \A x \in S : x \in 1..n
    OBVIOUS
  <2> QED
    BY <2>1, <2>2
<1>2. PICK y \in T : \A z \in T : y <= z
  BY <1>1, LeastOf
<1>3. PICK m \in S : y = n - m
  BY <1>2
<1>4. \A x \in S : m >= x
  BY <1>2, <1>3
<1> QED
  BY <1>4 DEF Max

-----------------------------------------------------------------------------
\* The sizes of rows, and those of the items of a list.
Sizes(r)  == [k \in Keys |-> IF r[k] = None THEN 0 ELSE r[k].size]
SizesOf(q) == [i \in 1..Len(q) |-> q[i].size]

LEMMA IndexedIs ==
    ASSUME NEW r \in [Keys -> Infos \cup {None}]
    PROVE  Sizes(r) \in [Keys -> Nat] /\ \E h : Sums(h, Sizes(r), Keys) /\ Indexed(r) = h[Keys]
<1> DEFINE f == Sizes(r)
           c == [s \in SUBSET Keys |-> CHOOSE x \in s : TRUE]
           Adds(g) == g = [s \in SUBSET Keys |-> IF s = {} THEN 0
                           ELSE f[CHOOSE x \in s : TRUE] + g[s \ {CHOOSE x \in s : TRUE}]]
<1>1. f \in [Keys -> Nat]
  <2> SUFFICES ASSUME NEW k \in Keys, r[k] # None PROVE r[k].size \in Nat
    BY DEF Sizes
  <2>1. r[k] \in Infos
    OBVIOUS
  <2> QED
    BY <2>1, InfoIs
<1>2. IsFiniteSet(Keys)
  BY CacheAssumption
<1>3. \A s \in SUBSET Keys : c[s] = CHOOSE x \in s : TRUE
  OBVIOUS
<1>4. \A s \in SUBSET Keys : s # {} => (CHOOSE x \in s : TRUE) \in s
  OBVIOUS
<1> HIDE DEF f, c
<1>5. PICK g : Adding(g, f, c, Keys)
  <2>1. Picks(c, Keys)
    BY <1>3, <1>4 DEF Picks
  <2> QED
    BY <1>2, <2>1, SumsExist
<1>6. Adds(g)
  <2>1. \A s \in SUBSET Keys : AddUp(g, f, c, s) = IF s = {} THEN 0
                           ELSE f[CHOOSE x \in s : TRUE] + g[s \ {CHOOSE x \in s : TRUE}]
    BY <1>3 DEF AddUp
  <2> QED
    BY <1>5, <2>1 DEF Adding
<1>7. \E h : Adds(h) /\ Indexed(r) = h[Keys]
  <2>1. \E h : Adds(h)
    BY <1>6
  <2> QED
    BY <2>1 DEF Indexed, FoldFunctionOnSet, MapThenFoldSet, f, Sizes
<1>8. PICK h : Adds(h) /\ Indexed(r) = h[Keys]
  BY <1>7
<1>9. h = [s \in SUBSET Keys |-> h[s]] /\ h[{}] = 0
  BY <1>8
<1>10. \A s \in SUBSET Keys : s # {} => \E x \in s : h[s] = f[x] + h[s \ {x}] \/ h[s] = h[s \ {x}] + f[x]
  BY <1>4, <1>8
<1>11. Sums(h, f, Keys)
  BY <1>1, <1>2, <1>9, <1>10, SumsAre
<1> QED
  BY <1>1, <1>8, <1>11 DEF f

LEMMA TotalIs ==
    ASSUME NEW q \in Seq(Items)
    PROVE  SizesOf(q) \in [1..Len(q) -> Nat] /\ \E g : Sums(g, SizesOf(q), 1..Len(q)) /\ Total(q) = g[1..Len(q)]
<1> DEFINE D == 1..Len(q)
           f == SizesOf(q)
           c == [s \in SUBSET D |-> Max(s)]
           Adds(g) == g = [s \in SUBSET D |-> IF s = {} THEN 0 ELSE g[s \ {Max(s)}] + q[Max(s)].size]
<1>1. f \in [D -> Nat] /\ DOMAIN q = D /\ Len(q) \in Nat
  <2>1. \A i \in D : q[i] \in Items
    BY ElementOfSeq
  <2> QED
    BY <2>1, LenProperties DEF SizesOf, Items
<1>2. IsFiniteSet(D)
  BY <1>1, FS_Interval
<1>3. \A s \in SUBSET D : s # {} => Max(s) \in s
  BY <1>1, MaxIn
<1>4. \A i \in D : f[i] = q[i].size
  BY DEF SizesOf
<1>5. \A s \in SUBSET D : c[s] = Max(s)
  OBVIOUS
<1> HIDE DEF c, D, f
<1>6. PICK g : Adding(g, f, c, D)
  <2>1. Picks(c, D)
    BY <1>3, <1>5 DEF Picks
  <2> QED
    BY <1>2, <2>1, SumsExist
<1>7. Sums(g, f, D)
  <2>1. g = [s \in SUBSET D |-> g[s]] /\ g[{}] = 0
    BY <1>6 DEF AddUp, Adding
  <2>2. \A s \in SUBSET D : s # {} => \E x \in s : g[s] = f[x] + g[s \ {x}] \/ g[s] = g[s \ {x}] + f[x]
    BY <1>3, <1>5, <1>6 DEF AddUp, Adding
  <2> QED
    BY <1>1, <1>2, <2>1, <2>2, SumsAre
<1>8. Adds(g)
  <2> SUFFICES ASSUME NEW s \in SUBSET D, s # {} PROVE g[s] = g[s \ {Max(s)}] + q[Max(s)].size
    BY <1>6 DEF AddUp, Adding
  <2>1. g[s] = f[Max(s)] + g[s \ {Max(s)}]
    BY <1>5, <1>6 DEF AddUp, Adding
  <2>2. Max(s) \in D /\ s \ {Max(s)} \in SUBSET D
    BY <1>3
  <2>3. f[Max(s)] = q[Max(s)].size /\ f[Max(s)] \in Nat /\ g[s \ {Max(s)}] \in Nat
    BY <1>1, <1>4, <1>7, <2>2 DEF Sums
  <2> QED
    BY <2>1, <2>3
<1>9. \E h : Adds(h) /\ Total(q) = h[DOMAIN q]
  BY <1>1, <1>8 DEF Total, FoldLeft, MapThenFoldSet
<1>10. PICK h : Adds(h) /\ Total(q) = h[D]
  BY <1>1, <1>9
<1>11. h = [s \in SUBSET D |-> h[s]] /\ h[{}] = 0
  BY <1>10
<1>12. \A s \in SUBSET D : s # {} => \E x \in s : h[s] = f[x] + h[s \ {x}] \/ h[s] = h[s \ {x}] + f[x]
  BY <1>3, <1>4, <1>10
<1>13. Sums(h, f, D)
  BY <1>1, <1>2, <1>11, <1>12, SumsAre
<1> QED
  BY <1>1, <1>10, <1>13 DEF f, D

-----------------------------------------------------------------------------
(* A list of items.                                                        *)

\* What is added up in a list without its head.
LEMMA TotalOfNone == Total(<<>>) = 0
<1> DEFINE q == <<>>
<1>1. q \in Seq(Items) /\ 1..Len(q) = {}
  OBVIOUS
<1> HIDE DEF q
<1>2. PICK g : Sums(g, SizesOf(q), 1..Len(q)) /\ Total(q) = g[1..Len(q)]
  BY <1>1, TotalIs
<1>3. Total(q) = 0
  BY <1>1, <1>2 DEF Sums
<1> QED
  BY <1>3 DEF q

LEMMA TotalTail ==
    ASSUME NEW q \in Seq(Items), q # <<>>
    PROVE  Total(q) - Head(q).size = Total(Tail(q)) /\ Total(Tail(q)) \in Nat
<1> DEFINE t == Tail(q)
           n == Len(q)
           D == 1..n
           E == 1..n - 1
           b == [i \in E |-> i + 1]
<1>1. /\ n \in Nat \ {0} /\ t \in Seq(Items) /\ Len(t) = n - 1 /\ Head(q) = q[1]
      /\ \A i \in 1..n - 1 : t[i] = q[i + 1]
  BY HeadTailProperties, LenProperties
<1> HIDE DEF t, n
<1>2. IsFiniteSet(D) /\ IsFiniteSet(E)
  BY <1>1, FS_Interval
<1>3. SizesOf(q) \in [D -> Nat] /\ \E g : Sums(g, SizesOf(q), D) /\ Total(q) = g[D]
  BY TotalIs DEF n
<1>4. SizesOf(t) \in [E -> Nat] /\ \E g : Sums(g, SizesOf(t), E) /\ Total(t) = g[E]
  BY <1>1, TotalIs
<1>5. PICK g : Sums(g, SizesOf(q), D) /\ Total(q) = g[D]
  BY <1>3
<1>6. PICK h : Sums(h, SizesOf(t), E) /\ Total(t) = h[E]
  BY <1>4
<1>7. Matches(b, SizesOf(t), SizesOf(q), D, E)
  <2>1. \A i \in E : b[i] = i + 1 /\ i + 1 \in D
    BY <1>1
  <2>2. \A i \in E : SizesOf(t)[i] = t[i].size
    BY <1>1 DEF SizesOf
  <2>3. \A i \in D : SizesOf(q)[i] = q[i].size
    BY DEF SizesOf, n
  <2>4. \A i \in E : SizesOf(t)[i] = SizesOf(q)[b[i]]
    <3> SUFFICES ASSUME NEW i \in E PROVE SizesOf(t)[i] = SizesOf(q)[b[i]]
      OBVIOUS
    <3>1. SizesOf(q)[b[i]] = q[i + 1].size
      BY <2>1, <2>3
    <3> QED
      BY <1>1, <2>2, <3>1
  <2>5. \A i, j \in E : b[i] = b[j] => i = j
    BY <1>1, <2>1
  <2> HIDE DEF b
  <2> QED
    BY <2>1, <2>4, <2>5 DEF Matches
<1>8. Image(b, E) = 2..n
  <2>1. \A i \in E : b[i] = i + 1 /\ i + 1 \in 2..n
    BY <1>1
  <2>2. \A m \in 2..n : m - 1 \in E /\ m = (m - 1) + 1
    BY <1>1
  <2> HIDE DEF b, E
  <2>3. \A m \in 2..n : \E i \in E : b[i] = m
    BY <2>1, <2>2
  <2> QED
    BY <2>1, <2>3 DEF Image
<1> DEFINE R == 2..n
<1>9. D = R \cup {1} /\ 1 \notin R /\ R \in SUBSET D /\ 1 \in D
  BY <1>1
<1>10. SizesOf(q)[1] = Head(q).size
  BY <1>1, <1>9 DEF SizesOf, n
<1> HIDE DEF D, E, b
<1>11. h[E] = g[Image(b, E)]
  <2>1. Paired(E, SizesOf(t), h, D, SizesOf(q), g, b)
    BY <1>2, <1>3, <1>4, <1>5, <1>6, <1>7 DEF Paired, Finite
  <2> QED
    BY <2>1, SumsEqual
<1> HIDE DEF R
<1>12. g[R \cup {1}] = g[R] + SizesOf(q)[1]
  BY <1>2, <1>3, <1>5, <1>9, SumAdds
<1>13. g[R] \in Nat /\ SizesOf(q)[1] \in Nat
  BY <1>3, <1>5, <1>9 DEF Sums
<1>14. Total(t) = g[R]
  BY <1>6, <1>8, <1>11 DEF R
<1>15. Total(q) = g[R] + Head(q).size
  BY <1>5, <1>9, <1>10, <1>12
<1>16. Head(q).size \in Nat
  BY <1>10, <1>13
<1> QED
  BY <1>13, <1>14, <1>15, <1>16 DEF t

-----------------------------------------------------------------------------
\* A list that tells the sizes of the rows there are.
Tells(r, q) ==
    /\ \A i \in 1..Len(q) : r[q[i].key] # None /\ q[i].size = r[q[i].key].size
    /\ \A i, j \in 1..Len(q) : q[i].key = q[j].key => i = j
    /\ \A k \in Keys : r[k] # None => \E i \in 1..Len(q) : q[i].key = k
Without(r, k) == [r EXCEPT ![k] = None]

LEMMA TellsTotal ==
    ASSUME NEW r \in [Keys -> Infos \cup {None}], NEW q \in Seq(Items), Tells(r, q)
    PROVE  Total(q) = Indexed(r)
<1> DEFINE D == 1..Len(q)
           b == [i \in D |-> q[i].key]
           Z == {k \in Keys : r[k] = None}
<1>1. Len(q) \in Nat /\ \A i \in D : q[i].key \in Keys
  <2>1. \A i \in D : q[i] \in Items
    BY ElementOfSeq
  <2> QED
    BY <2>1, LenProperties DEF Items
<1>2. IsFiniteSet(D) /\ IsFiniteSet(Keys)
  BY <1>1, FS_Interval, CacheAssumption
<1>3. SizesOf(q) \in [D -> Nat] /\ \E g : Sums(g, SizesOf(q), D) /\ Total(q) = g[D]
  BY TotalIs
<1>4. Sizes(r) \in [Keys -> Nat] /\ \E h : Sums(h, Sizes(r), Keys) /\ Indexed(r) = h[Keys]
  BY IndexedIs
<1>5. PICK g : Sums(g, SizesOf(q), D) /\ Total(q) = g[D]
  BY <1>3
<1>6. PICK h : Sums(h, Sizes(r), Keys) /\ Indexed(r) = h[Keys]
  BY <1>4
<1>7. Matches(b, SizesOf(q), Sizes(r), Keys, D)
  <2>1. \A i \in D : b[i] = q[i].key /\ q[i].key \in Keys
    BY <1>1
  <2>2. \A i \in D : SizesOf(q)[i] = q[i].size
    BY DEF SizesOf
  <2>3. \A k \in Keys : r[k] # None => Sizes(r)[k] = r[k].size
    BY DEF Sizes
  <2>4. \A i \in D : r[q[i].key] # None /\ q[i].size = r[q[i].key].size
    BY DEF Tells
  <2>5. \A i \in D : SizesOf(q)[i] = Sizes(r)[b[i]]
    <3> HIDE DEF b, D
    <3> QED
      BY <2>1, <2>2, <2>3, <2>4
  <2>6. \A i, j \in D : b[i] = b[j] => i = j
    BY <2>1 DEF Tells
  <2> HIDE DEF b, D
  <2> QED
    BY <2>1, <2>5, <2>6 DEF Matches
<1>8. Image(b, D) = Keys \ Z
  <2>1. \A i \in D : b[i] = q[i].key
    OBVIOUS
  <2>2. \A i \in D : q[i].key \in Keys \ Z
    BY <1>1 DEF Tells
  <2>3. \A k \in Keys \ Z : \E i \in D : q[i].key = k
    BY DEF Tells
  <2> HIDE DEF b, D, Z
  <2> QED
    BY <2>1, <2>2, <2>3 DEF Image
<1>9. \A k \in Z : Sizes(r)[k] = 0
  BY DEF Sizes
<1>10. Z \in SUBSET Keys
  OBVIOUS
<1> HIDE DEF D, b, Z
<1> DEFINE f == SizesOf(q)
           e == Sizes(r)
<1>11. f \in [D -> Nat] /\ Sums(g, f, D)
  BY <1>3, <1>5
<1>12. e \in [Keys -> Nat] /\ Sums(h, e, Keys)
  BY <1>4, <1>6
<1>13. Matches(b, f, e, Keys, D)
  BY <1>7
<1>14. Z \in SUBSET Keys /\ Zero(e, Z)
  BY <1>9, <1>10 DEF Zero
<1> HIDE DEF f, e
<1>15. g[D] = h[Image(b, D)]
  <2>1. Paired(D, f, g, Keys, e, h, b)
    BY <1>2, <1>11, <1>12, <1>13 DEF Paired, Finite
  <2> QED
    BY <2>1, SumsEqual
<1>16. h[Keys] = h[Keys \ Z]
  BY <1>2, <1>12, <1>14, SumOfZeros
<1> QED
  BY <1>5, <1>6, <1>8, <1>15, <1>16

LEMMA TellsTail ==
    ASSUME NEW r \in [Keys -> Infos \cup {None}], NEW q \in Seq(Items), q # <<>>, Tells(r, q)
    PROVE  Tells(Without(r, Head(q).key), Tail(q))
<1> DEFINE t == Tail(q)
           k == Head(q).key
           w == Without(r, k)
<1>1. /\ Len(q) \in Nat \ {0} /\ Len(t) = Len(q) - 1 /\ Head(q) = q[1]
      /\ \A i \in 1..Len(q) - 1 : t[i] = q[i + 1]
  BY HeadTailProperties, LenProperties
<1>2. \A i \in 1..Len(q) : q[i].key \in Keys
  <2>1. \A i \in 1..Len(q) : q[i] \in Items
    BY ElementOfSeq
  <2> QED
    BY <2>1 DEF Items
<1>3. k = q[1].key /\ 1 \in 1..Len(q) /\ k \in Keys
  BY <1>1, <1>2
<1>4. w[k] = None /\ \A j \in Keys : j # k => w[j] = r[j]
  BY <1>3 DEF Without
<1> HIDE DEF t, k, w
<1>5. ASSUME NEW i \in 1..Len(t) PROVE w[t[i].key] # None /\ t[i].size = w[t[i].key].size
  <2>1. i + 1 \in 1..Len(q) /\ i + 1 # 1 /\ t[i] = q[i + 1]
    BY <1>1
  <2>2. q[i + 1].key # k /\ q[i + 1].key \in Keys
    BY <1>2, <1>3, <2>1 DEF Tells
  <2>3. r[q[i + 1].key] # None /\ q[i + 1].size = r[q[i + 1].key].size
    BY <2>1 DEF Tells
  <2>4. w[q[i + 1].key] = r[q[i + 1].key]
    BY <1>4, <2>2
  <2> QED
    BY <2>1, <2>3, <2>4
<1>6. ASSUME NEW i \in 1..Len(t), NEW j \in 1..Len(t), t[i].key = t[j].key PROVE i = j
  <2>1. /\ i + 1 \in 1..Len(q) /\ t[i] = q[i + 1] /\ i \in Int
        /\ j + 1 \in 1..Len(q) /\ t[j] = q[j + 1] /\ j \in Int
    BY <1>1
  <2>2. i + 1 = j + 1
    BY <1>6, <2>1 DEF Tells
  <2> QED
    BY <2>1, <2>2
<1>7. ASSUME NEW j \in Keys, w[j] # None PROVE \E i \in 1..Len(t) : t[i].key = j
  <2>1. j # k /\ r[j] # None
    BY <1>4, <1>7
  <2>2. PICK i \in 1..Len(q) : q[i].key = j
    BY <2>1 DEF Tells
  <2>3. i # 1
    BY <1>3, <2>1, <2>2
  <2>4. i - 1 \in 1..Len(t) /\ i = (i - 1) + 1
    BY <1>1, <2>3
  <2>5. t[i - 1] = q[i]
    BY <1>1, <2>4
  <2> QED
    BY <2>2, <2>4, <2>5
<1>8. Tells(w, t)
  BY <1>5, <1>6, <1>7 DEF Tells
<1> QED
  BY <1>8 DEF t, k, w

\* What a pass lists is told.
LEMMA ListedTells ==
    ASSUME CacheTypeOK, NEW s \in Orders(Rows)
    PROVE  Tells(row, Listed(s))
<1> DEFINE n == Cardinality(Rows)
           q == Listed(s)
<1>1. IsFiniteSet(Rows) /\ n \in Nat
  <2>1. IsFiniteSet(Rows)
    BY CacheAssumption, FS_Subset DEF Rows
  <2> QED
    BY <2>1, FS_CardinalityType
<1>2. s \in [1..n -> Rows] /\ IsInjective(s) /\ DOMAIN s = 1..n
  BY DEF Orders
<1>3. s \in Surjection(1..n, Rows)
  <2>1. s \in Injection(1..n, Rows)
    BY <1>2 DEF Injection
  <2>2. Cardinality(1..n) = n
    BY <1>1, FS_Interval
  <2> QED
    BY <1>1, <2>1, <2>2, FS_Injection
<1>4. \A k \in Rows : \E i \in 1..n : s[i] = k
  BY <1>3 DEF Surjection
<1>5. Len(q) = n /\ \A i \in 1..n : q[i].key = s[i] /\ q[i].size = row[s[i]].size
  <2> HIDE DEF n
  <2> QED
    BY <1>1, <1>2 DEF Listed
<1>6. \A i \in 1..n : s[i] \in Keys /\ row[s[i]] # None
  BY <1>2 DEF Rows
<1> HIDE DEF n, q
<1>7. \A i \in 1..n : row[q[i].key] # None /\ q[i].size = row[q[i].key].size
  BY <1>5, <1>6
<1>8. \A i, j \in 1..n : q[i].key = q[j].key => i = j
  BY <1>2, <1>5 DEF IsInjective
<1>9. \A k \in Keys : row[k] # None => \E i \in 1..n : q[i].key = k
  BY <1>4, <1>5 DEF Rows
<1> QED
  BY <1>5, <1>7, <1>8, <1>9 DEF Tells, q

-----------------------------------------------------------------------------
(* The pass under way.                                                     *)

\* What a pass over the size still lists is all there is, and left adds it up.
SizePass ==
    /\ prune.stage = "idle" => prune.plan = <<>>
    /\ prune.stage \in {"scan", "drop"} /\ Head(prune.plan) = "size" =>
         prune.left = Total(prune.todo) /\ prune.need = MaxCacheSize
    /\ prune.stage = "scan" /\ Head(prune.plan) = "size" => Tells(row, prune.todo)
    /\ prune.stage = "drop" /\ Head(prune.plan) = "size" =>
         Tells(Without(row, Head(prune.todo).key), Tail(prune.todo))

\* No row changes while a pass goes over the rows, but by the pass.
LEMMA SizeFrame ==
    ASSUME SizePass, UNCHANGED prune, IndexFree \/ row' = row
    PROVE  SizePass'
<1>1. CASE IndexFree
  BY <1>1 DEF SizePass, IndexFree
<1>2. CASE row' = row
  <2>1. Tells(row', prune'.todo) <=> Tells(row, prune.todo)
    BY <1>2
  <2>2. Tells(Without(row', Head(prune'.todo).key), Tail(prune'.todo))
          <=> Tells(Without(row, Head(prune.todo).key), Tail(prune.todo))
    BY <1>2
  <2> QED
    BY <2>1, <2>2 DEF SizePass
<1> QED
  BY <1>1, <1>2

LEMMA SizeOthers ==
    ASSUME SizePass, CacheNext
    PROVE  \/ SizePass'
           \/ \E by \in Ids \cup {None} : Maintain(by)
           \/ StartPass \/ PruneEntry \/ PruneRow \/ EndMaintenance \/ Remount
<1>1. ASSUME NEW u \in Users,
             \/ \E k \in Keys : Find(u, k)
             \/ Create(u) \/ ReadRow(u) \/ Stamp(u) \/ Check(u) \/ Started(u) \/ Use(u)
             \/ \E b \in BOOLEAN : Enter(u, b) \/ Close(u, b)
      PROVE  UNCHANGED prune /\ (IndexFree \/ row' = row)
  BY <1>1 DEF Find, Create, ReadRow, Stamp, Check, Started, Use, Enter, Close
<1>2. ASSUME NEW i \in Ids,
             \/ Begin(i) \/ Write(i) \/ Finish(i) \/ EndWork(i)
             \/ \E timeout \in BOOLEAN : Give(i, timeout)
      PROVE  UNCHANGED prune /\ (IndexFree \/ row' = row)
  BY <1>2 DEF Begin, Write, Finish, EndWork, Give
<1>3. ASSUME Tick \/ \E k \in Keys : Touch(k)
      PROVE  UNCHANGED prune /\ row' = row
  BY <1>3 DEF Tick, Touch
<1> QED
  BY <1>1, <1>2, <1>3, SizeFrame DEF CacheNext

LEMMA SizeInit == CacheInit => SizePass
BY DEF CacheInit, Idle, SizePass

LEMMA SizeEnds ==
    ASSUME EndMaintenance \/ Remount
    PROVE  SizePass'
<1>1. prune' = Idle
  BY DEF EndMaintenance, Remount
<1> QED
  BY <1>1 DEF Idle, SizePass

LEMMA SizeMaintain ==
    ASSUME NEW by \in Ids \cup {None}, Maintain(by)
    PROVE  SizePass'
<1>1. prune'.stage = "next"
  BY DEF Maintain, Idle
<1> QED
  BY <1>1 DEF SizePass

\* What a step leaves of the record of the pass.
LEMMA PassIs ==
    ASSUME MapInv
    PROVE  prune \in [stage : {"idle", "next", "scan", "drop", "full"}, plan : {prune.plan},
                      todo : Seq(Items), left : {prune.left}, need : {prune.need},
                      by : Ids \cup {None}, victim : Ids \cup {None}]
BY DEF MapInv, PruneOK

LEMMA ScanSets ==
    ASSUME MapInv, NEW todo, NEW left, NEW need, Scan(todo, left, need)
    PROVE  \/ prune'.stage = "next"
           \/ /\ prune'.stage = "scan" /\ prune'.plan = prune.plan /\ prune'.todo = todo
              /\ prune'.left = left /\ prune'.need = need
<1>1. CASE todo = <<>>
  BY <1>1, PassIs DEF Scan
<1>2. CASE todo # <<>>
  <2>1. prune' = [prune EXCEPT !.stage = "scan", !.plan = prune.plan, !.todo = todo,
                               !.left = left, !.need = need]
    BY <1>2 DEF Scan
  <2> QED
    BY <2>1, PassIs
<1> QED
  BY <1>1, <1>2

LEMMA SizeStart ==
    ASSUME MapInv, StartPass
    PROVE  SizePass'
<1>0. CacheTypeOK /\ row' = row
  BY DEF MapInv, StartPass
<1>1. CASE Head(prune.plan) = "expired"
  <2>1. PICK s \in Orders(Expired) : Scan(Listed(s), 0, 0)
    BY <1>1 DEF StartPass
  <2>2. prune'.stage = "next" \/ (prune'.stage = "scan" /\ prune'.plan = prune.plan)
    BY <2>1, ScanSets
  <2> QED
    BY <1>1, <2>2 DEF SizePass
<1>2. CASE Head(prune.plan) = "size"
  <2>1. PICK s \in ByAccess :
               \/ Scan(<<>>, 0, 0)
               \/ Scan(Listed(s), Total(Listed(s)), MaxCacheSize)
    BY <1>2 DEF StartPass
  <2>2. CASE Scan(<<>>, 0, 0)
    <3>1. prune'.stage = "next"
      BY <2>2, PassIs DEF Scan
    <3> QED
      BY <3>1 DEF SizePass
  <2>3. CASE Scan(Listed(s), Total(Listed(s)), MaxCacheSize)
    <3>1. \/ prune'.stage = "next"
          \/ /\ prune'.stage = "scan" /\ prune'.plan = prune.plan /\ prune'.todo = Listed(s)
             /\ prune'.left = Total(Listed(s)) /\ prune'.need = MaxCacheSize
      BY <2>3, ScanSets
    <3>2. Tells(row, Listed(s))
      BY <1>0, ListedTells DEF ByAccess
    <3> QED
      BY <1>0, <3>1, <3>2 DEF SizePass
  <2> QED
    BY <2>1, <2>2, <2>3
<1>3. CASE Head(prune.plan) \notin {"expired", "size"}
  <2> DEFINE need == MinDiskSpace + Predicted
  <2>1. PICK s \in ByAccess, free \in FreeSpace :
          IF free < Predicted
            THEN prune' = [prune EXCEPT !.stage = "full", !.plan = <<>>]
          ELSE IF free >= need THEN Scan(<<>>, 0, 0)
          ELSE Scan(Listed(s), 0, need - free)
    BY <1>3 DEF StartPass
  <2> HIDE DEF need
  <2>2. \/ prune' = [prune EXCEPT !.stage = "full", !.plan = <<>>]
        \/ Scan(<<>>, 0, 0)
        \/ Scan(Listed(s), 0, need - free)
    BY <2>1
  <2>3. \/ prune'.stage \in {"full", "next"}
        \/ prune'.stage = "scan" /\ prune'.plan = prune.plan
    BY <2>2, ScanSets, PassIs
  <2> QED
    BY <1>3, <2>3 DEF SizePass
<1> QED
  BY <1>1, <1>2, <1>3

\* The entry's closing writes no row but the one that is removed next.
LEMMA SizeEntry ==
    ASSUME MapInv, SizePass, PruneEntry
    PROVE  SizePass'
<1> DEFINE k == Head(prune.todo).key
           i == entry[k]
<1>1. prune.stage = "scan" /\ prune.todo \in Seq(Items) /\ prune.todo # <<>>
  BY DEF PruneEntry, MapInv, PruneOK
<1>2. /\ prune'.stage = "drop" /\ prune'.plan = prune.plan /\ prune'.todo = prune.todo
      /\ prune'.left = prune.left /\ prune'.need = prune.need
  <2> DEFINE victim == IF i # None /\ LastUser(i) THEN i ELSE None
  <2>1. prune' = [prune EXCEPT !.stage = "drop", !.victim = victim]
    BY DEF PruneEntry
  <2> HIDE DEF victim
  <2> QED
    BY <2>1, PassIs
<1>3. k \in Keys /\ (i # None => i \in Ids /\ obj[i].key = k) /\ row \in [Keys -> Infos \cup {None}]
  BY <1>1, NextHas DEF MapInv, CacheTypeOK
<1>4. Without(row', k) = Without(row, k)
  <2>1. CASE i = None
    BY <2>1 DEF PruneEntry
  <2>2. CASE i # None
    <3>1. row' = [row EXCEPT ![k] = obj[i].info]
      BY <1>3, <2>2 DEF PruneEntry, CloseEntry
    <3> HIDE DEF k
    <3> QED
      BY <1>3, <3>1 DEF Without
  <2> QED
    BY <2>1, <2>2
<1>5. CASE Head(prune.plan) = "size"
  <2>1. Tells(row, prune.todo) /\ prune.left = Total(prune.todo) /\ prune.need = MaxCacheSize
    BY <1>1, <1>5 DEF SizePass
  <2>2. Tells(Without(row, k), Tail(prune.todo))
    BY <1>1, <1>3, <2>1, TellsTail
  <2>3. Tells(Without(row', Head(prune'.todo).key), Tail(prune'.todo))
    BY <1>2, <1>4, <2>2
  <2>4. prune'.left = Total(prune'.todo) /\ prune'.need = MaxCacheSize
    BY <1>2, <2>1
  <2> QED
    BY <1>2, <2>3, <2>4 DEF SizePass
<1>6. CASE Head(prune.plan) # "size"
  BY <1>2, <1>6 DEF SizePass
<1> QED
  BY <1>5, <1>6

\* Each row that goes is taken off what is left, until that is within the limit.
LEMMA SizeRow ==
    ASSUME MapInv, SizePass, PruneRow
    PROVE  /\ SizePass'
           /\ Head(prune.plan) = "size" /\ prune'.stage = "next" => Indexed(row') <= MaxCacheSize
<1> DEFINE k == Head(prune.todo).key
           rest == Tail(prune.todo)
           done == rest = <<>> \/ Enough(Gained)
<1>1. /\ prune.stage = "drop" /\ prune.todo \in Seq(Items) /\ prune.todo # <<>>
      /\ row' = [row EXCEPT ![k] = None]
      /\ row \in [Keys -> Infos \cup {None}] /\ k \in Keys /\ rest \in Seq(Items)
  <2>1. prune.stage = "drop" /\ prune.todo \in Seq(Items) /\ prune.todo # <<>>
        /\ row' = [row EXCEPT ![k] = None]
    BY DEF PruneRow, MapInv, PruneOK
  <2> QED
    BY <2>1, NextHas DEF MapInv, CacheTypeOK
<1>2. /\ prune'.stage = (IF done THEN "next" ELSE "scan")
      /\ ~done => prune'.plan = prune.plan /\ prune'.todo = rest
      /\ prune'.left = Gained /\ prune'.need = prune.need
  <2> DEFINE stage == IF done THEN "next" ELSE "scan"
             plan  == IF done THEN Tail(prune.plan) ELSE prune.plan
             todo  == IF done THEN <<>> ELSE rest
             left  == Gained
  <2>1. prune' = [prune EXCEPT !.stage = stage, !.plan = plan, !.todo = todo,
                               !.left = left, !.victim = None]
    BY DEF PruneRow
  <2>2. ~done => plan = prune.plan /\ todo = rest
    OBVIOUS
  <2> HIDE DEF stage, plan, todo, left, done, rest
  <2>3. prune'.stage = stage /\ prune'.plan = plan /\ prune'.todo = todo
        /\ prune'.left = left /\ prune'.need = prune.need
    BY <2>1, PassIs
  <2> QED
    BY <2>2, <2>3 DEF stage, left
<1>3. CASE Head(prune.plan) = "size"
  <2>1. /\ prune.left = Total(prune.todo) /\ prune.need = MaxCacheSize
        /\ Tells(Without(row, k), rest)
    BY <1>1, <1>3 DEF SizePass
  <2>2. row' = Without(row, k) /\ row' \in [Keys -> Infos \cup {None}]
    BY <1>1 DEF Without
  <2>3. Gained = Total(rest)
    <3>1. Total(prune.todo) - Head(prune.todo).size = Total(rest)
      BY <1>1, TotalTail
    <3> QED
      BY <1>3, <2>1, <3>1 DEF Gained
  <2>4. Tells(row', rest)
    BY <2>1, <2>2
  <2>5. Indexed(row') = Total(rest)
    <3> HIDE DEF rest
    <3> QED
      BY <1>1, <2>2, <2>4, TellsTotal
  <2>6. CASE done
    <3>1. Total(rest) <= MaxCacheSize
      <4>1. CASE rest = <<>>
        <5>1. MaxCacheSize \in Nat
          BY CacheAssumption
        <5>2. Total(rest) = 0
          BY <4>1, TotalOfNone
        <5> HIDE DEF rest
        <5> QED
          BY <5>1, <5>2
      <4>2. CASE Enough(Gained)
        BY <1>3, <2>1, <2>3, <4>2 DEF Enough
      <4> QED
        BY <2>6, <4>1, <4>2
    <3>2. prune'.stage = "next"
      BY <1>2, <2>6
    <3> QED
      BY <2>5, <3>1, <3>2 DEF SizePass
  <2>7. CASE ~done
    <3>1. /\ prune'.stage = "scan" /\ prune'.plan = prune.plan /\ prune'.todo = rest
          /\ prune'.left = Total(rest) /\ prune'.need = MaxCacheSize
      BY <1>2, <2>1, <2>3, <2>7
    <3>2. Tells(row', prune'.todo) /\ prune'.left = Total(prune'.todo)
      BY <2>4, <3>1
    <3> QED
      BY <3>1, <3>2 DEF SizePass
  <2> QED
    BY <2>6, <2>7
<1>4. CASE Head(prune.plan) # "size"
  <2>1. prune'.stage = "next" \/ (prune'.stage = "scan" /\ Head(prune'.plan) # "size")
    BY <1>2, <1>4
  <2> QED
    BY <1>4, <2>1 DEF SizePass
<1> QED
  BY <1>3, <1>4

LEMMA SizeStep ==
    ASSUME MapInv, SizePass, [CacheNext]_cacheVars
    PROVE  SizePass'
<1>1. CASE UNCHANGED cacheVars
  BY <1>1, SizeFrame DEF cacheVars
<1>2. CASE CacheNext
  BY <1>2, SizeOthers, SizeMaintain, SizeStart, SizeEntry, SizeRow, SizeEnds
<1> QED
  BY <1>1, <1>2

\* Only a pass that removed a row ends within the step that leaves "drop".
LEMMA SizeDone ==
    ASSUME MapInv, SizePass, CacheNext, prune.stage # "next", prune'.stage = "next",
           prune.plan # <<>>
    PROVE  PruneRow
<1>1. ASSUME UNCHANGED prune PROVE FALSE
  BY <1>1
<1>2. ASSUME NEW u \in Users,
             \/ \E k \in Keys : Find(u, k)
             \/ Create(u) \/ ReadRow(u) \/ Stamp(u) \/ Check(u) \/ Started(u) \/ Use(u)
             \/ \E b \in BOOLEAN : Enter(u, b) \/ Close(u, b)
      PROVE  UNCHANGED prune
  BY <1>2 DEF Find, Create, ReadRow, Stamp, Check, Started, Use, Enter, Close
<1>3. ASSUME NEW i \in Ids,
             \/ Begin(i) \/ Write(i) \/ Finish(i) \/ EndWork(i)
             \/ \E timeout \in BOOLEAN : Give(i, timeout)
      PROVE  UNCHANGED prune
  BY <1>3 DEF Begin, Write, Finish, EndWork, Give
<1>4. ASSUME Tick \/ \E k \in Keys : Touch(k) PROVE UNCHANGED prune
  BY <1>4 DEF Tick, Touch
<1>5. ASSUME NEW by \in Ids \cup {None}, Maintain(by) PROVE FALSE
  BY <1>5 DEF Maintain, SizePass
<1>6. ASSUME EndMaintenance \/ Remount PROVE FALSE
  BY <1>6 DEF EndMaintenance, Remount, Idle
<1>7. ASSUME PruneEntry PROVE FALSE
  BY <1>7, PassIs DEF PruneEntry
<1>8. ~StartPass
  BY DEF StartPass
<1> QED
  BY <1>1, <1>2, <1>3, <1>4, <1>5, <1>6, <1>7, <1>8 DEF CacheNext

\* Whatever is opened, closed and encoded while prune_cache_size goes over the
\* rows, it leaves no more in the index than the limit.
THEOREM SizeKeptHolds == CacheSpec => SizeKept
<1>1. CacheSpec => []MapInv
  BY InitMap, StepMap, PTL DEF CacheSpec
<1>2. MapInv /\ SizePass /\ [CacheNext]_cacheVars => SizePass'
  BY SizeStep
<1>3. MapInv /\ SizePass /\ [CacheNext]_cacheVars =>
        [prune.stage # "next" /\ prune'.stage = "next" /\ prune.plan # <<>>
           /\ Head(prune.plan) = "size" => Indexed(row') <= MaxCacheSize]_cacheVars
  BY SizeDone, SizeRow
<1> QED
  BY <1>1, <1>2, <1>3, SizeInit, PTL DEF CacheSpec, SizeKept
=============================================================================
